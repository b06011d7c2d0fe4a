\* Messages that end in each place of a second block, twice in a row, in any calls of
\* addData; every pair of revisions and a stack just above SWAP16's needs.
SPECIFICATION Spec
CONSTANTS
  BlockLen = 3
  InputByte = {7, 9}
  MaxMessage = 5
  StackLimit = 18
  ExtraCap = 1
INVARIANT BufferHasRoom
INVARIANT TablesAgree
INVARIANT StackCovered
INVARIANT UpgradeKeepsPrograms
PROPERTY DigestsWholeMessage
PROPERTY LoopEnds
