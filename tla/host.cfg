\* Two nested executions, an item that changes up to three times, and one
\* access and one call more than the records hold.
SPECIFICATION Spec
CONSTANTS
  a = a
  k = k
  x = x
  e1 = e1
  e2 = e2
  none = none
  nocontext = nocontext
  b = b
  Address = {a, b}
  Prepared = {a}
  Key = {k}
  Value = {0, 1, 2}
  Input = {x}
  NoInput = none
  Execution = {e1, e2}
  NoContext = nocontext
  TxContext <- MCTxContext
  MaxAccesses = 2
  MaxCalls = 2
  MaxHistory = 3
  MaxRecords = 1
SYMMETRY MCSymmetry
INVARIANT TypeOK
INVARIANT DirtyTellsHistory
INVARIANT OneBlockPerExecution
INVARIANT RecordsFirstAccesses
INVARIANT InputsStayValid
PROPERTY StatusTellsHistory
