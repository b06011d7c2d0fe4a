\* The engine measures costs beside the EEI's own meter, in creations that
\* return code of every kind and end in every way.
SPECIFICATION FairSpec
CONSTANTS
  a0 = a0
  a9 = a9
  empty = empty
  startcode = startcode
  code = code
  Address = {a0, a9}
  ZeroAddress = a0
  KeccakAddress = a9
  Byte = {0, 1}
  WordLen = 2
  Bytes = {empty, code, startcode}
  Empty = empty
  Digest = empty
  CostMeasuring = TRUE
  Imports = {"callDelegate", "getBlockHash", "externalCodeCopy", "useGas", "finish", "revert"}
  CallGas = {40000}
  UseGasAmounts = {0, 1700}
  CopyLengths = {9600}
  LogTopics = {}
  LogLengths = {}
  WasmBinary = {code, startcode}
  Instantiable = {code, startcode}
  HasStart = {startcode}
  HasMemory = {code}
  HostGasLeft = {0}
  RootDepth = 1023
  RootGas = 1600
  RootKinds = {"CREATE"}
  RootStatic = {FALSE}
  RootValues <- OneValue
  RootMessages <- MCRootMessages
PROPERTY CallsEnd
PROPERTY CallsUseUp
PROPERTY ResultContract
