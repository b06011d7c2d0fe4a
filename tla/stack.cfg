\* Three levels of calls of every kind up to the depth limit, with stipends
\* at each, writes to storage and logs.
SPECIFICATION Spec
CONSTANTS
  a0 = a0
  a9 = a9
  empty = empty
  code = code
  Address = {a0, a9}
  ZeroAddress = a0
  KeccakAddress = a9
  Byte = {0, 1}
  WordLen = 2
  Bytes = {empty, code}
  Empty = empty
  Digest = empty
  CostMeasuring = FALSE
  Imports = {"call", "callCode", "callDelegate", "callStatic", "create", "create2", "storageStore", "log"}
  CallGas = {40000}
  UseGasAmounts = {}
  CopyLengths = {}
  LogTopics = {0, 5}
  LogLengths = {0, 1000}
  WasmBinary = {code}
  Instantiable = {code}
  HasStart = {}
  HasMemory = {code}
  HostGasLeft = {}
  RootDepth = 1022
  RootGas = 1
  RootKinds = {"CALL"}
  RootStatic = {FALSE}
  RootValues <- OneValue
  RootMessages <- MCRootMessages
INVARIANT DepthDiscipline
INVARIANT StackGas
PROPERTY NoWriteUnderStatic
PROPERTY CallsFormTree
