\* Violated: CREATE2 in static mode leads to a write.
SPECIFICATION Spec
CONSTANTS
  a0 = a0
  a9 = a9
  empty = empty
  code = code
  Address = {a0, a9}
  ZeroAddress = a0
  KeccakAddress = a9
  Byte = {0, 1}
  WordLen = 2
  Bytes = {empty, code}
  Empty = empty
  Digest = empty
  CostMeasuring = FALSE
  Imports = {"callStatic", "create2", "storageStore"}
  CallGas = {0}
  UseGasAmounts = {}
  CopyLengths = {}
  LogTopics = {}
  LogLengths = {}
  WasmBinary = {code}
  Instantiable = {code}
  HasStart = {}
  HasMemory = {code}
  HostGasLeft = {0}
  RootDepth = 1022
  RootGas = 0
  RootKinds = {"CALL"}
  RootStatic = {FALSE}
  RootValues <- NoValue
  RootMessages <- MCRootMessages
PROPERTY StaticModeCannotStore
