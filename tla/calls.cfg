\* Every kind of call of a contract whose gas covers one transfer of
\* value, between functions that read, copy and self-destruct; the callee's
\* callee is refused by the depth limit.
SPECIFICATION Spec
CONSTANTS
  a0 = a0
  a9 = a9
  empty = empty
  code = code
  Address = {a0, a9}
  ZeroAddress = a0
  KeccakAddress = a9
  Byte = {0, 1}
  WordLen = 2
  Bytes = {empty, code}
  Empty = empty
  Digest = empty
  CostMeasuring = FALSE
  Imports = {"call", "callCode", "callDelegate", "callStatic", "create", "create2", "callDataCopy", "codeCopy", "returnDataCopy", "getGasLeft", "storageLoad", "selfDestruct"}
  CallGas = {0, 40000}
  UseGasAmounts = {}
  CopyLengths = {0, 100000}
  LogTopics = {}
  LogLengths = {}
  WasmBinary = {code}
  Instantiable = {code}
  HasStart = {}
  HasMemory = {code}
  HostGasLeft <- Negative
  RootDepth = 1023
  RootGas = 9050
  RootKinds = {"CALL"}
  RootStatic = {FALSE}
  RootValues <- OneValue
  RootMessages <- MCRootMessages
INVARIANT TypeOK
INVARIANT MeterWithinLimit
INVARIANT CallFunding
PROPERTY ResumeGas
