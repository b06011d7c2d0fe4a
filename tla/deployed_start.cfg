\* Violated: code that is accepted can never be run.
SPECIFICATION Spec
CONSTANTS
  a0 = a0
  a9 = a9
  empty = empty
  data = data
  code = code
  startcode = startcode
  badcode = badcode
  Address = {a0, a9}
  ZeroAddress = a0
  KeccakAddress = a9
  Byte = {0, 1}
  WordLen = 2
  Bytes = {empty, data, code, startcode, badcode}
  Empty = empty
  Digest = data
  CostMeasuring = FALSE
  Imports = {"finish"}
  CallGas = {0}
  UseGasAmounts = {}
  CopyLengths = {}
  LogTopics = {}
  LogLengths = {}
  WasmBinary = {code, startcode, badcode}
  Instantiable = {code, startcode}
  HasStart = {startcode}
  HasMemory = {code}
  HostGasLeft = {0}
  RootDepth = 1023
  RootGas = 0
  RootKinds = {"CREATE"}
  RootStatic = {FALSE}
  RootValues <- NoValue
  RootMessages <- MCRootMessages
PROPERTY VerifiedCodeRuns
