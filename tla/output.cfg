\* Violated: the return data of an earlier call becomes the output.
SPECIFICATION Spec
CONSTANTS
  a0 = a0
  a9 = a9
  empty = empty
  data = data
  code = code
  Address = {a0, a9}
  ZeroAddress = a0
  KeccakAddress = a9
  Byte = {0, 1}
  WordLen = 2
  Bytes = {empty, data, code}
  Empty = empty
  Digest = data
  CostMeasuring = FALSE
  Imports = {"callStatic"}
  CallGas = {0}
  UseGasAmounts = {}
  CopyLengths = {33}
  LogTopics = {}
  LogLengths = {}
  WasmBinary = {code}
  Instantiable = {code}
  HasStart = {}
  HasMemory = {code}
  HostGasLeft = {0}
  RootDepth = 1023
  RootGas = 100
  RootKinds = {"CALL"}
  RootStatic = {FALSE}
  RootValues <- NoValue
  RootMessages <- MCRootMessages
PROPERTY OutputFromFinishOrRevert
