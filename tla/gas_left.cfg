\* Violated: the gas reported ignores what the EEI charged.
SPECIFICATION Spec
CONSTANTS
  a0 = a0
  a9 = a9
  empty = empty
  code = code
  Address = {a0, a9}
  ZeroAddress = a0
  KeccakAddress = a9
  Byte = {0, 1}
  WordLen = 2
  Bytes = {empty, code}
  Empty = empty
  Digest = empty
  CostMeasuring = FALSE
  Imports = {"useGas"}
  CallGas = {0}
  UseGasAmounts = {10}
  CopyLengths = {}
  LogTopics = {}
  LogLengths = {}
  WasmBinary = {code}
  Instantiable = {code}
  HasStart = {}
  HasMemory = {code}
  HostGasLeft = {0}
  RootDepth = 1023
  RootGas = 100
  RootKinds = {"CALL"}
  RootStatic = {FALSE}
  RootValues <- NoValue
  RootMessages <- MCRootMessages
PROPERTY GasLeftAfterExecution
