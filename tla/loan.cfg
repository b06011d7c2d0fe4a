\* Violated: the gas lent is capped before the transfer of value is charged.
SPECIFICATION Spec
CONSTANTS
  a0 = a0
  a9 = a9
  empty = empty
  code = code
  Address = {a0, a9}
  ZeroAddress = a0
  KeccakAddress = a9
  Byte = {0, 1}
  WordLen = 2
  Bytes = {empty, code}
  Empty = empty
  Digest = empty
  CostMeasuring = FALSE
  Imports = {"call"}
  CallGas = {40000}
  UseGasAmounts = {}
  CopyLengths = {}
  LogTopics = {}
  LogLengths = {}
  WasmBinary = {code}
  Instantiable = {code}
  HasStart = {}
  HasMemory = {code}
  HostGasLeft = {0}
  RootDepth = 1023
  RootGas = 9050
  RootKinds = {"CALL"}
  RootStatic = {FALSE}
  RootValues <- NoValue
  RootMessages <- MCRootMessages
INVARIANT LoanWithinRemainder
