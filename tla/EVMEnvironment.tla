--------------------------- MODULE EVMEnvironment ---------------------------
(***************************************************************************)
(* The state the runtime keeps for ONE contract execution, and the         *)
(* operations on it: the class EVMEnvironment (include/eeienv.h,           *)
(* lib/eeienv.cpp) and the helpers of EEI<T> that only read or change it   *)
(* (include/eeibase.h).  A frame is one activation of evmccreate.cpp's     *)
(* execute(): its EVMEnvironment, the cost the engine's Statistics has     *)
(* recorded, and how far the contract has come.                            *)
(*                                                                         *)
(* An execution has TWO meters.  The EEI charges GasUsed of the            *)
(* environment; the engine charges its own TotalCost.  execute() binds the *)
(* environment to local copies of the engine's limit and cost, so neither  *)
(* meter sees what the other one charges.                                  *)
(***************************************************************************)
EXTENDS Integers, Sequences

CONSTANTS
  Address,        \* accounts
  ZeroAddress,    \* the address of 20 null bytes, destination of a creation
  KeccakAddress,  \* the address 9, served by the runtime itself
  Byte,           \* values of one byte of a word, 0 among them
  WordLen,        \* bytes of a word (32 in the code)
  Bytes,          \* contents of a byte vector: code, input, output
  Empty,          \* the vector of length 0
  Digest          \* a Keccak-256 digest

ASSUME AddressAssumption == {ZeroAddress, KeccakAddress} \subseteq Address
ASSUME WordAssumption == 0 \in Byte /\ WordLen \in Nat \ {0}
ASSUME BytesAssumption == {Empty, Digest} \subseteq Bytes

-----------------------------------------------------------------------------
(* 256-bit words.  Only the byte order and which half is null matter.      *)

Word == [1..WordLen -> Byte]

IsZero(w) == \A i \in 1..WordLen : w[i] = 0

\* std::reverse over the 32 bytes: big-endian to little-endian and back.
Reversed(w) == [i \in 1..WordLen |-> w[WordLen + 1 - i]]

\* convToUInt128 succeeds: the upper half is null.
FitsUInt128(w) == \A i \in 1..WordLen \div 2 : w[i] = 0

\* What loadUInt(.., 16) can return: 16 bytes put in the lower half.
LoadedUInt128 == {w \in Word : FitsUInt128(w)}

-----------------------------------------------------------------------------
(* Messages, results and frames.                                           *)

Kind == {"CALL", "DELEGATECALL", "CALLCODE", "CREATE", "CREATE2"}

\* evmc_message; the call data is left to the host, the salt is not kept.
Message == [kind : Kind, static : BOOLEAN, depth : Nat, gas : Nat,
            dest : Address, sender : Address, value : Word]

NoMessage == [kind |-> "none"]

Status == {"SUCCESS", "FAILURE", "REVERT"}

\* evmc_result; gas_left is signed, a host may answer with a negative one.
Result == [status : Status, gasLeft : Int, output : Bytes]

NoResult == [status |-> "none"]

\* "run": the contract's code runs; "call": Host.call has not returned;
\* "finished": finish or revert ended it; "stopped": main returned or
\* selfDestruct ended it; "trap": load, instantiation or execution failed.
Phase == {"run", "call", "finished", "stopped", "trap"}
Exits == {"finished", "stopped", "trap"}

\* entry: the function the engine runs ("start" during instantiation).
\* out: the message handed to Host.call.  before: gas left when the EEI
\* function that sent it was entered (a history field, never read back).
Frame == [msg : Message, callValue : Word, used : Nat, cost : Nat,
          returnData : Bytes, isRevert : BOOLEAN,
          phase : Phase, entry : {"start", "main"},
          out : Message \cup {NoMessage}, before : Nat]

\* The environment after setEVMCMessage: CallValue is kept reversed.
SetEVMCMessage(m) ==
  [msg |-> m, callValue |-> Reversed(m.value), used |-> 0, cost |-> 0,
   returnData |-> Empty, isRevert |-> FALSE,
   phase |-> "run", entry |-> "main", out |-> NoMessage, before |-> 0]

-----------------------------------------------------------------------------
(* The EEI's gas meter.  GasLimit is the message's gas.                    *)

GasLeft(f) == f.msg.gas - f.used

HasGas(f, g) == GasLeft(f) >= g

\* Bug: the failing branch forgets to clamp the meter to its limit.
ConsumeGasUnclamped(f, g) == [f EXCEPT !.used = @ + g]

\* consumeGas: on failure the meter is left at its limit.
ConsumeGas(f, g) ==
  [f EXCEPT !.used = IF HasGas(f, g) THEN @ + g ELSE f.msg.gas]

\* Bug: returns more than was used, the unsigned meter wraps below zero.
ReturnGasUnclamped(f, g) == [f EXCEPT !.used = @ - g]

\* returnGas: never below zero.
ReturnGas(f, g) == [f EXCEPT !.used = IF @ < g THEN 0 ELSE @ - g]

\* addCopyCost: 3 gas per 32-byte word, rounded up.
CopyCost(n) == 3 * ((n + 31) \div 32)

\* EEILog::body: 375 per topic and 8 per byte.
LogCost(topics, n) == 375 * topics + 8 * n

\* getMaxCallGas: all but one 64th of the gas left.
MaxCallGas(f) == GasLeft(f) - (GasLeft(f) \div 64)

\* Bug: the contract's gas argument is not capped.
UncappedGas(f, gas) == gas

\* std::min(Gas, getMaxCallGas()), taken before the call's own charges.
CappedGas(f, gas) == IF gas <= MaxCallGas(f) THEN gas ELSE MaxCallGas(f)

\* getCallValueEVMC: copies the little-endian vector byte for byte.
CallValueEVMC(f) == f.callValue

\* An execution that fails inside the engine or an EEI function.
Trap(f) == [f EXCEPT !.phase = "trap", !.out = NoMessage, !.before = 0]
=============================================================================
