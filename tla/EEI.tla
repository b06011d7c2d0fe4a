-------------------------------- MODULE EEI --------------------------------
(***************************************************************************)
(* The Ethereum environment interface: the 35 host functions a contract    *)
(* imports from module "ethereum" (lib/eeimodule.cpp), each an action on   *)
(* the innermost running frame.  The bodies are in lib/eeifunc.cpp, the    *)
(* outgoing call in include/eeibase.h, the static costs in                 *)
(* include/eeifunc.h.                                                      *)
(*                                                                         *)
(* What the contract passes (gas, addresses, values, lengths) comes from   *)
(* small sets.  What linear memory holds is not modelled: an access may be *)
(* out of bounds at any time, and then the function fails where the code   *)
(* makes that access.                                                      *)
(***************************************************************************)
EXTENDS EVMEnvironment, FiniteSets

CONSTANTS
  CostMeasuring,  \* whether the engine's Statistics charge host functions
  Imports,        \* the functions the contracts import
  CallGas,        \* gas arguments of call, callCode, callDelegate, callStatic
  UseGasAmounts,  \* arguments of useGas
  CopyLengths,    \* lengths given to the copy functions
  LogTopics,      \* numbers of topics given to log
  LogLengths      \* data lengths given to log

VARIABLES
  frames,      \* the executions in progress, outermost first
  reply,       \* the result on its way to the innermost waiting caller
  storage,     \* the host's storage: whether an account's slot is nonzero
  logged,      \* accounts for which emit_log was called
  destructed   \* accounts for which selfdestruct was called

vars == <<frames, reply, storage, logged, destructed>>
world == <<storage, logged, destructed>>

Top == frames[Len(frames)]

SetTop(f) == frames' = [frames EXCEPT ![Len(frames)] = f]

-----------------------------------------------------------------------------
(* The function table and its static costs.                                *)

CopyFunctions ==
  {"callDataCopy", "codeCopy", "externalCodeCopy", "returnDataCopy"}

\* Functions that read the environment or the host and write only memory.
Getters ==
  {"getAddress", "getBlockCoinbase", "getBlockDifficulty", "getBlockGasLimit",
   "getBlockHash", "getBlockNumber", "getBlockTimestamp", "getChainId",
   "getCallDataSize", "getCallValue", "getCaller", "getCodeSize",
   "getExternalBalance", "getExternalCodeSize", "getGasLeft",
   "getReturnDataSize", "getTxGasPrice", "getTxOrigin"}

EEIFunctions ==
  {"call", "callCode", "callDelegate", "callStatic", "create", "create2",
   "finish", "log", "revert", "selfDestruct", "storageLoad", "storageStore",
   "useGas"}
    \cup CopyFunctions \cup Getters

ASSUME MeteringAssumption == CostMeasuring \in BOOLEAN
ASSUME ImportsAssumption == Imports \subseteq EEIFunctions
ASSUME ArgumentsAssumption ==
  /\ CallGas \subseteq Nat
  /\ UseGasAmounts \subseteq Nat
  /\ CopyLengths \subseteq Nat
  /\ LogTopics \subseteq Nat
  /\ LogLengths \subseteq Nat

StaticCost ==
  [fn \in EEIFunctions |->
     CASE fn \in {"create", "create2"} -> 32000
       [] fn \in {"selfDestruct", "storageStore"} -> 5000
       [] fn = "getBlockHash" -> 800
       [] fn \in {"call", "callCode", "callDelegate", "callStatic",
                  "externalCodeCopy", "getExternalCodeSize"} -> 700
       [] fn = "getExternalBalance" -> 400
       [] fn = "log" -> 375
       [] fn = "storageLoad" -> 200
       [] fn \in {"finish", "revert", "useGas"} -> 0
       [] fn \in CopyFunctions \ {"externalCodeCopy"} -> 3
       [] OTHER -> 2]

Running == frames # <<>> /\ Top.phase = "run"

\* The engine charges StaticCost before it enters the function; the limit
\* of its Statistics is the message's gas.
Affordable(f, fn) == CostMeasuring => f.cost + StaticCost[fn] <= f.msg.gas

\* Bug: the cost is compared with the limit and never recorded.
ChargedNothing(f, fn) == f

Charged(f, fn) ==
  [f EXCEPT !.cost = IF CostMeasuring THEN @ + StaticCost[fn] ELSE @]

Invoke(fn) == Running /\ fn \in Imports /\ Affordable(Top, fn)

\* The engine refuses the call: CostLimitExceeded, the cost at its limit.
OutOfCost ==
  /\ Running
  /\ \E fn \in Imports : ~Affordable(Top, fn)
  /\ SetTop(Trap([Top EXCEPT !.cost = Top.msg.gas]))
  /\ UNCHANGED <<reply, world>>

-----------------------------------------------------------------------------
(* Outgoing calls: callContract.                                           *)

\* Bug: the callee runs at its caller's depth.
MessageAtSameDepth(f, kind, static, gas, dest, value) ==
  [kind |-> kind, static |-> static, depth |-> f.msg.depth,
   gas |-> CappedGas(f, gas), dest |-> dest, sender |-> f.msg.dest,
   value |-> value]

\* The message the call functions build.  Its sender is the account that
\* runs the code, its gas is capped before callContract charges anything.
CallMessage(f, kind, static, gas, dest, value) ==
  [kind |-> kind, static |-> static, depth |-> f.msg.depth + 1,
   gas |-> CappedGas(f, gas), dest |-> dest, sender |-> f.msg.dest,
   value |-> value]

\* create and create2: all the gas the cap allows, flags 0.
CreateMessage(f, kind, value) ==
  CallMessage(f, kind, FALSE, MaxCallGas(f), ZeroAddress, value)

MaxDepth == 1024

\* Bug: one level too many.
DepthExceededOffByOne(f) == f.msg.depth > MaxDepth

DepthExceeded(f) == f.msg.depth >= MaxDepth

\* Bug: only calls that move value are refused in static mode.
CreateAllowedInStatic(f, m) ==
  f.msg.static /\ m.kind = "CALL" /\ ~IsZero(m.value)

\* "Check flag": what static mode refuses.
StaticViolation(f, m) ==
  /\ f.msg.static
  /\ m.kind = "CREATE" \/ (m.kind = "CALL" /\ ~IsZero(m.value))

PaysTransfer(m) == m.kind \in {"CALL", "CALLCODE"} /\ ~IsZero(m.value)

TransferGas == 9000
NewAccountGas == 25000

\* "Take additional gas": the second charge when the host does not know the
\* destination.  A failure of either charge leaves the meter at its limit.
TransferCosts(m) ==
  IF PaysTransfer(m) THEN {TransferGas, TransferGas + NewAccountGas} ELSE {0}

\* "Check balance": the host's answer compared with the value.  "huge"
\* stands for a balance, or a value, that does not fit 128 bits.
BalanceAnswers(m) ==
  IF ~PaysTransfer(m) /\ m.kind # "CREATE" THEN {"enough"}
  ELSE IF ~FitsUInt128(m.value) THEN {"huge"}
  ELSE {"enough", "huge"} \cup IF IsZero(m.value) THEN {} ELSE {"short"}

\* "Add gas stipend for value transfers".
Stipend(m) == IF ~IsZero(m.value) /\ m.kind # "CREATE" THEN 2300 ELSE 0

\* Bug: the callee's gas is not taken from the caller.
SendUncharged(g, m, gasLeft) ==
  [g EXCEPT !.phase = "call", !.before = gasLeft,
            !.out = [m EXCEPT !.gas = @ + Stipend(m)]]

\* "Assign gas to callee" (the outcome of consumeGas is not looked at),
\* add the stipend, and hand the message to the host.
Send(g, m, gasLeft) ==
  [ConsumeGas(g, m.gas) EXCEPT
     !.phase = "call", !.before = gasLeft,
     !.out = [m EXCEPT !.gas = @ + Stipend(m)]]

\* callContract up to Host.call, in the frame f whose static cost is paid.
CallContract(f, m) ==
  /\ UNCHANGED <<reply, world>>
  /\ \/ DepthExceeded(f) /\ SetTop(f)                  \* returns 1
     \/ SetTop(Trap(f))          \* address, value or input out of bounds
     \/ /\ ~DepthExceeded(f)
        /\ StaticViolation(f, m)
        /\ SetTop(Trap(f))
     \/ /\ ~DepthExceeded(f)
        /\ ~StaticViolation(f, m)
        /\ \E cost \in TransferCosts(m) :
             LET g == ConsumeGas(f, cost) IN
             \/ ~HasGas(f, cost) /\ SetTop(Trap(g))
             \/ /\ HasGas(f, cost)
                /\ \E balance \in BalanceAnswers(m) :
                     \/ balance = "huge" /\ SetTop(Trap(g))
                     \/ balance = "short" /\ SetTop(g)        \* returns 1
                     \/ balance = "enough" /\ SetTop(Send(g, m, GasLeft(f)))

EEICall ==
  /\ Invoke("call")
  /\ LET f == Charged(Top, "call") IN
     \E gas \in CallGas, dest \in Address, value \in LoadedUInt128 :
       CallContract(f, CallMessage(f, "CALL", f.msg.static, gas, dest, value))

EEICallCode ==
  /\ Invoke("callCode")
  /\ LET f == Charged(Top, "callCode") IN
     \E gas \in CallGas, dest \in Address, value \in LoadedUInt128 :
       CallContract(f,
         CallMessage(f, "CALLCODE", f.msg.static, gas, dest, value))

EEICallDelegate ==
  /\ Invoke("callDelegate")
  /\ LET f == Charged(Top, "callDelegate") IN
     \E gas \in CallGas, dest \in Address :
       CallContract(f, CallMessage(f, "DELEGATECALL", f.msg.static, gas, dest,
                                   CallValueEVMC(f)))

ZeroWord == [i \in 1..WordLen |-> 0]

\* callStatic to address 9: the runtime hashes the input itself.
KeccakPrecompile(f) ==
  \E n \in CopyLengths :
    /\ UNCHANGED <<reply, world>>
    /\ LET g == ConsumeGas(f, CopyCost(n)) IN
       \/ SetTop(Trap(g))             \* out of gas, or input out of bounds
       \/ /\ HasGas(f, CopyCost(n))
          /\ SetTop([g EXCEPT !.returnData = Digest])

EEICallStatic ==
  /\ Invoke("callStatic")
  /\ LET f == Charged(Top, "callStatic") IN
     \/ KeccakPrecompile(f)
     \/ \E gas \in CallGas, dest \in Address \ {KeccakAddress} :
          CallContract(f, CallMessage(f, "CALL", TRUE, gas, dest, ZeroWord))

EEICreate ==
  /\ Invoke("create")
  /\ LET f == Charged(Top, "create") IN
     \E value \in LoadedUInt128 :
       CallContract(f, CreateMessage(f, "CREATE", value))

EEICreate2 ==
  /\ Invoke("create2")
  /\ LET f == Charged(Top, "create2") IN
     \E value \in LoadedUInt128 :
       CallContract(f, CreateMessage(f, "CREATE2", value))

\* callContract after Host.call: r is the host's result.
Created(f, r) == f.out.kind = "CREATE" /\ r.status = "SUCCESS"

Resume(f, data) ==
  [f EXCEPT !.phase = "run", !.out = NoMessage, !.before = 0,
            !.returnData = data]

CallReturns ==
  /\ frames # <<>> /\ reply # NoResult
  /\ reply' = NoResult
  /\ UNCHANGED world
  /\ LET g == ReturnGas(Top, reply.gasLeft) IN
     \/ reply.gasLeft < 0 /\ SetTop(Trap(Top))
     \/ /\ reply.gasLeft >= 0
        /\ Created(Top, reply)
        /\ SetTop(Trap(g))          \* the address's offset is out of bounds
     \/ /\ reply.gasLeft >= 0
        /\ SetTop(Resume(g, IF Created(Top, reply)
                              THEN Empty ELSE reply.output))

-----------------------------------------------------------------------------
(* Functions that never leave the frame.                                   *)

\* A charge of the EEI's own, then an access that may be out of bounds.
Consume(f, gas) ==
  LET g == ConsumeGas(f, gas) IN
  \/ SetTop(Trap(f))                     \* the module has no memory
  \/ SetTop(Trap(g))
  \/ HasGas(f, gas) /\ SetTop(g)

\* The copy functions: 3 gas per word, then the bytes go to memory.
Copying(fn) ==
  \E n \in CopyLengths :
    /\ Invoke(fn)
    /\ Consume(Charged(Top, fn), CopyCost(n))
    /\ UNCHANGED <<reply, world>>

EEICallDataCopy == Copying("callDataCopy")
EEICodeCopy == Copying("codeCopy")
\* Also fails when the host has fewer bytes than asked for.
EEIExternalCodeCopy == Copying("externalCodeCopy")
EEIReturnDataCopy == Copying("returnDataCopy")

\* Read and store into memory.
Reading(fn) ==
  /\ Invoke(fn)
  /\ LET f == Charged(Top, fn) IN SetTop(f) \/ SetTop(Trap(f))
  /\ UNCHANGED <<reply, world>>

\* A getter fails on an address out of bounds and, when it stores a
\* 128-bit number, on a host value whose upper half is not null.
EEIGet == \E fn \in Getters : Reading(fn)

EEIStorageLoad == Reading("storageLoad")

EEIUseGas ==
  \E gas \in UseGasAmounts :
    /\ Invoke("useGas")
    /\ LET f == Charged(Top, "useGas")
           g == ConsumeGas(f, gas)
       IN SetTop(IF HasGas(f, gas) THEN g ELSE Trap(g))
    /\ UNCHANGED <<reply, world>>

-----------------------------------------------------------------------------
(* Functions with an effect on the host.                                   *)

\* Emits for the running account; static mode is not looked at.
EEILog ==
  \E topics \in LogTopics, n \in LogLengths :
    /\ Invoke("log")
    /\ LET f == Charged(Top, "log")
           g == ConsumeGas(f, LogCost(topics, n))
       IN \/ SetTop(Trap(f)) /\ UNCHANGED logged     \* no memory, topics > 4
          \/ /\ topics <= 4 /\ SetTop(Trap(g))   \* out of gas or of bounds
             /\ UNCHANGED logged
          \/ /\ topics <= 4 /\ HasGas(f, LogCost(topics, n)) /\ SetTop(g)
             /\ logged' = logged \cup {f.msg.dest}
    /\ UNCHANGED <<reply, storage, destructed>>

CreateSlotGas == 15000

\* nonzero: whether the value stored is nonzero.
StoreCost(self, nonzero) ==
  IF nonzero /\ ~storage[self] THEN CreateSlotGas ELSE 0

\* "Static mode cannot store storage".
MayStore(f) == ~f.msg.static

EEIStorageStore ==
  \E nonzero \in BOOLEAN :
    /\ Invoke("storageStore")
    /\ LET f == Charged(Top, "storageStore")
           cost == StoreCost(f.msg.dest, nonzero)
           g == ConsumeGas(f, cost)
       IN \/ ~MayStore(f) /\ SetTop(Trap(f)) /\ UNCHANGED storage
          \/ MayStore(f) /\ SetTop(Trap(f)) /\ UNCHANGED storage
          \/ /\ MayStore(f) /\ ~HasGas(f, cost) /\ SetTop(Trap(g))
             /\ UNCHANGED storage
          \/ /\ MayStore(f) /\ HasGas(f, cost) /\ SetTop(g)
             /\ storage' = [storage EXCEPT ![f.msg.dest] = nonzero]
    /\ UNCHANGED <<reply, logged, destructed>>

\* exists: the host's answer about the beneficiary.  The return data the
\* frame holds from an earlier call stays and becomes its output.
EEISelfDestruct ==
  \E exists \in BOOLEAN :
    /\ Invoke("selfDestruct")
    /\ LET f == Charged(Top, "selfDestruct")
           cost == IF exists THEN 0 ELSE NewAccountGas
           g == ConsumeGas(f, cost)
       IN \/ SetTop(Trap(f)) /\ UNCHANGED destructed   \* address out of bounds
          \/ ~HasGas(f, cost) /\ SetTop(Trap(g)) /\ UNCHANGED destructed
          \/ /\ HasGas(f, cost) /\ SetTop([g EXCEPT !.phase = "stopped"])
             /\ destructed' = destructed \cup {f.msg.dest}
    /\ UNCHANGED <<reply, storage, logged>>

-----------------------------------------------------------------------------
(* Functions that end the contract with output.  The return data is        *)
(* cleared before the output is read, so an access out of bounds leaves    *)
(* none; IsRevert is set last.                                             *)

EEIFinish ==
  /\ Invoke("finish")
  /\ LET f == Charged(Top, "finish") IN
     \/ SetTop(Trap([f EXCEPT !.returnData = Empty]))
     \/ \E data \in Bytes :
          SetTop([f EXCEPT !.returnData = data, !.phase = "finished"])
  /\ UNCHANGED <<reply, world>>

EEIRevert ==
  /\ Invoke("revert")
  /\ LET f == Charged(Top, "revert") IN
     \/ SetTop(Trap([f EXCEPT !.returnData = Empty]))
     \/ \E data \in Bytes :
          SetTop([f EXCEPT !.returnData = data, !.phase = "finished",
                           !.isRevert = TRUE])
  /\ UNCHANGED <<reply, world>>

\* Every function of the table.
EEIStep ==
  \/ EEICall \/ EEICallCode \/ EEICallDelegate \/ EEICallStatic
  \/ EEICreate \/ EEICreate2 \/ CallReturns
  \/ EEICallDataCopy \/ EEICodeCopy \/ EEIExternalCodeCopy
  \/ EEIReturnDataCopy \/ EEIGet \/ EEIStorageLoad \/ EEIUseGas
  \/ EEILog \/ EEIStorageStore \/ EEISelfDestruct
  \/ EEIFinish \/ EEIRevert
  \/ OutOfCost
=============================================================================
