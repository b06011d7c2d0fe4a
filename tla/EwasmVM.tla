------------------------------ MODULE EwasmVM ------------------------------
(***************************************************************************)
(* The EVMC virtual machine "wasmedge": execute() of                       *)
(* tools/wasmedge-evmc/evmccreate.cpp with the engine and the host around  *)
(* it.  The client starts an execution; the contract calls the EEI; an EEI *)
(* call reaches the host, which answers by itself or runs the message in   *)
(* this VM again, so that executions nest.  The engine and the host are    *)
(* external: they may do whatever their interfaces allow.                  *)
(***************************************************************************)
EXTENDS EEI

CONSTANTS
  WasmBinary,    \* byte vectors that begin with the magic of a module
  Instantiable,  \* modules that load, validate and instantiate
  HasStart,      \* modules that parse and have a start section
  HasMemory,     \* modules that export a memory
  HostGasLeft,   \* gas a host may leave, besides all of the message's
  RootMessages   \* messages the client executes

ASSUME CodeAssumption ==
  /\ WasmBinary \subseteq Bytes \ {Empty}
  /\ Instantiable \subseteq WasmBinary
  /\ HasStart \subseteq WasmBinary
  /\ HasMemory \subseteq Instantiable
ASSUME HostAssumption == HostGasLeft \subseteq Int
ASSUME RootAssumption ==
  \A m \in RootMessages : m \in Message /\ m.depth <= MaxDepth

Init ==
  /\ frames = <<>>
  /\ reply = NoResult
  /\ storage \in [Address -> BOOLEAN]
  /\ logged = {}
  /\ destructed = {}

-----------------------------------------------------------------------------
(* Starting an execution.                                                  *)

\* execute() up to the engine running code: instantiation runs the start
\* function of a module that has one; a module without a start function
\* needs an exported memory before "main" is run.
Loaded(m, code) ==
  [SetEVMCMessage(m) EXCEPT
     !.phase = IF code \in Instantiable
                  /\ (code \in HasStart \/ code \in HasMemory)
               THEN "run" ELSE "trap",
     !.entry = IF code \in HasStart THEN "start" ELSE "main"]

\* The client executes a message when no execution is in progress.
Execute ==
  /\ frames = <<>>
  /\ \E m \in RootMessages, code \in Bytes :
       frames' = <<Loaded(m, code)>>
  /\ reply' = NoResult
  /\ UNCHANGED world

Calling == frames # <<>> /\ Top.phase = "call" /\ reply = NoResult

\* The account a host runs a message for: the one called; the sender when
\* code is borrowed (or, for a simple host, still the one called); any for
\* a creation.
Recipients(m) ==
  CASE m.kind = "CALL" -> {m.dest}
    [] m.kind \in {"CALLCODE", "DELEGATECALL"} -> {m.dest, m.sender}
    [] OTHER -> Address

\* The host runs the message in this VM: Host.call re-enters execute().
HostExecutes ==
  /\ Calling
  /\ \E self \in Recipients(Top.out), code \in Bytes :
       frames' = Append(frames, Loaded([Top.out EXCEPT !.dest = self], code))
  /\ UNCHANGED <<reply, world>>

\* The host answers without this VM: an account without code, a
\* precompiled contract, a failed transfer, another VM.
HostAnswers ==
  /\ Calling
  /\ \E status \in Status, output \in Bytes,
        gas \in {g \in HostGasLeft : g <= Top.out.gas} \cup {Top.out.gas} :
       /\ status = "FAILURE" => gas <= 0
       /\ reply' = [status |-> status, gasLeft |-> gas, output |-> output]
  /\ UNCHANGED <<frames, world>>

-----------------------------------------------------------------------------
(* The engine ends the contract's code.                                    *)

\* The function returns without finish or revert.
CodeReturns ==
  /\ Running
  /\ SetTop([Top EXCEPT !.phase = "stopped"])
  /\ UNCHANGED <<reply, world>>

\* A trap of the contract's own code.
CodeTraps ==
  /\ Running
  /\ SetTop(Trap(Top))
  /\ UNCHANGED <<reply, world>>

-----------------------------------------------------------------------------
(* Building the result.                                                    *)

\* The status before the deployed code is verified.  A module whose start
\* function ran is refused, whatever the function did.
RunStatus(f) ==
  IF f.phase = "trap" \/ f.entry = "start" THEN "FAILURE"
  ELSE IF f.isRevert THEN "REVERT" ELSE "SUCCESS"

\* "Verify the deployed code": a module that does not parse, or parses and
\* has no start section, is refused.
DeployRefused(f) ==
  f.msg.kind = "CREATE" /\ f.returnData \in WasmBinary \ HasStart

\* Bug: a reverted creation is verified like a successful one.
VerifiesReverted(f) == IF DeployRefused(f) THEN "FAILURE" ELSE RunStatus(f)

FinalStatus(f) ==
  IF RunStatus(f) # "REVERT" /\ DeployRefused(f)
  THEN "FAILURE" ELSE RunStatus(f)

\* The gas left is what the engine's own meter leaves.
ResultOf(f) ==
  [status |-> FinalStatus(f),
   gasLeft |-> IF FinalStatus(f) = "FAILURE" THEN 0 ELSE f.msg.gas - f.cost,
   output |-> f.returnData]

\* execute() returns to the host, or to the client.
Return ==
  /\ frames # <<>> /\ Top.phase \in Exits
  /\ frames' = SubSeq(frames, 1, Len(frames) - 1)
  /\ reply' = ResultOf(Top)
  /\ UNCHANGED world

Next ==
  \/ Execute \/ HostExecutes \/ HostAnswers
  \/ EEIStep
  \/ CodeReturns \/ CodeTraps \/ Return

Spec == Init /\ [][Next]_vars

\* The runtime returns and the host answers; nothing obliges the contract's
\* own code to end, or the client to start an execution.
FairSpec ==
  /\ Spec
  /\ WF_vars(HostExecutes \/ HostAnswers)
  /\ WF_vars(CallReturns)
  /\ WF_vars(Return)
=============================================================================
