---------------------------- MODULE EwasmVMProps ----------------------------
(***************************************************************************)
(* The properties of EwasmVM.  The first group holds; the last one says    *)
(* what a comment of the code or the EVMC header promises and the code     *)
(* does not keep.                                                          *)
(***************************************************************************)
EXTENDS EwasmVM

Depths == DOMAIN frames

\* Every part of the state has its type; the innermost frame alone may be
\* anything but waiting, and a result for a frame finds it waiting.
TypeOK ==
  /\ frames \in Seq(Frame)
  /\ reply \in Result \cup {NoResult}
  /\ storage \in [Address -> BOOLEAN]
  /\ logged \subseteq Address
  /\ destructed \subseteq Address
  /\ \A i \in Depths : i < Len(frames) => frames[i].phase = "call"
  /\ frames # <<>> /\ reply # NoResult => Top.phase = "call"

\* No execution's environment uses more gas than its message brought,
\* although a charge may exceed what is left, what a call lends may exceed
\* what its caller has, and callees hand gas back (consumeGas, returnGas).
\* The engine's meter reaches the caller in ResultContract.
MeterWithinLimit == \A i \in Depths : frames[i].used <= frames[i].msg.gas

\* Executions nest one level at a time and never below level 1024, whichever
\* functions the contracts call through (callContract's depth check and the
\* depth each message is given).
DepthDiscipline ==
  \A i \in Depths : /\ frames[i].msg.depth = frames[1].msg.depth + i - 1
                    /\ frames[i].msg.depth <= MaxDepth

\* What a waiting caller lent and what it kept are together what it had:
\* exactly, when no value moves; and never more than the stipend of 2300 on
\* top of it, even where the caller could not pay what it lent.
CallFunding ==
  \A i \in Depths :
    LET f == frames[i] IN
    f.phase = "call" =>
      IF IsZero(f.out.value) THEN f.out.gas + GasLeft(f) = f.before
      ELSE f.out.gas + GasLeft(f) <= f.before + 2300

\* The sum of the first n numbers of a sequence, for each n.
Sums(s) ==
  LET sum[n \in 0..Len(s)] == IF n = 0 THEN 0 ELSE sum[n - 1] + s[n] IN sum

\* The gas all executions in progress could still spend is at most the gas
\* the client gave, plus one stipend for each nested call.
StackGas ==
  LET lefts == [i \in 1..Len(frames) |-> GasLeft(frames[i])] IN
  frames # <<>> =>
    Sums(lefts)[Len(frames)] <= frames[1].msg.gas + 2300 * (Len(frames) - 1)

\* A call never leaves its caller with more gas than it had before, but for
\* the stipend of a call that moves value: however the callee ends, and
\* whatever meter its result was computed from.
ResumeGas ==
  [][\A i \in Depths \cap DOMAIN frames' :
       frames[i].phase = "call" /\ frames'[i].phase # "call" =>
         GasLeft(frames'[i]) <= frames[i].before + Stipend(frames[i].out)]_vars

\* While an execution in static mode is in progress, storage changes only
\* below a CREATE2 that execution has led to: no other chain of calls, of
\* any kind and depth, loses the static flag (flags of the messages,
\* callContract's flag check, storageStore's check).
NoWriteUnderStatic ==
  [][storage' # storage =>
       \A i \in Depths : frames[i].msg.static =>
         \E j \in Depths : j > i /\ frames[j].msg.kind = "CREATE2"]_vars

\* What execute() reports: a contract that reverted is reported as reverted,
\* never as failed and never as successful, whatever code it returned and
\* whatever failed after; only a main function that did not trap is reported
\* as anything but failed, so never a module whose start function ran before
\* it was refused; failure leaves no gas; the gas left is between zero and
\* the message's.
ResultContract ==
  [][Len(frames') < Len(frames) =>
       /\ reply'.status = "REVERT" <=>
            Top.isRevert /\ Top.phase = "finished" /\ Top.entry = "main"
       /\ reply'.status # "FAILURE" => Top.entry = "main" /\ Top.phase # "trap"
       /\ reply'.status = "FAILURE" => reply'.gasLeft = 0
       /\ reply'.gasLeft \in 0..Top.msg.gas]_vars

\* With the engine measuring costs, executions end unless the code of one
\* contract computes for ever: contracts cannot keep calling one another,
\* however much of its gas each call is refunded (addCost before each host
\* function; the depth limit).
CallsEnd ==
  []<>(frames = <<>>) \/ <>[](frames # <<>> /\ Top.phase = "run")

\* How far an execution in progress is from getting on without the engine
\* charging it: waiting for its host, holding the host's answer, running, or
\* ended.
Stage(i) ==
  CASE frames[i].phase = "call" ->
         IF i = Len(frames) /\ reply # NoResult THEN 2 ELSE 3
    [] frames[i].phase = "run" -> 1
    [] OTHER -> 0

\* What each execution in progress can still use up, the greatest part first.
Remainders ==
  [i \in Depths |->
     <<frames[i].msg.gas - frames[i].cost, Stage(i), GasLeft(frames[i])>>]

Smaller(s, t) ==
  \/ s[1] < t[1]
  \/ s[1] = t[1] /\ s[2] < t[2]
  \/ s[1] = t[1] /\ s[2] = t[2] /\ s[3] < t[3]

\* The first execution whose remainder differs has less, or has just begun.
Lowers(now, next) ==
  \E i \in DOMAIN next :
    /\ \A j \in 1..i - 1 : j \in DOMAIN now /\ next[j] = now[j]
    /\ i \in DOMAIN now => Smaller(next[i], now[i])

\* With the engine measuring costs every step uses something up, until the
\* client's execution ends: what a call gives back, what an answer lets a
\* caller do and the gas a new execution starts with are always less than
\* what was charged for (addCost before each host function).  No chain of
\* calls, refunds and creations is without end.
CallsUseUp ==
  [][CostMeasuring /\ frames' # <<>> => Lowers(Remainders, Remainders')]_vars

\* An execution as a level of CallTree.
LevelOf(f) ==
  [limit |-> f.msg.gas, left |-> GasLeft(f),
   depth |-> f.msg.depth, static |-> f.msg.static,
   loan |-> IF f.phase # "call" THEN {}
            ELSE {[gas |-> f.out.gas, gift |-> Stipend(f.out),
                   static |-> f.out.static,
                   create2 |-> f.out.kind = "CREATE2"]}]

\* The stack as the levels, and the reply as the answer, of CallTree.
Levels == [i \in 1..Len(frames) |-> LevelOf(frames[i])]
Answer == IF reply = NoResult THEN {} ELSE {reply.gasLeft}

Tree == INSTANCE CallTree WITH
  Gifts <- {0, 2300}, levels <- Levels, answer <- Answer

\* execute(), the EEI and a host together behave like levels that borrow
\* gas: every host function, trap and early return only spends, lends or
\* ends, over both meters; depth and static mode go with the loan; and the
\* answer of one level is all that reaches the level above it.
CallsFormTree == Tree!Spec

-----------------------------------------------------------------------------
(* What the code's comments and the EVMC header say.                       *)

\* eeibase.h: "Msg.gas is ensured <= remain gas in caller": a value transfer
\* leaves the caller without the 9000 gas it cost.
LoanWithinRemainder ==
  \A i \in Depths :
    LET f == frames[i] IN
    f.phase = "call" /\ PaysTransfer(f.out) =>
      f.out.gas - Stipend(f.out) + GasLeft(f) + TransferGas <= f.before

\* evmc.h, gas_left: "The amount of gas left after the execution": not more
\* than what the environment's getGasLeft says at the end.
GasLeftAfterExecution ==
  [][Len(frames') < Len(frames) => reply'.gasLeft <= GasLeft(Top)]_vars

\* evmc.h, output_data: "The output contains data coming from RETURN opcode
\* (...) or from REVERT opcode".
OutputFromFinishOrRevert ==
  [][Len(frames') < Len(frames) /\ reply'.output # Empty =>
       Top.phase = "finished"]_vars

\* evmc.h: a value is "a big-endian 256-bit integer"; eeienv.h: "Getter of
\* call value in EVMC version": a delegated call carries the caller's value.
DelegateValueKept ==
  \A i \in Depths :
    frames[i].phase = "call" /\ frames[i].out.kind = "DELEGATECALL" =>
      frames[i].out.value = frames[i].msg.value

\* eeifunc.cpp: "Static mode cannot store storage": not even through the
\* contracts it calls.
StaticModeCannotStore ==
  [][storage' # storage => \A i \in Depths : ~frames[i].msg.static]_vars

\* evmccreate.cpp: "Verify the deployed code": code accepted for deployment
\* is not code execute() refuses because the "Module contains start function".
VerifiedCodeRuns ==
  [][Len(frames') < Len(frames) /\ Top.msg.kind = "CREATE"
       /\ reply'.status = "SUCCESS" /\ reply'.output \in WasmBinary =>
         reply'.output \notin HasStart]_vars
=============================================================================
