--------------------------- MODULE EwasmVMProofs ---------------------------
(***************************************************************************)
(* Proofs, for every instance, of the safety properties of EwasmVMProps    *)
(* that speak of single executions or pairs of them.                       *)
(***************************************************************************)
EXTENDS EwasmVMProps, TLAPS, SequenceTheorems

-----------------------------------------------------------------------------
(* The inductive invariant.                                                *)

\* What a waiting caller knows of the message it sent.
Lent(f) ==
  /\ f.out \in Message
  /\ f.msg.depth < MaxDepth
  /\ f.out.depth = f.msg.depth + 1
  /\ f.before <= f.msg.gas
  /\ f.out.gas + GasLeft(f) <= f.before + Stipend(f.out)
  /\ IsZero(f.out.value) => f.out.gas + GasLeft(f) = f.before
  /\ f.msg.static => f.out.static \/ f.out.kind = "CREATE2"

\* One execution, seen by itself.
OK(f) ==
  /\ f \in Frame
  /\ f.used <= f.msg.gas
  /\ f.cost <= f.msg.gas
  /\ f.msg.depth <= MaxDepth
  /\ f.isRevert => f.phase = "finished"
  /\ f.phase = "call" => Lent(f)

RunOK(f) == OK(f) /\ f.phase = "run"

\* An execution and the one it waits for.
Linked(f, g) ==
  /\ f.phase = "call"
  /\ g.msg.gas = f.out.gas

\* Frame i is not static, or frame j is, or a CREATE2 lies between them.
StaticBelow(i, j) ==
  frames[i].msg.static =>
    frames[j].msg.static \/ \E k \in i + 1 .. j : frames[k].msg.kind = "CREATE2"

WorldOK ==
  /\ storage \in [Address -> BOOLEAN]
  /\ logged \subseteq Address
  /\ destructed \subseteq Address

Inv ==
  /\ frames \in Seq(Frame)
  /\ reply \in Result \cup {NoResult}
  /\ WorldOK
  /\ \A i \in 1..Len(frames) : OK(frames[i])
  /\ \A i \in 1..Len(frames) - 1 : Linked(frames[i], frames[i + 1])
  /\ \A i \in 1..Len(frames) :
       frames[i].msg.depth = frames[1].msg.depth + i - 1
  /\ \A i, j \in 1..Len(frames) : i < j => StaticBelow(i, j)
  /\ frames # <<>> /\ reply # NoResult =>
       Top.phase = "call" /\ reply.gasLeft <= Top.out.gas

USE AddressAssumption, WordAssumption, BytesAssumption

-----------------------------------------------------------------------------
(* Lemmas about the gas schedule and the meter.                            *)

\* Every function of the table has a static cost.
LEMMA StaticCostNat == ASSUME NEW fn \in EEIFunctions PROVE StaticCost[fn] \in Nat
<1>1. StaticCost[fn] = 
     CASE fn \in {"create", "create2"} -> 32000
       [] fn \in {"selfDestruct", "storageStore"} -> 5000
       [] fn = "getBlockHash" -> 800
       [] fn \in {"call", "callCode", "callDelegate", "callStatic",
                  "externalCodeCopy", "getExternalCodeSize"} -> 700
       [] fn = "getExternalBalance" -> 400
       [] fn = "log" -> 375
       [] fn = "storageLoad" -> 200
       [] fn \in {"finish", "revert", "useGas"} -> 0
       [] fn \in CopyFunctions \ {"externalCodeCopy"} -> 3
       [] OTHER -> 2
  BY DEF StaticCost
<1>2. QED
  BY <1>1

\* getMaxCallGas never passes the gas left.
LEMMA MaxCallGasBound ==
  ASSUME NEW f \in Frame, f.used <= f.msg.gas
  PROVE  /\ MaxCallGas(f) \in Nat
         /\ MaxCallGas(f) <= GasLeft(f)
         /\ GasLeft(f) \in Nat
BY DEF Frame, Message, MaxCallGas, GasLeft

\* consumeGas keeps a running execution well formed, whatever it charges.
LEMMA ConsumeGasOK ==
  ASSUME NEW f, RunOK(f), NEW g \in Nat
  PROVE  /\ RunOK(ConsumeGas(f, g))
         /\ ConsumeGas(f, g).msg = f.msg
         /\ GasLeft(ConsumeGas(f, g)) =
              IF HasGas(f, g) THEN GasLeft(f) - g ELSE 0
BY DEF RunOK, OK, Frame, Message, ConsumeGas, HasGas, GasLeft

\* A failure keeps it well formed.
LEMMA TrapOK ==
  ASSUME NEW f, OK(f), ~f.isRevert
  PROVE  OK(Trap(f)) /\ Trap(f).msg = f.msg
BY DEF OK, Frame, Phase, Trap

\* The engine's charge keeps both meters within the limit (addCost).
LEMMA ChargedOK ==
  ASSUME NEW f, RunOK(f), NEW fn \in EEIFunctions, Affordable(f, fn)
  PROVE  /\ RunOK(Charged(f, fn))
         /\ Charged(f, fn).msg = f.msg
BY StaticCostNat, MeteringAssumption DEF RunOK, OK, Frame, Message, Charged, Affordable

\* What the call functions may ask callContract to send from frame f.
Sendable(f, m) ==
  /\ m \in Message
  /\ m.depth = f.msg.depth + 1
  /\ m.gas <= MaxCallGas(f)
  /\ f.msg.static => m.static \/ m.kind \in {"CREATE", "CREATE2"}

\* The value of a static call (EEICallStatic) is a word.
LEMMA ZeroWordIsWord == ZeroWord \in Word
BY DEF ZeroWord, Word

\* The messages of call, callCode, callDelegate and callStatic.
LEMMA CallMessageOK ==
  ASSUME NEW f, RunOK(f), NEW kind \in Kind, NEW static \in BOOLEAN,
         NEW gas \in Nat, NEW dest \in Address, NEW value \in Word,
         f.msg.static => static \/ kind \in {"CREATE", "CREATE2"}
  PROVE  Sendable(f, CallMessage(f, kind, static, gas, dest, value))
<1>1. f \in Frame /\ f.used <= f.msg.gas BY DEF RunOK, OK
<1>2. CappedGas(f, gas) \in Nat /\ CappedGas(f, gas) <= MaxCallGas(f)
  BY <1>1, MaxCallGasBound DEF CappedGas
<1>3. f.msg.dest \in Address /\ f.msg.depth \in Nat
  BY <1>1 DEF Frame, Message
<1>4. QED
  BY <1>2, <1>3 DEF CallMessage, Sendable, Message

\* The messages of create and create2.
LEMMA CreateMessageOK ==
  ASSUME NEW f, RunOK(f), NEW kind \in {"CREATE", "CREATE2"},
         NEW value \in Word
  PROVE  Sendable(f, CreateMessage(f, kind, value))
<1>1. f \in Frame /\ f.used <= f.msg.gas BY DEF RunOK, OK
<1>2. MaxCallGas(f) \in Nat BY <1>1, MaxCallGasBound
<1>3. QED
  BY <1>2, CallMessageOK DEF CreateMessage, Kind

\* A caller that sends a message keeps and lends no more than it had.
LEMMA SendOK ==
  ASSUME NEW f, RunOK(f), f.msg.depth < MaxDepth,
         NEW m, Sendable(f, m), ~StaticViolation(f, m),
         NEW cost \in TransferCosts(m), HasGas(f, cost)
  PROVE  LET s == Send(ConsumeGas(f, cost), m, GasLeft(f)) IN
         OK(s) /\ s.msg = f.msg
<1> DEFINE g == ConsumeGas(f, cost)
           h == ConsumeGas(g, m.gas)
           out == [m EXCEPT !.gas = @ + Stipend(m)]
           s == Send(g, m, GasLeft(f))
<1>1. cost \in Nat /\ (IsZero(m.value) => cost = 0)
  BY DEF TransferCosts, PaysTransfer, TransferGas, NewAccountGas
<1>2. m \in Message /\ m.gas \in Nat /\ Stipend(m) \in Nat
  BY DEF Sendable, Message, Stipend
<1>3. RunOK(g) /\ g.msg = f.msg /\ GasLeft(g) = GasLeft(f) - cost
  BY <1>1, ConsumeGasOK
<1>4. RunOK(h) /\ h.msg = f.msg
      /\ GasLeft(h) = IF HasGas(g, m.gas) THEN GasLeft(g) - m.gas ELSE 0
  BY <1>2, <1>3, ConsumeGasOK
<1>5. GasLeft(f) \in Nat /\ m.gas <= GasLeft(f) /\ GasLeft(g) \in Nat
  BY <1>3, MaxCallGasBound DEF Sendable, RunOK, OK, Frame, Message, MaxCallGas, GasLeft
<1>6. /\ out \in Message
      /\ out.gas = m.gas + Stipend(m)
      /\ out.depth = m.depth /\ out.value = m.value
      /\ out.static = m.static /\ out.kind = m.kind
  BY <1>2 DEF Message
<1>7. Stipend(out) = Stipend(m)
  BY <1>6 DEF Stipend
<1>8. /\ s.msg = f.msg /\ s.used = h.used /\ s.cost = h.cost
      /\ s.isRevert = h.isRevert
      /\ s.phase = "call" /\ s.out = out /\ s.before = GasLeft(f)
      /\ s \in Frame
  BY <1>4, <1>5, <1>6 DEF Send, RunOK, OK, Frame, Phase
<1>9. GasLeft(s) = GasLeft(h)
  BY <1>4, <1>8 DEF GasLeft
<1>10. out.gas + GasLeft(s) <= s.before + Stipend(out)
  BY <1>1, <1>2, <1>3, <1>4, <1>5, <1>6, <1>7, <1>8, <1>9 DEF HasGas
<1>11. ASSUME IsZero(out.value) PROVE out.gas + GasLeft(s) = s.before
  <2>1. cost = 0 /\ Stipend(m) = 0
    BY <1>1, <1>6, <1>11 DEF Stipend
  <2>2. QED
    BY <2>1, <1>2, <1>3, <1>4, <1>5, <1>6, <1>8, <1>9 DEF HasGas
<1>12. f.msg.static => out.static \/ out.kind = "CREATE2"
  BY <1>6 DEF Sendable, StaticViolation
<1>13. s.before <= s.msg.gas
  BY <1>8 DEF GasLeft, RunOK, OK, Frame, Message
<1>14. QED
  BY <1>3, <1>4, <1>6, <1>8, <1>10, <1>11, <1>12, <1>13
  DEF OK, RunOK, Lent, Sendable

\* A caller that goes on has at most what it had, and the stipend.
LEMMA ResumeOK ==
  ASSUME NEW f, OK(f), f.phase = "call",
         NEW g \in Nat, g <= f.out.gas, NEW data \in Bytes
  PROVE  LET h == ReturnGas(f, g) IN
         /\ OK(Trap(h)) /\ Trap(h).msg = f.msg
         /\ RunOK(Resume(h, data)) /\ Resume(h, data).msg = f.msg
         /\ GasLeft(Trap(h)) <= f.before + Stipend(f.out)
         /\ GasLeft(Resume(h, data)) <= f.before + Stipend(f.out)
<1> DEFINE h == ReturnGas(f, g)
<1>1. /\ f \in Frame /\ f.used \in Nat /\ f.used <= f.msg.gas
      /\ f.msg.gas \in Nat /\ f.before \in Nat
      /\ f.out \in Message /\ f.out.gas \in Nat
      /\ f.out.gas + GasLeft(f) <= f.before + Stipend(f.out)
      /\ Stipend(f.out) \in Nat
      /\ f.cost <= f.msg.gas /\ f.msg.depth <= MaxDepth /\ ~f.isRevert
  BY DEF OK, Lent, Frame, Message, Stipend
<1>2. /\ h \in Frame /\ h.used \in Nat /\ h.used <= f.used
      /\ h.used >= f.used - g
      /\ h.msg = f.msg /\ h.cost = f.cost /\ h.isRevert = f.isRevert
  BY <1>1 DEF ReturnGas, Frame
<1>3. GasLeft(h) <= f.before + Stipend(f.out)
  BY <1>1, <1>2 DEF GasLeft
<1>4. /\ Trap(h) \in Frame /\ Trap(h).msg = h.msg
      /\ Trap(h).used = h.used /\ Trap(h).cost = h.cost
      /\ Trap(h).isRevert = h.isRevert /\ Trap(h).phase = "trap"
  BY <1>2 DEF Trap, Frame, Phase
<1>5. /\ Resume(h, data) \in Frame /\ Resume(h, data).msg = h.msg
      /\ Resume(h, data).used = h.used /\ Resume(h, data).cost = h.cost
      /\ Resume(h, data).isRevert = h.isRevert
      /\ Resume(h, data).phase = "run"
  BY <1>2 DEF Resume, Frame, Phase
<1>6. OK(Trap(h)) /\ RunOK(Resume(h, data))
  BY <1>1, <1>2, <1>4, <1>5 DEF RunOK, OK
<1>7. QED
  BY <1>2, <1>3, <1>4, <1>5, <1>6 DEF GasLeft

\* execute() starts with both meters at zero.
LEMMA LoadedOK ==
  ASSUME NEW m \in Message, m.depth <= MaxDepth, NEW code
  PROVE  OK(Loaded(m, code)) /\ Loaded(m, code).msg = m
<1>1. Reversed(m.value) \in Word
  BY DEF Message, Word, Reversed
<1> DEFINE f == SetEVMCMessage(m)
           g == Loaded(m, code)
<1>2. /\ f \in Frame /\ f.msg = m /\ f.used = 0 /\ f.cost = 0
      /\ f.isRevert = FALSE
  BY <1>1 DEF SetEVMCMessage, Frame, Phase
<1>3. /\ g \in Frame /\ g.msg = m /\ g.used = 0 /\ g.cost = 0
      /\ g.isRevert = FALSE /\ g.phase # "call"
  BY <1>2 DEF Loaded, Frame, Phase
<1>4. m.gas \in Nat
  BY DEF Message
<1>5. QED
  BY <1>3, <1>4 DEF OK

-----------------------------------------------------------------------------
(* Lemmas about the stack: changing, pushing and popping its top.          *)

\* The innermost frame of a nonempty stack is well formed.
LEMMA TopFacts ==
  ASSUME Inv, frames # <<>>
  PROVE  /\ Len(frames) \in Nat \ {0}
         /\ Top \in Frame
         /\ OK(Top)
         /\ Top = frames[Len(frames)]
BY EmptySeq, LenProperties, ElementOfSeq DEF Inv, Top

\* A step that replaces the innermost frame keeps the invariant, if the new
\* frame is well formed and keeps its message, and no reply is under way.
LEMMA TopStep ==
  ASSUME Inv, frames # <<>>, NEW g, OK(g), g.msg = Top.msg, SetTop(g),
         WorldOK', reply' = NoResult
  PROVE  Inv'
<1> DEFINE n == Len(frames)
<1>1. n \in Nat \ {0} /\ Top = frames[n] /\ g \in Frame
  BY TopFacts DEF OK
<1>2. /\ frames' \in Seq(Frame) /\ Len(frames') = n
      /\ \A i \in 1..n : frames'[i] = IF i = n THEN g ELSE frames[i]
  BY <1>1, ExceptSeq DEF Inv, SetTop
<1>3. \A i \in 1..n : frames'[i].msg = frames[i].msg
  BY <1>1, <1>2
<1>4. \A i \in 1..n : OK(frames'[i])
  BY <1>2 DEF Inv
<1>5. \A i \in 1..n - 1 : Linked(frames'[i], frames'[i + 1])
  BY <1>1, <1>2, <1>3 DEF Inv, Linked
<1>6. \A i \in 1..n : frames'[i].msg.depth = frames'[1].msg.depth + i - 1
  BY <1>1, <1>3 DEF Inv
<1>7. ASSUME NEW i \in 1..n, NEW j \in 1..n, i < j
      PROVE  StaticBelow(i, j)'
  <2>1. StaticBelow(i, j)
    BY <1>7 DEF Inv
  <2>2. \A k \in i + 1 .. j : frames'[k].msg = frames[k].msg
    BY <1>1, <1>3
  <2>3. QED
    BY <1>3, <2>1, <2>2 DEF StaticBelow
<1>8. QED
  BY <1>2, <1>4, <1>5, <1>6, <1>7 DEF Inv

\* The host runs the message of the waiting top: one more frame.
LEMMA Push ==
  ASSUME Inv, Calling, NEW m \in Message, NEW code,
         m.depth = Top.out.depth, m.gas = Top.out.gas,
         m.static = Top.out.static, m.kind = Top.out.kind,
         frames' = Append(frames, Loaded(m, code)),
         UNCHANGED <<reply, world>>
  PROVE  Inv'
<1> DEFINE n == Len(frames)
           g == Loaded(m, code)
<1>1. /\ n \in Nat \ {0} /\ Top = frames[n] /\ OK(Top) /\ Top.phase = "call"
      /\ Lent(Top) /\ reply = NoResult /\ Top.msg.depth \in Nat
  BY TopFacts DEF Calling, OK, Frame, Message
<1>2. OK(g) /\ g.msg = m /\ g \in Frame
  <2>1. m.depth <= MaxDepth
    BY <1>1 DEF Lent, MaxDepth
  <2>2. QED
    BY <2>1, LoadedOK DEF OK
<1>3. /\ frames' \in Seq(Frame) /\ Len(frames') = n + 1
      /\ \A i \in 1..n : frames'[i] = frames[i]
      /\ frames'[n + 1] = g
  BY <1>1, <1>2, AppendProperties DEF Inv
<1>4. \A i \in 1..n + 1 : OK(frames'[i])
  BY <1>1, <1>2, <1>3 DEF Inv
<1>5. \A i \in 1..n : Linked(frames'[i], frames'[i + 1])
  BY <1>1, <1>2, <1>3 DEF Inv, Linked
<1>6. \A i \in 1..n + 1 : frames'[i].msg.depth = frames'[1].msg.depth + i - 1
  <2>1. frames'[n + 1].msg.depth = frames[n].msg.depth + 1
    BY <1>1, <1>2, <1>3 DEF Lent
  <2>2. frames[n].msg.depth = frames[1].msg.depth + n - 1
    BY <1>1 DEF Inv
  <2>3. frames[1].msg.depth \in Nat
    <3>1. 1 \in 1..n
      BY <1>1
    <3>2. QED
      BY <3>1 DEF Inv, OK, Frame, Message
  <2>4. QED
    BY <1>1, <1>3, <2>1, <2>2, <2>3 DEF Inv
<1>7. ASSUME NEW i \in 1..n + 1, NEW j \in 1..n + 1, i < j
      PROVE  StaticBelow(i, j)'
  <2>1. CASE j <= n
    <3>1. StaticBelow(i, j)
      BY <1>1, <1>7, <2>1 DEF Inv
    <3>2. \A k \in i + 1 .. j : frames'[k] = frames[k]
      BY <1>1, <1>3, <2>1
    <3>3. QED
      BY <1>1, <1>3, <1>7, <2>1, <3>1, <3>2 DEF StaticBelow
  <2>2. CASE j = n + 1
    <3>1. frames[n].msg.static => g.msg.static \/ g.msg.kind = "CREATE2"
      <4>1. Top.msg.static => Top.out.static \/ Top.out.kind = "CREATE2"
        BY <1>1 DEF Lent
      <4>2. QED
        BY <1>1, <1>2, <4>1
    <3>2. i \in 1..n /\ (i < n => StaticBelow(i, n))
      <4>1. i \in 1..n /\ n \in 1..n
        BY <1>1, <1>7, <2>2
      <4>2. \A k, l \in 1..n : k < l => StaticBelow(k, l)
        BY DEF Inv
      <4>3. QED
        BY <4>1, <4>2
    <3>3. \A k \in i + 1 .. n : frames'[k] = frames[k] /\ k \in i + 1 .. j
      BY <1>1, <1>3, <2>2, <3>2
    <3>4. frames'[j] = g /\ j \in i + 1 .. j /\ frames'[i] = frames[i]
      BY <1>1, <1>3, <2>2, <3>2
    <3>5. ASSUME frames[i].msg.static
          PROVE  \/ frames'[j].msg.static
                 \/ \E k \in i + 1 .. j : frames'[k].msg.kind = "CREATE2"
      <4>1. frames[n].msg.static \/ \E k \in i + 1 .. n : frames[k].msg.kind = "CREATE2"
        BY <1>1, <3>2, <3>5 DEF StaticBelow
      <4>2. QED
        BY <3>1, <3>3, <3>4, <4>1
    <3>6. QED
      BY <3>4, <3>5 DEF StaticBelow
  <2>3. QED
    BY <1>1, <1>7, <2>1, <2>2
<1>8. QED
  BY <1>1, <1>3, <1>4, <1>5, <1>6, <1>7 DEF Inv, WorldOK, world

\* What execute() reports leaves no more gas than the message brought.
LEMMA ResultOfOK ==
  ASSUME NEW f, OK(f)
  PROVE  /\ ResultOf(f) \in Result
         /\ ResultOf(f).gasLeft \in 0..f.msg.gas
         /\ ResultOf(f).status = "FAILURE" => ResultOf(f).gasLeft = 0
<1>1. /\ f.cost \in Nat /\ f.msg.gas \in Nat /\ f.cost <= f.msg.gas
      /\ f.returnData \in Bytes
  BY DEF OK, Frame, Message
<1>2. FinalStatus(f) \in Status
  BY DEF FinalStatus, RunStatus, Status
<1>3. QED
  BY <1>1, <1>2 DEF ResultOf, Result

\* execute() returns: one frame less.
LEMMA Pop ==
  ASSUME Inv, Return
  PROVE  Inv'
<1> DEFINE n == Len(frames)
<1>1. n \in Nat \ {0} /\ Top = frames[n] /\ OK(Top)
  BY TopFacts DEF Return
<1>2. /\ frames' \in Seq(Frame) /\ Len(frames') = n - 1
      /\ \A i \in 1..n - 1 : frames'[i] = frames[i]
  <2>1. \A i \in 1..n - 1 : frames[i] \in Frame
    BY <1>1, ElementOfSeq DEF Inv
  <2>2. frames' = SubSeq(frames, 1, n - 1)
    BY DEF Return
  <2>3. /\ SubSeq(frames, 1, n - 1) \in Seq(Frame)
        /\ Len(SubSeq(frames, 1, n - 1)) =
             IF 1 <= n - 1 THEN n - 1 - 1 + 1 ELSE 0
        /\ \A i \in 1 .. n - 1 - 1 + 1 :
             SubSeq(frames, 1, n - 1)[i] = frames[1 + i - 1]
    <3>1. 1 \in Int /\ n - 1 \in Int
      BY <1>1
    <3> HIDE DEF n
    <3>2. QED
      BY <2>1, <3>1, SubSeqProperties
  <2> HIDE DEF n
  <2>4. QED
    BY <1>1, <2>2, <2>3
<1>3. reply' \in Result /\ reply'.gasLeft <= Top.msg.gas
  BY <1>1, ResultOfOK DEF Return, OK, Frame, Message
<1>4. \A i, j \in 1..n - 1 : i < j => StaticBelow(i, j)'
  <2> SUFFICES ASSUME NEW i \in 1..n - 1, NEW j \in 1..n - 1, i < j
               PROVE  StaticBelow(i, j)'
    OBVIOUS
  <2>1. StaticBelow(i, j)
    <3>1. i \in 1..n /\ j \in 1..n
      BY <1>1
    <3>2. QED
      BY <3>1 DEF Inv
  <2>2. \A k \in i + 1 .. j : frames'[k] = frames[k]
    BY <1>1, <1>2
  <2>3. QED
    BY <1>1, <1>2, <2>1, <2>2 DEF StaticBelow
<1>5. \A i \in 1..n - 1 : OK(frames'[i])
  BY <1>1, <1>2 DEF Inv
<1>6. \A i \in 1..n - 2 : Linked(frames'[i], frames'[i + 1])
  BY <1>1, <1>2 DEF Inv
<1>7. \A i \in 1..n - 1 : frames'[i].msg.depth = frames'[1].msg.depth + i - 1
  BY <1>1, <1>2 DEF Inv
<1>8. frames' # <<>> => Top'.phase = "call" /\ reply'.gasLeft <= Top'.out.gas
  <2> SUFFICES ASSUME frames' # <<>>
               PROVE  Top'.phase = "call" /\ reply'.gasLeft <= Top'.out.gas
    OBVIOUS
  <2>1. n - 1 \in Nat \ {0}
    BY <1>1, <1>2, EmptySeq
  <2>2. Top' = frames[n - 1]
    BY <1>2, <2>1 DEF Top
  <2>3. Linked(frames[n - 1], frames[n])
    <3>1. n - 1 \in 1..n - 1 /\ (n - 1) + 1 = n
      <4> HIDE DEF n
      <4>1. QED
        BY <1>1, <2>1
    <3>2. Linked(frames[n - 1], frames[(n - 1) + 1])
      BY <3>1 DEF Inv
    <3>3. QED
      BY <3>1, <3>2
  <2>4. QED
    BY <1>1, <1>3, <2>2, <2>3 DEF Linked
<1>9. QED
  BY <1>1, <1>2, <1>3, <1>4, <1>5, <1>6, <1>7, <1>8
  DEF Inv, WorldOK, Return, world

-----------------------------------------------------------------------------
(* Every action preserves the invariant.                                   *)

\* The innermost frame runs: it waits for no answer.
LEMMA RunningFacts ==
  ASSUME Inv, Running
  PROVE  frames # <<>> /\ reply = NoResult /\ RunOK(Top)
BY TopFacts DEF Running, Inv, RunOK

\* A step of the running frame that leaves the host alone.
LEMMA RunningStep ==
  ASSUME Inv, Running, NEW g, OK(g), g.msg = Top.msg, SetTop(g),
         UNCHANGED reply, WorldOK'
  PROVE  Inv'
BY RunningFacts, TopStep

\* The host's state keeps its type when nothing writes it.
LEMMA WorldStays == ASSUME Inv, UNCHANGED world PROVE WorldOK'
BY DEF Inv, WorldOK, world

\* The frame an EEI function works on.
LEMMA InvokeFacts ==
  ASSUME Inv, NEW fn, Invoke(fn)
  PROVE  LET f == Charged(Top, fn) IN
         /\ Running /\ RunOK(f) /\ f.msg = Top.msg
         /\ OK(Trap(f)) /\ Trap(f).msg = Top.msg
<1>1. /\ Running /\ fn \in EEIFunctions /\ RunOK(Top) /\ Affordable(Top, fn)
  BY RunningFacts, ImportsAssumption DEF Invoke
<1>2. RunOK(Charged(Top, fn)) /\ Charged(Top, fn).msg = Top.msg
  BY <1>1, ChargedOK
<1>3. QED
  BY <1>1, <1>2, TrapOK DEF RunOK, OK

\* A charge of a running frame, and the failure that may follow it.
LEMMA ConsumeFacts ==
  ASSUME NEW f, RunOK(f), NEW cost \in Nat
  PROVE  LET g == ConsumeGas(f, cost) IN
         /\ RunOK(g) /\ OK(g) /\ g.msg = f.msg
         /\ OK(Trap(g)) /\ Trap(g).msg = f.msg
BY ConsumeGasOK, TrapOK DEF RunOK, OK

\* callContract keeps the invariant, wherever it returns.
LEMMA CallContractStep ==
  ASSUME Inv, Running, NEW f, RunOK(f), f.msg = Top.msg,
         NEW m, Sendable(f, m), CallContract(f, m)
  PROVE  Inv'
<1>1. WorldOK' /\ UNCHANGED reply
  BY WorldStays DEF CallContract
<1>2. OK(f) /\ OK(Trap(f)) /\ Trap(f).msg = Top.msg
  BY TrapOK DEF RunOK, OK
<1>3. CASE SetTop(f)
  BY <1>1, <1>2, <1>3, RunningStep
<1>4. CASE SetTop(Trap(f))
  BY <1>1, <1>2, <1>4, RunningStep
<1>5. ASSUME ~DepthExceeded(f), ~StaticViolation(f, m),
             NEW cost \in TransferCosts(m),
             \/ SetTop(Trap(ConsumeGas(f, cost)))
             \/ SetTop(ConsumeGas(f, cost))
             \/ /\ HasGas(f, cost)
                /\ SetTop(Send(ConsumeGas(f, cost), m, GasLeft(f)))
      PROVE  Inv'
  <2> DEFINE g == ConsumeGas(f, cost)
             s == Send(g, m, GasLeft(f))
  <2>1. cost \in Nat
    BY DEF TransferCosts, TransferGas, NewAccountGas
  <2>2. OK(g) /\ g.msg = Top.msg /\ OK(Trap(g)) /\ Trap(g).msg = Top.msg
    BY <2>1, ConsumeFacts
  <2>3. f.msg.depth < MaxDepth
    BY <1>5 DEF DepthExceeded, MaxDepth, RunOK, OK, Frame, Message
  <2>4. CASE HasGas(f, cost) /\ SetTop(s)
    <3>1. OK(s) /\ s.msg = Top.msg
      BY <1>5, <2>3, <2>4, SendOK
    <3>2. QED
      BY <1>1, <2>4, <3>1, RunningStep
  <2>5. CASE SetTop(Trap(g))
    BY <1>1, <2>2, <2>5, RunningStep
  <2>6. CASE SetTop(g)
    BY <1>1, <2>2, <2>6, RunningStep
  <2>7. QED
    BY <1>5, <2>4, <2>5, <2>6
<1>6. QED
  BY <1>3, <1>4, <1>5 DEF CallContract

\* The words a contract or the runtime can put into a message.
LEMMA MessageValues ==
  /\ LoadedUInt128 \subseteq Word
  /\ ZeroWord \in Word
BY ZeroWordIsWord DEF LoadedUInt128

\* EEICall::body keeps the invariant.
LEMMA CallStep == ASSUME Inv, EEICall PROVE Inv'
<1> DEFINE f == Charged(Top, "call")
<1>1. Running /\ RunOK(f) /\ f.msg = Top.msg
  BY InvokeFacts DEF EEICall
<1>2. PICK gas \in CallGas, dest \in Address, value \in LoadedUInt128 :
        CallContract(f, CallMessage(f, "CALL", f.msg.static, gas, dest, value))
  BY DEF EEICall
<1>3. Sendable(f, CallMessage(f, "CALL", f.msg.static, gas, dest, value))
  <2>1. gas \in Nat /\ value \in Word /\ f.msg.static \in BOOLEAN
    BY <1>1, ArgumentsAssumption, MessageValues DEF RunOK, OK, Frame, Message
  <2>2. QED
    BY <1>1, <2>1, CallMessageOK DEF Kind
<1>4. QED
  BY <1>1, <1>2, <1>3, CallContractStep

\* EEICallCode::body keeps the invariant.
LEMMA CallCodeStep == ASSUME Inv, EEICallCode PROVE Inv'
<1> DEFINE f == Charged(Top, "callCode")
<1>1. Running /\ RunOK(f) /\ f.msg = Top.msg
  BY InvokeFacts DEF EEICallCode
<1>2. PICK gas \in CallGas, dest \in Address, value \in LoadedUInt128 :
        CallContract(f,
          CallMessage(f, "CALLCODE", f.msg.static, gas, dest, value))
  BY DEF EEICallCode
<1>3. Sendable(f, CallMessage(f, "CALLCODE", f.msg.static, gas, dest, value))
  <2>1. gas \in Nat /\ value \in Word /\ f.msg.static \in BOOLEAN
    BY <1>1, ArgumentsAssumption, MessageValues DEF RunOK, OK, Frame, Message
  <2>2. QED
    BY <1>1, <2>1, CallMessageOK DEF Kind
<1>4. QED
  BY <1>1, <1>2, <1>3, CallContractStep

\* EEICallDelegate::body keeps the invariant.
LEMMA CallDelegateStep == ASSUME Inv, EEICallDelegate PROVE Inv'
<1> DEFINE f == Charged(Top, "callDelegate")
<1>1. Running /\ RunOK(f) /\ f.msg = Top.msg
  BY InvokeFacts DEF EEICallDelegate
<1>2. PICK gas \in CallGas, dest \in Address :
        CallContract(f, CallMessage(f, "DELEGATECALL", f.msg.static, gas, dest,
                                    CallValueEVMC(f)))
  BY DEF EEICallDelegate
<1>3. Sendable(f, CallMessage(f, "DELEGATECALL", f.msg.static, gas, dest,
                              CallValueEVMC(f)))
  <2>1. gas \in Nat /\ CallValueEVMC(f) \in Word /\ f.msg.static \in BOOLEAN
    BY <1>1, ArgumentsAssumption
    DEF RunOK, OK, Frame, Message, CallValueEVMC
  <2>2. QED
    BY <1>1, <2>1, CallMessageOK DEF Kind
<1>4. QED
  BY <1>1, <1>2, <1>3, CallContractStep

\* EEICallStatic::body keeps the invariant, on both of its paths.
LEMMA CallStaticStep == ASSUME Inv, EEICallStatic PROVE Inv'
<1> DEFINE f == Charged(Top, "callStatic")
<1>1. Running /\ RunOK(f) /\ f.msg = Top.msg
  BY InvokeFacts DEF EEICallStatic
<1>2. CASE KeccakPrecompile(f)
  <2>1. PICK n \in CopyLengths :
          /\ UNCHANGED <<reply, world>>
          /\ \/ SetTop(Trap(ConsumeGas(f, CopyCost(n))))
             \/ SetTop([ConsumeGas(f, CopyCost(n)) EXCEPT !.returnData = Digest])
    BY <1>2 DEF KeccakPrecompile
  <2> DEFINE g == ConsumeGas(f, CopyCost(n))
             h == [g EXCEPT !.returnData = Digest]
  <2>2. CopyCost(n) \in Nat
    BY ArgumentsAssumption DEF CopyCost
  <2>3. RunOK(g) /\ g.msg = Top.msg /\ OK(Trap(g)) /\ Trap(g).msg = Top.msg
    BY <1>1, <2>2, ConsumeFacts
  <2>4. OK(h) /\ h.msg = Top.msg
    BY <2>3 DEF RunOK, OK, Frame
  <2>5. QED
    BY <1>1, <2>1, <2>3, <2>4, RunningStep, WorldStays
<1>3. ASSUME NEW gas \in CallGas, NEW dest \in Address,
             CallContract(f, CallMessage(f, "CALL", TRUE, gas, dest, ZeroWord))
      PROVE  Inv'
  <2>1. Sendable(f, CallMessage(f, "CALL", TRUE, gas, dest, ZeroWord))
    BY <1>1, CallMessageOK, ArgumentsAssumption, MessageValues DEF Kind
  <2>2. QED
    BY <1>1, <1>3, <2>1, CallContractStep
<1>4. QED
  BY <1>2, <1>3 DEF EEICallStatic

\* EEICreate::body and EEICreate2::body keep the invariant.
LEMMA CreateStep == ASSUME Inv, EEICreate \/ EEICreate2 PROVE Inv'
<1>1. CASE EEICreate
  <2> DEFINE f == Charged(Top, "create")
  <2>1. Running /\ RunOK(f) /\ f.msg = Top.msg
    BY <1>1, InvokeFacts DEF EEICreate
  <2>2. PICK value \in LoadedUInt128 :
          CallContract(f, CreateMessage(f, "CREATE", value))
    BY <1>1 DEF EEICreate
  <2>3. QED
    BY <2>1, <2>2, CreateMessageOK, MessageValues, CallContractStep
<1>2. CASE EEICreate2
  <2> DEFINE f == Charged(Top, "create2")
  <2>1. Running /\ RunOK(f) /\ f.msg = Top.msg
    BY <1>2, InvokeFacts DEF EEICreate2
  <2>2. PICK value \in LoadedUInt128 :
          CallContract(f, CreateMessage(f, "CREATE2", value))
    BY <1>2 DEF EEICreate2
  <2>3. QED
    BY <2>1, <2>2, CreateMessageOK, MessageValues, CallContractStep
<1>3. QED
  BY <1>1, <1>2

\* What a resumed caller has left (also the content of ResumeGas).
LEMMA CallReturnsFacts ==
  ASSUME Inv, CallReturns
  PROVE  /\ frames # <<>> /\ Top.phase = "call"
         /\ \E g : /\ OK(g) /\ g.msg = Top.msg /\ SetTop(g)
                  /\ GasLeft(g) <= Top.before + Stipend(Top.out)
<1>1. /\ frames # <<>> /\ OK(Top) /\ Top.phase = "call" /\ ~Top.isRevert
      /\ reply \in Result /\ reply.gasLeft <= Top.out.gas
  BY TopFacts DEF CallReturns, Inv, OK
<1>2. reply.gasLeft \in Int /\ reply.output \in Bytes
  BY <1>1 DEF Result
<1>3. CASE reply.gasLeft < 0 /\ SetTop(Trap(Top))
  <2>1. OK(Trap(Top)) /\ Trap(Top).msg = Top.msg
    BY <1>1, TrapOK
  <2>2. GasLeft(Trap(Top)) <= Top.before + Stipend(Top.out)
    <3>1. /\ Top.out.gas \in Nat /\ Top.before \in Nat /\ Top.used \in Nat
          /\ Top.msg.gas \in Nat /\ Stipend(Top.out) \in Nat
          /\ Top.out.gas + GasLeft(Top) <= Top.before + Stipend(Top.out)
      BY <1>1 DEF OK, Lent, Frame, Message, Stipend
    <3>2. Trap(Top).used = Top.used
      BY <1>1 DEF Trap, OK, Frame
    <3>3. QED
      BY <2>1, <3>1, <3>2 DEF GasLeft
  <2>3. QED
    BY <1>1, <1>3, <2>1, <2>2
<1>4. ASSUME reply.gasLeft >= 0, NEW data \in Bytes,
             LET g == ReturnGas(Top, reply.gasLeft) IN
             SetTop(Trap(g)) \/ SetTop(Resume(g, data))
      PROVE  \E g : /\ OK(g) /\ g.msg = Top.msg /\ SetTop(g)
                    /\ GasLeft(g) <= Top.before + Stipend(Top.out)
  <2>1. reply.gasLeft \in Nat
    BY <1>2, <1>4
  <2> DEFINE h == ReturnGas(Top, reply.gasLeft)
  <2>2. /\ OK(Trap(h)) /\ Trap(h).msg = Top.msg
        /\ RunOK(Resume(h, data)) /\ Resume(h, data).msg = Top.msg
        /\ GasLeft(Trap(h)) <= Top.before + Stipend(Top.out)
        /\ GasLeft(Resume(h, data)) <= Top.before + Stipend(Top.out)
    BY <1>1, <2>1, ResumeOK
  <2>3. QED
    BY <1>4, <2>2 DEF RunOK
<1>5. (IF Created(Top, reply) THEN Empty ELSE reply.output) \in Bytes
  BY <1>2
<1>6. QED
  BY <1>1, <1>3, <1>4, <1>5 DEF CallReturns

\* The second half of callContract keeps the invariant.
LEMMA CallReturnsStep == ASSUME Inv, CallReturns PROVE Inv'
BY CallReturnsFacts, TopStep, WorldStays DEF CallReturns

\* A charge, then success or failure.
LEMMA ConsumeStep ==
  ASSUME Inv, Running, NEW f, RunOK(f), f.msg = Top.msg, NEW cost \in Nat,
         \/ SetTop(Trap(f))
         \/ SetTop(Trap(ConsumeGas(f, cost)))
         \/ SetTop(ConsumeGas(f, cost)),
         UNCHANGED reply, WorldOK'
  PROVE  Inv'
<1>1. OK(Trap(f)) /\ Trap(f).msg = f.msg
  BY TrapOK DEF RunOK, OK
<1>2. QED
  BY <1>1, ConsumeFacts, RunningStep

\* The four copy functions keep the invariant.
LEMMA CopyStep ==
  ASSUME Inv, NEW fn, Copying(fn)
  PROVE  Inv'
<1>1. PICK n \in CopyLengths :
        Invoke(fn) /\ Consume(Charged(Top, fn), CopyCost(n))
        /\ UNCHANGED <<reply, world>>
  BY DEF Copying
<1>2. CopyCost(n) \in Nat
  BY ArgumentsAssumption DEF CopyCost
<1>3. QED
  BY <1>1, <1>2, InvokeFacts, ConsumeStep, WorldStays DEF Consume

\* The getters and storageLoad keep the invariant.
LEMMA ReadStep ==
  ASSUME Inv, NEW fn, Reading(fn)
  PROVE  Inv'
BY InvokeFacts, RunningStep, WorldStays DEF Reading, RunOK

\* EEIUseGas::body keeps the invariant.
LEMMA UseGasStep == ASSUME Inv, EEIUseGas PROVE Inv'
<1>1. PICK gas \in UseGasAmounts :
        /\ Invoke("useGas") /\ UNCHANGED <<reply, world>>
        /\ LET g == ConsumeGas(Charged(Top, "useGas"), gas) IN
           SetTop(g) \/ SetTop(Trap(g))
  BY DEF EEIUseGas
<1>2. gas \in Nat
  BY ArgumentsAssumption
<1>3. QED
  BY <1>1, <1>2, InvokeFacts, ConsumeStep, WorldStays

\* EEILog::body keeps the invariant.
LEMMA LogStep == ASSUME Inv, EEILog PROVE Inv'
<1> DEFINE f == Charged(Top, "log")
<1>1. PICK topics \in LogTopics, n \in LogLengths :
        /\ Invoke("log")
        /\ UNCHANGED <<reply, storage, destructed>>
        /\ logged' \in {logged, logged \cup {f.msg.dest}}
        /\ LET g == ConsumeGas(f, LogCost(topics, n)) IN
           SetTop(Trap(f)) \/ SetTop(Trap(g)) \/ SetTop(g)
  BY DEF EEILog
<1>2. LogCost(topics, n) \in Nat
  BY ArgumentsAssumption DEF LogCost
<1>3. Running /\ RunOK(f) /\ f.msg = Top.msg /\ OK(Trap(f)) /\ Trap(f).msg = Top.msg
  BY <1>1, InvokeFacts
<1>4. WorldOK'
  BY <1>1, <1>3 DEF Inv, WorldOK, RunOK, OK, Frame, Message
<1>5. QED
  BY <1>1, <1>2, <1>3, <1>4, ConsumeStep, RunningStep

\* EEIStorageStore::body keeps the invariant.
LEMMA StorageStoreStep == ASSUME Inv, EEIStorageStore PROVE Inv'
<1> DEFINE f == Charged(Top, "storageStore")
<1>1. PICK nonzero \in BOOLEAN :
        /\ Invoke("storageStore")
        /\ UNCHANGED <<reply, logged, destructed>>
        /\ storage' \in {storage, [storage EXCEPT ![f.msg.dest] = nonzero]}
        /\ LET g == ConsumeGas(f, StoreCost(f.msg.dest, nonzero)) IN
           SetTop(Trap(f)) \/ SetTop(Trap(g)) \/ SetTop(g)
  BY DEF EEIStorageStore
<1>2. StoreCost(f.msg.dest, nonzero) \in Nat
  BY DEF StoreCost, CreateSlotGas
<1>3. Running /\ RunOK(f) /\ f.msg = Top.msg /\ OK(Trap(f)) /\ Trap(f).msg = Top.msg
  BY <1>1, InvokeFacts
<1>4. WorldOK'
  <2>1. f.msg.dest \in Address
    BY <1>3 DEF RunOK, OK, Frame, Message
  <2>2. storage \in [Address -> BOOLEAN]
    BY DEF Inv, WorldOK
  <2>3. [storage EXCEPT ![f.msg.dest] = nonzero] \in [Address -> BOOLEAN]
    <3> HIDE DEF f
    <3>1. QED
      BY <2>1, <2>2
  <2>4. storage' \in [Address -> BOOLEAN]
    <3> HIDE DEF f
    <3>1. QED
      BY <1>1, <2>2, <2>3
  <2>5. QED
    BY <1>1, <2>4 DEF Inv, WorldOK
<1>5. QED
  BY <1>1, <1>2, <1>3, <1>4, ConsumeStep, RunningStep

\* EEISelfDestruct::body keeps the invariant.
LEMMA SelfDestructStep == ASSUME Inv, EEISelfDestruct PROVE Inv'
<1> DEFINE f == Charged(Top, "selfDestruct")
<1>1. PICK exists \in BOOLEAN :
        /\ Invoke("selfDestruct")
        /\ UNCHANGED <<reply, storage, logged>>
        /\ destructed' \in {destructed, destructed \cup {f.msg.dest}}
        /\ LET g == ConsumeGas(f, IF exists THEN 0 ELSE NewAccountGas) IN
           \/ SetTop(Trap(f)) \/ SetTop(Trap(g))
           \/ SetTop([g EXCEPT !.phase = "stopped"])
  BY DEF EEISelfDestruct
<1> DEFINE cost == IF exists THEN 0 ELSE NewAccountGas
           g == ConsumeGas(f, cost)
           h == [g EXCEPT !.phase = "stopped"]
<1>2. cost \in Nat
  BY DEF NewAccountGas
<1>3. Running /\ RunOK(f) /\ f.msg = Top.msg /\ OK(Trap(f)) /\ Trap(f).msg = Top.msg
  BY <1>1, InvokeFacts
<1>4. WorldOK'
  BY <1>1, <1>3 DEF Inv, WorldOK, RunOK, OK, Frame, Message
<1>5. RunOK(g) /\ g.msg = Top.msg /\ OK(Trap(g)) /\ Trap(g).msg = Top.msg
  BY <1>2, <1>3, ConsumeFacts
<1>6. OK(h) /\ h.msg = Top.msg
  BY <1>5 DEF RunOK, OK, Frame, Phase
<1>7. QED
  BY <1>1, <1>3, <1>4, <1>5, <1>6, RunningStep

\* EEIFinish::body and EEIRevert::body keep the invariant.
LEMMA FinishStep == ASSUME Inv, EEIFinish \/ EEIRevert PROVE Inv'
<1>1. ASSUME NEW f, RunOK(f), f.msg = Top.msg, Running,
             UNCHANGED <<reply, world>>, NEW data \in Bytes, NEW revert \in BOOLEAN,
             \/ SetTop(Trap([f EXCEPT !.returnData = Empty]))
             \/ SetTop([f EXCEPT !.returnData = data, !.phase = "finished"])
             \/ SetTop([f EXCEPT !.returnData = data, !.phase = "finished",
                                 !.isRevert = TRUE])
      PROVE  Inv'
  <2> DEFINE e == [f EXCEPT !.returnData = Empty]
             d == [f EXCEPT !.returnData = data, !.phase = "finished"]
             r == [f EXCEPT !.returnData = data, !.phase = "finished",
                            !.isRevert = TRUE]
  <2>1. OK(e) /\ ~e.isRevert /\ e.msg = Top.msg
    BY <1>1 DEF RunOK, OK, Frame
  <2>2. OK(Trap(e)) /\ Trap(e).msg = Top.msg
    BY <2>1, TrapOK
  <2>3. OK(d) /\ d.msg = Top.msg
    BY <1>1 DEF RunOK, OK, Frame, Phase
  <2>4. OK(r) /\ r.msg = Top.msg
    BY <1>1 DEF RunOK, OK, Frame, Phase
  <2>5. QED
    BY <1>1, <2>2, <2>3, <2>4, RunningStep, WorldStays
<1>2. CASE EEIFinish
  BY <1>1, <1>2, InvokeFacts DEF EEIFinish
<1>3. CASE EEIRevert
  BY <1>1, <1>3, InvokeFacts DEF EEIRevert
<1>4. QED
  BY <1>2, <1>3

\* The engine's refusal of a host function keeps the invariant.
LEMMA OutOfCostStep == ASSUME Inv, OutOfCost PROVE Inv'
<1> DEFINE f == [Top EXCEPT !.cost = Top.msg.gas]
<1>1. Running /\ RunOK(Top)
  BY RunningFacts DEF OutOfCost
<1>2. OK(f) /\ ~f.isRevert /\ f.msg = Top.msg
  BY <1>1 DEF RunOK, OK, Frame, Message
<1>3. OK(Trap(f)) /\ Trap(f).msg = Top.msg
  BY <1>2, TrapOK
<1>4. QED
  BY <1>1, <1>3, RunningStep, WorldStays DEF OutOfCost

\* The end of the contract's code keeps the invariant.
LEMMA CodeEndsStep == ASSUME Inv, CodeReturns \/ CodeTraps PROVE Inv'
<1> DEFINE f == [Top EXCEPT !.phase = "stopped"]
<1>1. Running /\ RunOK(Top)
  BY RunningFacts DEF CodeReturns, CodeTraps
<1>2. OK(f) /\ f.msg = Top.msg
  BY <1>1 DEF RunOK, OK, Frame, Phase
<1>3. OK(Trap(Top)) /\ Trap(Top).msg = Top.msg
  BY <1>1, TrapOK DEF RunOK, OK
<1>4. QED
  BY <1>1, <1>2, <1>3, RunningStep, WorldStays DEF CodeReturns, CodeTraps

\* The client starts an execution within the invariant.
LEMMA ExecuteStep == ASSUME Inv, Execute PROVE Inv'
<1>1. PICK m \in RootMessages, code \in Bytes : frames' = <<Loaded(m, code)>>
  BY DEF Execute
<1> DEFINE g == Loaded(m, code)
<1>2. OK(g) /\ g \in Frame /\ g.msg.depth \in Nat
  BY RootAssumption, LoadedOK DEF OK, Frame, Message
<1>3. frames' \in Seq(Frame) /\ Len(frames') = 1 /\ frames'[1] = g
  BY <1>1, <1>2
<1>4. WorldOK' /\ reply' = NoResult
  BY WorldStays DEF Execute
<1>5. QED
  BY <1>2, <1>3, <1>4 DEF Inv, StaticBelow

\* A nested execute() starts within the invariant.
LEMMA HostExecutesStep == ASSUME Inv, HostExecutes PROVE Inv'
<1>1. Calling /\ OK(Top) /\ Top.out \in Message
  BY TopFacts DEF HostExecutes, Calling, OK, Lent
<1>2. PICK self \in Recipients(Top.out), code \in Bytes :
        frames' = Append(frames, Loaded([Top.out EXCEPT !.dest = self], code))
  BY DEF HostExecutes
<1> DEFINE m == [Top.out EXCEPT !.dest = self]
<1>3. self \in Address
  BY <1>1 DEF Recipients, Message
<1>4. /\ m \in Message /\ m.depth = Top.out.depth /\ m.gas = Top.out.gas
      /\ m.static = Top.out.static /\ m.kind = Top.out.kind
  BY <1>1, <1>3 DEF Message
<1>5. QED
  BY <1>1, <1>2, <1>4, Push DEF HostExecutes

\* A host's answer is within the bound the invariant puts on replies.
LEMMA HostAnswersStep == ASSUME Inv, HostAnswers PROVE Inv'
<1>1. Calling /\ OK(Top) /\ Top.out \in Message /\ Top.out.gas \in Nat
  BY TopFacts DEF HostAnswers, Calling, OK, Lent, Message
<1>2. reply' \in Result /\ reply'.gasLeft <= Top.out.gas
  <2>1. PICK status \in Status, output \in Bytes,
             gas \in {g \in HostGasLeft : g <= Top.out.gas} \cup {Top.out.gas} :
          reply' = [status |-> status, gasLeft |-> gas, output |-> output]
    BY DEF HostAnswers
  <2>2. gas \in Int /\ gas <= Top.out.gas
    BY <1>1, HostAssumption
  <2>3. QED
    BY <2>1, <2>2 DEF Result
<1>3. UNCHANGED frames /\ WorldOK'
  BY WorldStays DEF HostAnswers
<1>4. Top' = Top /\ Top.phase = "call"
  BY <1>1, <1>3 DEF Top, Calling
<1>5. \A i, j \in 1..Len(frames) : i < j => StaticBelow(i, j)'
  BY <1>3 DEF Inv, StaticBelow
<1>6. QED
  BY <1>2, <1>3, <1>4, <1>5 DEF Inv

\* The invariant holds before the first execution.
LEMMA InitInv == ASSUME Init PROVE Inv
BY DEF Init, Inv, WorldOK

\* Every step, and every stuttering step, keeps the invariant.
LEMMA NextInv == ASSUME Inv, [Next]_vars PROVE Inv'
<1>1. CASE Execute
  BY <1>1, ExecuteStep
<1>2. CASE HostExecutes
  BY <1>2, HostExecutesStep
<1>3. CASE HostAnswers
  BY <1>3, HostAnswersStep
<1>4. CASE EEIStep
  BY <1>4, CallStep, CallCodeStep, CallDelegateStep, CallStaticStep,
     CreateStep, CallReturnsStep, CopyStep, ReadStep, UseGasStep, LogStep,
     StorageStoreStep, SelfDestructStep, FinishStep, OutOfCostStep
  DEF EEIStep, EEICallDataCopy, EEICodeCopy, EEIExternalCodeCopy,
      EEIReturnDataCopy, EEIGet, EEIStorageLoad
<1>5. CASE CodeReturns \/ CodeTraps
  BY <1>5, CodeEndsStep
<1>6. CASE Return
  BY <1>6, Pop
<1>7. CASE UNCHANGED vars
  BY <1>7 DEF vars, Inv, WorldOK, StaticBelow, Top
<1>8. QED
  BY <1>1, <1>2, <1>3, <1>4, <1>5, <1>6, <1>7 DEF Next

\* The inductive invariant holds in every reachable state.
THEOREM Invariance == Spec => []Inv
BY InitInv, NextInv, PTL DEF Spec

-----------------------------------------------------------------------------
(* The safety properties.                                                  *)

\* The levels of the stack are numbered from 1.
LEMMA DepthsAreLevels == ASSUME Inv PROVE Depths = 1..Len(frames) /\ Len(frames) \in Nat
BY LenProperties DEF Inv, Depths

\* Types, and who may be waiting (the shape of the call stack).
THEOREM TypeCorrect == Spec => []TypeOK
<1>1. ASSUME Inv PROVE TypeOK
  <2>1. Depths = 1..Len(frames) /\ Len(frames) \in Nat
    BY <1>1, DepthsAreLevels
  <2>2. \A i \in Depths : i < Len(frames) => frames[i].phase = "call"
    BY <1>1, <2>1 DEF Inv, Linked
  <2>3. QED
    BY <1>1, <2>2 DEF Inv, WorldOK, TypeOK
<1>2. QED
  BY <1>1, Invariance, PTL

\* No execution's environment uses more gas than its message brought.
THEOREM MeterStaysWithinLimit == Spec => []MeterWithinLimit
<1>1. ASSUME Inv PROVE MeterWithinLimit
  BY <1>1, DepthsAreLevels DEF Inv, OK, MeterWithinLimit
<1>2. QED
  BY <1>1, Invariance, PTL

\* The stack grows by one level of depth at a time, down to 1024 at most.
THEOREM DepthIsDisciplined == Spec => []DepthDiscipline
<1>1. ASSUME Inv PROVE DepthDiscipline
  BY <1>1, DepthsAreLevels DEF Inv, OK, DepthDiscipline
<1>2. QED
  BY <1>1, Invariance, PTL

\* A waiting caller lent no more than it had, and one stipend.
THEOREM CallsAreFunded == Spec => []CallFunding
<1>1. ASSUME Inv PROVE CallFunding
  <2> SUFFICES ASSUME NEW i \in Depths, frames[i].phase = "call"
               PROVE  LET f == frames[i] IN
                      IF IsZero(f.out.value)
                      THEN f.out.gas + GasLeft(f) = f.before
                      ELSE f.out.gas + GasLeft(f) <= f.before + 2300
    BY DEF CallFunding
  <2> DEFINE f == frames[i]
  <2>1. OK(f)
    BY <1>1, DepthsAreLevels DEF Inv
  <2>2. /\ f.out.gas \in Nat /\ f.before \in Nat /\ f.used \in Nat
        /\ f.msg.gas \in Nat
    BY <2>1 DEF OK, Lent, Frame, Message
  <2>3. QED
    BY <2>1, <2>2 DEF OK, Lent, Stipend, GasLeft
<1>2. QED
  BY <1>1, Invariance, PTL

\* An EEI function other than the return of a call works on a running top.
LEMMA EEIWorksOnTop ==
  ASSUME EEIStep, ~CallReturns
  PROVE  Running /\ \E g : SetTop(g)
<1>1. ASSUME NEW fn, Invoke(fn) PROVE Running
  BY <1>1 DEF Invoke
<1>2. ASSUME NEW f, NEW m, CallContract(f, m) PROVE \E g : SetTop(g)
  BY <1>2 DEF CallContract
<1>3. ASSUME NEW f, NEW c, Consume(f, c) PROVE \E g : SetTop(g)
  BY <1>3 DEF Consume
<1>4. CASE EEICall \/ EEICallCode \/ EEICallDelegate \/ EEICreate \/ EEICreate2
  BY <1>1, <1>2, <1>4
  DEF EEICall, EEICallCode, EEICallDelegate, EEICreate, EEICreate2
<1>5. CASE EEICallStatic
  BY <1>1, <1>2, <1>5 DEF EEICallStatic, KeccakPrecompile
<1>6. CASE \/ \E fn : Copying(fn) \/ Reading(fn)
           \/ EEIUseGas
  BY <1>1, <1>3, <1>6 DEF Copying, Reading, EEIUseGas
<1>7. CASE EEILog
  BY <1>1, <1>7 DEF EEILog
<1>8. CASE EEIStorageStore
  BY <1>1, <1>8 DEF EEIStorageStore
<1>9. CASE EEISelfDestruct
  BY <1>1, <1>9 DEF EEISelfDestruct
<1>10. CASE EEIFinish \/ EEIRevert
  BY <1>1, <1>10 DEF EEIFinish, EEIRevert
<1>11. CASE OutOfCost
  BY <1>11 DEF OutOfCost
<1>12. QED
  BY <1>4, <1>5, <1>6, <1>7, <1>8, <1>9, <1>10, <1>11
  DEF EEIStep, EEICallDataCopy, EEICodeCopy, EEIExternalCodeCopy,
      EEIReturnDataCopy, EEIGet, EEIStorageLoad

\* What a step does to the stack.
LEMMA StackStep ==
  ASSUME Inv, [Next]_vars
  PROVE  \/ Running /\ \E g : SetTop(g)
         \/ CallReturns
         \/ Return
         \/ Calling /\ \E g \in Frame : frames' = Append(frames, g)
         \/ frames = <<>>
         \/ UNCHANGED frames
<1>1. CASE Execute
  BY <1>1 DEF Execute
<1>2. CASE HostExecutes
  <2>1. PICK g : frames' = Append(frames, g)
    BY <1>2 DEF HostExecutes
  <2>2. Inv'
    BY <1>2, HostExecutesStep
  <2>3. Len(frames) \in Nat /\ frames \in Seq(Frame)
    BY LenProperties DEF Inv
  <2>4. Append(frames, g) \in Seq(Frame)
    BY <2>1, <2>2 DEF Inv
  <2>5. g \in Frame
    BY <2>3, <2>4
  <2>6. QED
    BY <1>2, <2>1, <2>5 DEF HostExecutes
<1>3. CASE HostAnswers
  BY <1>3 DEF HostAnswers
<1>4. CASE EEIStep
  BY <1>4, EEIWorksOnTop
<1>5. CASE CodeReturns \/ CodeTraps
  BY <1>5 DEF CodeReturns, CodeTraps
<1>6. CASE UNCHANGED vars
  BY <1>6 DEF vars
<1>7. QED
  BY <1>1, <1>2, <1>3, <1>4, <1>5, <1>6 DEF Next

\* A call leaves its caller with at most what it had, and the stipend.
THEOREM ResumeIsBounded == Spec => ResumeGas
<1>1. ASSUME Inv, [Next]_vars, NEW i \in Depths \cap DOMAIN frames',
             frames[i].phase = "call", frames'[i].phase # "call"
      PROVE  GasLeft(frames'[i]) <= frames[i].before + Stipend(frames[i].out)
  <2> DEFINE n == Len(frames)
  <2>1. i \in 1..n /\ n \in Nat /\ frames \in Seq(Frame) /\ frames # <<>>
    BY <1>1, DepthsAreLevels DEF Inv
  <2>2. Top = frames[n] /\ n \in 1..n
    BY <2>1 DEF Top
  <2>3. ASSUME NEW g, SetTop(g)
        PROVE  frames'[i] = IF i = n THEN g ELSE frames[i]
    BY <2>1, <2>2, <2>3 DEF SetTop
  <2>4. CASE Running /\ \E g : SetTop(g)
    BY <1>1, <2>2, <2>3, <2>4 DEF Running
  <2>5. CASE CallReturns
    BY <1>1, <2>2, <2>3, <2>5, CallReturnsFacts
  <2>6. CASE Return
    <3>1. frames' = SubSeq(frames, 1, n - 1)
      BY <2>6 DEF Return
    <3>2. \A k \in 1..n - 1 : frames[k] \in Frame
      BY <2>1, ElementOfSeq
    <3>3. 1 \in Int /\ n - 1 \in Int
      BY <2>1
    <3> HIDE DEF n
    <3>4. /\ Len(SubSeq(frames, 1, n - 1)) =
               IF 1 <= n - 1 THEN n - 1 - 1 + 1 ELSE 0
          /\ \A k \in 1 .. n - 1 - 1 + 1 :
               SubSeq(frames, 1, n - 1)[k] = frames[1 + k - 1]
          /\ SubSeq(frames, 1, n - 1) \in Seq(Frame)
      BY <3>2, <3>3, SubSeqProperties
    <3>5. i \in 1..n - 1
      BY <1>1, <2>1, <3>1, <3>4, LenProperties
    <3>6. frames'[i] = frames[i]
      BY <2>1, <3>1, <3>4, <3>5
    <3>7. QED
      BY <1>1, <3>6
  <2>7. CASE Calling /\ \E g \in Frame : frames' = Append(frames, g)
    <3>1. frames'[i] = frames[i]
      BY <2>1, <2>7, AppendProperties
    <3>2. QED
      BY <1>1, <3>1
  <2>8. CASE UNCHANGED frames
    BY <1>1, <2>8
  <2>9. QED
    BY <1>1, <2>1, <2>4, <2>5, <2>6, <2>7, <2>8, StackStep
<1>2. ASSUME Inv, [Next]_vars
      PROVE  [\A i \in Depths \cap DOMAIN frames' :
                frames[i].phase = "call" /\ frames'[i].phase # "call" =>
                  GasLeft(frames'[i]) <=
                    frames[i].before + Stipend(frames[i].out)]_vars
  BY <1>1, <1>2
<1>3. QED
  BY <1>2, Invariance, PTL DEF Spec, ResumeGas

\* Only storageStore, in a frame that is not static, changes storage.
LEMMA OnlyStoreWrites ==
  ASSUME Inv, [Next]_vars, storage' # storage
  PROVE  Running /\ ~Top.msg.static
<1>1. EEIStorageStore
  <2>1. ASSUME NEW f, NEW m, CallContract(f, m) PROVE UNCHANGED storage
    BY <2>1 DEF CallContract, world
  <2>2. ~(EEICall \/ EEICallCode \/ EEICallDelegate \/ EEICallStatic
           \/ EEICreate \/ EEICreate2)
    BY <2>1 DEF EEICall, EEICallCode, EEICallDelegate, EEICallStatic,
                EEICreate, EEICreate2, KeccakPrecompile, world
  <2>3. ~(CallReturns \/ (\E fn : Copying(fn) \/ Reading(fn))
           \/ EEIUseGas \/ EEILog
           \/ EEISelfDestruct \/ EEIFinish \/ EEIRevert \/ OutOfCost)
    BY DEF CallReturns, Copying, Reading, EEIUseGas, EEILog,
           EEISelfDestruct, EEIFinish, EEIRevert, OutOfCost, world
  <2>4. ~(Execute \/ HostExecutes \/ HostAnswers \/ CodeReturns \/ CodeTraps
           \/ Return \/ UNCHANGED vars)
    BY DEF Execute, HostExecutes, HostAnswers, CodeReturns, CodeTraps,
           Return, world, vars
  <2>5. QED
    BY <2>2, <2>3, <2>4
    DEF Next, EEIStep, EEICallDataCopy, EEICodeCopy, EEIExternalCodeCopy,
        EEIReturnDataCopy, EEIGet, EEIStorageLoad
<1>2. /\ Invoke("storageStore")
      /\ MayStore(Charged(Top, "storageStore"))
  BY <1>1 DEF EEIStorageStore
<1>3. QED
  BY <1>2, InvokeFacts DEF MayStore

\* No write below a static execution but through a CREATE2.
THEOREM StaticWritesNothing == Spec => NoWriteUnderStatic
<1>1. ASSUME Inv, [Next]_vars, storage' # storage,
             NEW i \in Depths, frames[i].msg.static
      PROVE  \E j \in Depths : j > i /\ frames[j].msg.kind = "CREATE2"
  <2> DEFINE n == Len(frames)
  <2>1. ~Top.msg.static /\ Top = frames[n]
    BY <1>1, OnlyStoreWrites DEF Top
  <2>2. i \in 1..n /\ n \in Nat /\ Depths = 1..n
    BY <1>1, DepthsAreLevels
  <2>3. i < n /\ n \in 1..n
    BY <1>1, <2>1, <2>2
  <2>4. StaticBelow(i, n)
    BY <1>1, <2>2, <2>3 DEF Inv
  <2>5. PICK j \in i + 1 .. n : frames[j].msg.kind = "CREATE2"
    BY <1>1, <2>1, <2>4 DEF StaticBelow
  <2>6. j \in 1..n /\ j > i
    BY <2>2, <2>5
  <2>7. QED
    BY <2>2, <2>5, <2>6
<1>2. ASSUME Inv, [Next]_vars
      PROVE  [storage' # storage =>
                \A i \in Depths : frames[i].msg.static =>
                  \E j \in Depths : j > i /\ frames[j].msg.kind = "CREATE2"]_vars
  BY <1>1, <1>2
<1>3. QED
  BY <1>2, Invariance, PTL DEF Spec, NoWriteUnderStatic

\* The stack gets shorter only when execute() returns.
LEMMA OnlyReturnPops ==
  ASSUME Inv, [Next]_vars, Len(frames') < Len(frames)
  PROVE  Return
<1>1. Len(frames) \in Nat /\ frames \in Seq(Frame) /\ frames' \in Seq(Frame)
  BY NextInv, LenProperties DEF Inv
<1>2. frames # <<>>
  BY <1>1, EmptySeq, LenProperties
<1>3. ASSUME NEW g, SetTop(g) PROVE FALSE
  <2>1. Len(frames') = Len(frames)
    BY <1>1, <1>3 DEF SetTop
  <2>2. QED
    BY <1>1, <2>1
<1>4. ASSUME NEW g \in Frame, frames' = Append(frames, g) PROVE FALSE
  BY <1>1, <1>4, AppendProperties
<1>5. ~UNCHANGED frames
  BY <1>1
<1>6. QED
  BY <1>2, <1>3, <1>4, <1>5, StackStep, CallReturnsFacts

\* What execute() reports about status and gas.
THEOREM ResultsAreTrue == Spec => ResultContract
<1>1. ASSUME Inv, [Next]_vars, Len(frames') < Len(frames)
      PROVE  /\ reply'.status = "REVERT" <=>
                  Top.isRevert /\ Top.phase = "finished" /\ Top.entry = "main"
             /\ reply'.status # "FAILURE" =>
                  Top.entry = "main" /\ Top.phase # "trap"
             /\ reply'.status = "FAILURE" => reply'.gasLeft = 0
             /\ reply'.gasLeft \in 0..Top.msg.gas
  <2>1. Return /\ OK(Top) /\ reply' = ResultOf(Top)
    BY <1>1, OnlyReturnPops, TopFacts DEF Return
  <2>2. /\ Top.isRevert => Top.phase = "finished"
        /\ Top.isRevert \in BOOLEAN /\ Top.entry \in {"start", "main"}
    BY <2>1 DEF OK, Frame
  <2>3. FinalStatus(Top) = "REVERT" <=>
          Top.isRevert /\ Top.phase = "finished" /\ Top.entry = "main"
    BY <2>2 DEF FinalStatus, RunStatus
  <2>4. FinalStatus(Top) # "FAILURE" =>
          Top.entry = "main" /\ Top.phase # "trap"
    BY <2>2 DEF FinalStatus, RunStatus
  <2>5. QED
    BY <2>1, <2>3, <2>4, ResultOfOK DEF ResultOf
<1>2. ASSUME Inv, [Next]_vars
      PROVE  [Len(frames') < Len(frames) =>
                /\ reply'.status = "REVERT" <=>
                     Top.isRevert /\ Top.phase = "finished" /\ Top.entry = "main"
                /\ reply'.status # "FAILURE" =>
                     Top.entry = "main" /\ Top.phase # "trap"
                /\ reply'.status = "FAILURE" => reply'.gasLeft = 0
                /\ reply'.gasLeft \in 0..Top.msg.gas]_vars
  BY <1>1, <1>2
<1>3. QED
  BY <1>2, Invariance, PTL DEF Spec, ResultContract

-----------------------------------------------------------------------------
(* What delegated calls carry (setEVMCMessage, getCallValueEVMC).          *)

\* An execution keeps the value it got, reversed, and a delegated call
\* carries it as it is kept.
ValueOK(f) ==
  /\ f.callValue = Reversed(f.msg.value)
  /\ f.phase = "call" /\ f.out.kind = "DELEGATECALL" =>
       f.out.value = f.callValue

Values == \A i \in 1..Len(frames) : ValueOK(frames[i])

\* What no function changes of a frame, and what it may send.
Carries(f, g) ==
  /\ g.msg = f.msg /\ g.callValue = f.callValue
  /\ g.phase = "call" /\ g.out.kind = "DELEGATECALL" =>
       g.out.value = f.callValue

\* A new top that carries what the old one did keeps the values.
LEMMA TopCarries ==
  ASSUME Inv, Values, frames # <<>>, NEW g, SetTop(g), Carries(Top, g)
  PROVE  Values'
<1> DEFINE n == Len(frames)
<1>1. n \in 1..n /\ n \in Nat /\ Top = frames[n] /\ frames \in Seq(Frame)
  BY TopFacts DEF Inv
<1>2. frames' = [frames EXCEPT ![n] = g] /\ Len(frames') = n
  BY <1>1 DEF SetTop
<1>3. \A i \in 1..n : frames'[i] = IF i = n THEN g ELSE frames[i]
  BY <1>1, <1>2, LenProperties
<1>4. ValueOK(g)
  BY <1>1 DEF Values, ValueOK, Carries
<1> QED
  BY <1>2, <1>3, <1>4 DEF Values

\* Charges, failures and ends carry what the frame did.
LEMMA WorkCarries ==
  ASSUME NEW f, RunOK(f)
  PROVE  /\ Carries(f, f) /\ Carries(f, Trap(f))
         /\ \A c \in Nat : /\ Carries(f, ConsumeGas(f, c))
                           /\ Carries(f, Trap(ConsumeGas(f, c)))
                           /\ ConsumeGas(f, c) \in Frame
<1>1. f \in Frame /\ f.phase = "run"
  BY DEF RunOK, OK
<1>2. Carries(f, f) /\ Carries(f, Trap(f))
  BY <1>1 DEF Carries, Trap, Frame
<1>3. ASSUME NEW c \in Nat
      PROVE  /\ Carries(f, ConsumeGas(f, c))
             /\ Carries(f, Trap(ConsumeGas(f, c)))
             /\ ConsumeGas(f, c) \in Frame
  <2> DEFINE g == ConsumeGas(f, c)
  <2>1. RunOK(g) /\ g.msg = f.msg
    BY <1>3, ConsumeGasOK
  <2>2. g \in Frame /\ g.phase = "run"
    BY <2>1 DEF RunOK, OK
  <2>3. g.callValue = f.callValue
    BY <1>1 DEF ConsumeGas, Frame
  <2>4. /\ Trap(g).msg = g.msg /\ Trap(g).callValue = g.callValue
        /\ Trap(g).phase = "trap"
    BY <2>2 DEF Trap, Frame
  <2> QED
    BY <2>1, <2>2, <2>3, <2>4 DEF Carries
<1> QED
  BY <1>2, <1>3

\* So does the engine's charge.
LEMMA ChargeCarries ==
  ASSUME Inv, NEW fn, Invoke(fn)
  PROVE  LET f == Charged(Top, fn) IN
         /\ frames # <<>> /\ RunOK(f) /\ Carries(Top, f)
         /\ \A g : Carries(f, g) => Carries(Top, g)
<1> DEFINE f == Charged(Top, fn)
<1>1. frames # <<>> /\ RunOK(f) /\ f.msg = Top.msg /\ RunOK(Top)
  BY InvokeFacts, RunningFacts
<1>2. f.callValue = Top.callValue /\ f.phase = "run"
  BY <1>1 DEF RunOK, OK, Frame, Charged
<1> QED
  BY <1>1, <1>2 DEF Carries

\* callContract sends the message it is given.
LEMMA CallCarries ==
  ASSUME NEW f, RunOK(f), NEW m \in Message, CallContract(f, m),
         m.kind = "DELEGATECALL" => m.value = f.callValue
  PROVE  \E g : SetTop(g) /\ Carries(f, g)
<1>1. ASSUME NEW cost \in TransferCosts(m),
             \/ SetTop(Trap(ConsumeGas(f, cost)))
             \/ SetTop(ConsumeGas(f, cost))
             \/ SetTop(Send(ConsumeGas(f, cost), m, GasLeft(f)))
      PROVE  \E g : SetTop(g) /\ Carries(f, g)
  <2> DEFINE g == ConsumeGas(f, cost)
             h == ConsumeGas(g, m.gas)
             out == [m EXCEPT !.gas = @ + Stipend(m)]
             s == Send(g, m, GasLeft(f))
  <2>1. cost \in Nat /\ m.gas \in Nat
    BY DEF TransferCosts, TransferGas, NewAccountGas, Message
  <2>2. /\ RunOK(g) /\ Carries(f, g) /\ Carries(f, Trap(g))
        /\ h \in Frame /\ Carries(g, h)
    BY <2>1, WorkCarries, ConsumeGasOK
  <2>3. out.kind = m.kind /\ out.value = m.value
    BY DEF Message
  <2>4. /\ s.msg = h.msg /\ s.callValue = h.callValue /\ s.out = out
    BY <2>2 DEF Send, Frame
  <2>5. Carries(f, s)
    BY <2>2, <2>3, <2>4 DEF Carries
  <2> QED
    BY <1>1, <2>2, <2>5
<1>2. CASE SetTop(f) \/ SetTop(Trap(f))
  BY <1>2, WorkCarries
<1> QED
  BY <1>1, <1>2 DEF CallContract

\* The call functions: only callDelegate sends a delegated call.
LEMMA SendersCarry ==
  ASSUME Inv,
         \/ EEICall \/ EEICallCode \/ EEICallDelegate \/ EEICallStatic
         \/ EEICreate \/ EEICreate2
  PROVE  frames # <<>> /\ \E g : SetTop(g) /\ Carries(Top, g)
<1>1. ASSUME NEW fn, Invoke(fn), NEW m, m \in Message,
             CallContract(Charged(Top, fn), m),
             m.kind = "DELEGATECALL" => m.value = Charged(Top, fn).callValue
      PROVE  frames # <<>> /\ \E g : SetTop(g) /\ Carries(Top, g)
  <2>1. \E g : SetTop(g) /\ Carries(Charged(Top, fn), g)
    BY <1>1, ChargeCarries, CallCarries
  <2> QED
    BY <1>1, <2>1, ChargeCarries
<1>2. ASSUME NEW f, NEW m, Sendable(f, m)
      PROVE  m \in Message
  BY <1>2 DEF Sendable
<1>3. \A fn : Invoke(fn) => /\ RunOK(Charged(Top, fn))
                            /\ Charged(Top, fn).msg.static \in BOOLEAN
                            /\ Charged(Top, fn).callValue \in Word
  BY InvokeFacts DEF RunOK, OK, Frame, Message
<1>4. {"CALL", "CALLCODE", "DELEGATECALL"} \subseteq Kind
  BY DEF Kind
<1>5. CASE EEICall
  <2> DEFINE f == Charged(Top, "call")
  <2>1. PICK gas \in CallGas, dest \in Address, value \in LoadedUInt128 :
          /\ Invoke("call")
          /\ CallContract(f, CallMessage(f, "CALL", f.msg.static, gas, dest,
                                         value))
    BY <1>5 DEF EEICall
  <2>2. value \in Word
    BY MessageValues
  <2> DEFINE m == CallMessage(f, "CALL", f.msg.static, gas, dest, value)
  <2>3. m \in Message /\ m.kind = "CALL"
    <3>1. RunOK(f) /\ gas \in Nat /\ f.msg.static \in BOOLEAN
      BY <1>3, <2>1, ArgumentsAssumption
    <3>2. Sendable(f, m)
      BY <1>4, <2>2, <3>1, CallMessageOK
    <3> QED
      BY <1>2, <3>2 DEF CallMessage
  <2> HIDE DEF m
  <2>4. CallContract(f, m)
    BY <2>1 DEF m
  <2> QED
    BY <1>1, <2>1, <2>3, <2>4
<1>6. CASE EEICallCode
  <2> DEFINE f == Charged(Top, "callCode")
  <2>1. PICK gas \in CallGas, dest \in Address, value \in LoadedUInt128 :
          /\ Invoke("callCode")
          /\ CallContract(f, CallMessage(f, "CALLCODE", f.msg.static, gas,
                                         dest, value))
    BY <1>6 DEF EEICallCode
  <2>2. value \in Word
    BY MessageValues
  <2> DEFINE m == CallMessage(f, "CALLCODE", f.msg.static, gas, dest, value)
  <2>3. m \in Message /\ m.kind = "CALLCODE"
    <3>1. RunOK(f) /\ gas \in Nat /\ f.msg.static \in BOOLEAN
      BY <1>3, <2>1, ArgumentsAssumption
    <3>2. Sendable(f, m)
      BY <1>4, <2>2, <3>1, CallMessageOK
    <3> QED
      BY <1>2, <3>2 DEF CallMessage
  <2> HIDE DEF m
  <2>4. CallContract(f, m)
    BY <2>1 DEF m
  <2> QED
    BY <1>1, <2>1, <2>3, <2>4
<1>7. CASE EEICallDelegate
  <2> DEFINE f == Charged(Top, "callDelegate")
  <2>1. PICK gas \in CallGas, dest \in Address :
          /\ Invoke("callDelegate")
          /\ CallContract(f, CallMessage(f, "DELEGATECALL", f.msg.static, gas,
                                         dest, f.callValue))
    BY <1>7 DEF EEICallDelegate, CallValueEVMC
  <2> DEFINE m == CallMessage(f, "DELEGATECALL", f.msg.static, gas, dest,
                             f.callValue)
  <2>3. m \in Message /\ m.kind = "DELEGATECALL" /\ m.value = f.callValue
    <3>1. /\ RunOK(f) /\ gas \in Nat /\ f.msg.static \in BOOLEAN
          /\ f.callValue \in Word
      BY <1>3, <2>1, ArgumentsAssumption
    <3>2. Sendable(f, m)
      BY <1>4, <3>1, CallMessageOK
    <3> QED
      BY <1>2, <3>2 DEF CallMessage
  <2> HIDE DEF m
  <2>4. CallContract(f, m)
    BY <2>1 DEF m
  <2> QED
    BY <1>1, <2>1, <2>3, <2>4
<1>8. CASE EEICallStatic
  <2> DEFINE f == Charged(Top, "callStatic")
  <2>1. Invoke("callStatic")
    BY <1>8 DEF EEICallStatic
  <2>2. CASE KeccakPrecompile(f)
    <3>1. PICK n \in CopyLengths :
            \/ SetTop(Trap(ConsumeGas(f, CopyCost(n))))
            \/ SetTop([ConsumeGas(f, CopyCost(n)) EXCEPT !.returnData = Digest])
      BY <2>2 DEF KeccakPrecompile
    <3> DEFINE g == ConsumeGas(f, CopyCost(n))
               h == [g EXCEPT !.returnData = Digest]
    <3>2. CopyCost(n) \in Nat
      BY ArgumentsAssumption DEF CopyCost
    <3>3. g \in Frame /\ Carries(f, g) /\ Carries(f, Trap(g))
      BY <1>3, <2>1, <3>2, WorkCarries
    <3>4. Carries(f, h)
      BY <3>3 DEF Carries, Frame
    <3> QED
      BY <2>1, <3>1, <3>3, <3>4, ChargeCarries
  <2>3. CASE ~KeccakPrecompile(f)
    <3>1. PICK gas \in CallGas, dest \in Address :
            CallContract(f, CallMessage(f, "CALL", TRUE, gas, dest, ZeroWord))
      BY <1>8, <2>3 DEF EEICallStatic
    <3> DEFINE m == CallMessage(f, "CALL", TRUE, gas, dest, ZeroWord)
    <3>2. m \in Message /\ m.kind = "CALL"
      <4>1. RunOK(f) /\ gas \in Nat /\ ZeroWord \in Word
        BY <1>3, <2>1, ArgumentsAssumption, MessageValues
      <4>2. Sendable(f, m)
        BY <1>4, <4>1, CallMessageOK
      <4> QED
        BY <1>2, <4>2 DEF CallMessage
    <3> HIDE DEF m
    <3>3. CallContract(f, m)
      BY <3>1 DEF m
    <3> QED
      BY <1>1, <2>1, <3>2, <3>3
  <2> QED
    BY <2>2, <2>3
<1>9. ASSUME NEW fn, Invoke(fn), NEW kind \in {"CREATE", "CREATE2"},
             NEW value \in LoadedUInt128,
             CallContract(Charged(Top, fn),
                          CreateMessage(Charged(Top, fn), kind, value))
      PROVE  frames # <<>> /\ \E g : SetTop(g) /\ Carries(Top, g)
  <2>1. Sendable(Charged(Top, fn), CreateMessage(Charged(Top, fn), kind, value))
    BY <1>3, <1>9, CreateMessageOK, MessageValues
  <2>2. CreateMessage(Charged(Top, fn), kind, value).kind = kind
    BY DEF CreateMessage, CallMessage
  <2> QED
    BY <1>1, <1>9, <2>1, <2>2 DEF Sendable
<1> QED
  BY <1>5, <1>6, <1>7, <1>8, <1>9 DEF EEICreate, EEICreate2

\* The functions that send nothing.
LEMMA OthersCarry ==
  ASSUME Inv,
         \/ \E fn : Copying(fn) \/ Reading(fn)
         \/ EEIUseGas \/ EEILog \/ EEIStorageStore \/ EEISelfDestruct
         \/ EEIFinish \/ EEIRevert
  PROVE  frames # <<>> /\ \E g : SetTop(g) /\ Carries(Top, g)
<1>1. ASSUME NEW fn, Invoke(fn), NEW c \in Nat,
             LET f == Charged(Top, fn)
                 g == ConsumeGas(f, c)
             IN \/ SetTop(f) \/ SetTop(Trap(f)) \/ SetTop(g) \/ SetTop(Trap(g))
                \/ SetTop([g EXCEPT !.phase = "stopped"])
      PROVE  frames # <<>> /\ \E g : SetTop(g) /\ Carries(Top, g)
  <2> DEFINE f == Charged(Top, fn)
             g == ConsumeGas(f, c)
             h == [g EXCEPT !.phase = "stopped"]
  <2>1. RunOK(f) /\ frames # <<>> /\ \A k : Carries(f, k) => Carries(Top, k)
    BY <1>1, ChargeCarries
  <2>2. /\ Carries(f, f) /\ Carries(f, Trap(f))
        /\ Carries(f, g) /\ Carries(f, Trap(g)) /\ g \in Frame
    BY <2>1, WorkCarries
  <2>3. Carries(f, h)
    BY <2>2 DEF Carries, Frame
  <2> QED
    BY <1>1, <2>1, <2>2, <2>3
<1>2. ASSUME NEW fn, Copying(fn)
      PROVE  frames # <<>> /\ \E g : SetTop(g) /\ Carries(Top, g)
  <2>1. PICK n \in CopyLengths :
          Invoke(fn) /\ Consume(Charged(Top, fn), CopyCost(n))
    BY <1>2 DEF Copying
  <2>2. CopyCost(n) \in Nat
    BY ArgumentsAssumption DEF CopyCost
  <2> QED
    BY <1>1, <2>1, <2>2 DEF Consume
<1>3. ASSUME NEW fn, Reading(fn)
      PROVE  frames # <<>> /\ \E g : SetTop(g) /\ Carries(Top, g)
  <2>1. 0 \in Nat
    OBVIOUS
  <2> QED
    BY <1>1, <1>3, <2>1 DEF Reading
<1>4. CASE EEIUseGas
  <2>1. PICK gas \in UseGasAmounts :
          LET g == ConsumeGas(Charged(Top, "useGas"), gas) IN
          Invoke("useGas") /\ (SetTop(g) \/ SetTop(Trap(g)))
    BY <1>4 DEF EEIUseGas
  <2> QED
    BY <1>1, <2>1, ArgumentsAssumption
<1>5. CASE EEILog
  <2>1. PICK topics \in LogTopics, n \in LogLengths :
          LET f == Charged(Top, "log")
              g == ConsumeGas(f, LogCost(topics, n))
          IN Invoke("log") /\ (SetTop(Trap(f)) \/ SetTop(Trap(g)) \/ SetTop(g))
    BY <1>5 DEF EEILog
  <2>2. LogCost(topics, n) \in Nat
    BY ArgumentsAssumption DEF LogCost
  <2> QED
    BY <1>1, <2>1, <2>2
<1>6. CASE EEIStorageStore
  <2> DEFINE f == Charged(Top, "storageStore")
  <2>1. PICK nonzero \in BOOLEAN :
          LET g == ConsumeGas(f, StoreCost(f.msg.dest, nonzero))
          IN /\ Invoke("storageStore")
             /\ SetTop(Trap(f)) \/ SetTop(Trap(g)) \/ SetTop(g)
    BY <1>6 DEF EEIStorageStore
  <2>2. StoreCost(f.msg.dest, nonzero) \in Nat
    BY DEF StoreCost, CreateSlotGas
  <2> QED
    BY <1>1, <2>1, <2>2
<1>7. CASE EEISelfDestruct
  <2>1. PICK cost \in {0, NewAccountGas} :
          LET f == Charged(Top, "selfDestruct")
              g == ConsumeGas(f, cost)
          IN /\ Invoke("selfDestruct")
             /\ \/ SetTop(Trap(f)) \/ SetTop(Trap(g))
                \/ SetTop([g EXCEPT !.phase = "stopped"])
    BY <1>7 DEF EEISelfDestruct
  <2>2. cost \in Nat
    BY DEF NewAccountGas
  <2> QED
    BY <1>1, <2>1, <2>2
<1>8. ASSUME NEW fn, Invoke(fn), NEW data \in Bytes,
             LET f == Charged(Top, fn) IN
             \/ SetTop(Trap([f EXCEPT !.returnData = Empty]))
             \/ SetTop([f EXCEPT !.returnData = data, !.phase = "finished"])
             \/ SetTop([f EXCEPT !.returnData = data, !.phase = "finished",
                                 !.isRevert = TRUE])
      PROVE  frames # <<>> /\ \E g : SetTop(g) /\ Carries(Top, g)
  <2> DEFINE f == Charged(Top, fn)
             e == [f EXCEPT !.returnData = Empty]
             d == [f EXCEPT !.returnData = data, !.phase = "finished"]
             r == [f EXCEPT !.returnData = data, !.phase = "finished",
                            !.isRevert = TRUE]
  <2>1. /\ RunOK(f) /\ f \in Frame /\ frames # <<>>
        /\ \A k : Carries(f, k) => Carries(Top, k)
    BY <1>8, ChargeCarries DEF RunOK, OK
  <2>2. Carries(f, d) /\ Carries(f, r)
    BY <2>1 DEF Carries, Frame
  <2>3. /\ Trap(e).msg = f.msg /\ Trap(e).callValue = f.callValue
        /\ Trap(e).phase = "trap"
    BY <2>1 DEF Trap, Frame
  <2>4. Carries(f, Trap(e))
    BY <2>3 DEF Carries
  <2> QED
    BY <1>8, <2>1, <2>2, <2>4
<1>9. CASE EEIFinish
  <2>1. PICK data \in Bytes :
          LET f == Charged(Top, "finish") IN
          /\ Invoke("finish")
          /\ \/ SetTop(Trap([f EXCEPT !.returnData = Empty]))
             \/ SetTop([f EXCEPT !.returnData = data, !.phase = "finished"])
    BY <1>9, BytesAssumption DEF EEIFinish
  <2> QED
    BY <1>8, <2>1
<1>10. CASE EEIRevert
  <2>1. PICK data \in Bytes :
          LET f == Charged(Top, "revert") IN
          /\ Invoke("revert")
          /\ \/ SetTop(Trap([f EXCEPT !.returnData = Empty]))
             \/ SetTop([f EXCEPT !.returnData = data, !.phase = "finished",
                                 !.isRevert = TRUE])
    BY <1>10, BytesAssumption DEF EEIRevert
  <2> QED
    BY <1>8, <2>1
<1> QED
  BY <1>2, <1>3, <1>4, <1>5, <1>6, <1>7, <1>9, <1>10

\* The engine, and the second half of callContract.
LEMMA RestCarries ==
  ASSUME Inv, CallReturns \/ OutOfCost \/ CodeReturns \/ CodeTraps
  PROVE  frames # <<>> /\ \E g : SetTop(g) /\ Carries(Top, g)
<1>1. frames # <<>>
  BY DEF CallReturns, OutOfCost, CodeReturns, CodeTraps, Running
<1>2. Top \in Frame
  BY <1>1, TopFacts
<1>3. \A g \in Frame : /\ Trap(g).msg = g.msg
                       /\ Trap(g).callValue = g.callValue
                       /\ Trap(g).phase = "trap"
  BY DEF Trap, Frame
<1>4. CASE CallReturns
  <2> DEFINE h == ReturnGas(Top, reply.gasLeft)
  <2>1. /\ Trap(h).msg = Top.msg /\ Trap(h).callValue = Top.callValue
        /\ Trap(h).phase = "trap"
    BY <1>2 DEF ReturnGas, Trap, Frame
  <2>2. ASSUME NEW data
        PROVE  /\ Resume(h, data).msg = Top.msg
               /\ Resume(h, data).callValue = Top.callValue
               /\ Resume(h, data).phase = "run"
    BY <1>2 DEF ReturnGas, Resume, Frame
  <2>3. \/ SetTop(Trap(Top)) \/ SetTop(Trap(h))
        \/ \E data : SetTop(Resume(h, data))
    BY <1>4 DEF CallReturns
  <2> QED
    BY <1>1, <1>2, <1>3, <2>1, <2>2, <2>3 DEF Carries
<1>5. CASE OutOfCost
  <2> DEFINE f == [Top EXCEPT !.cost = Top.msg.gas]
  <2>1. /\ Trap(f).msg = Top.msg /\ Trap(f).callValue = Top.callValue
        /\ Trap(f).phase = "trap"
    BY <1>2 DEF Trap, Frame
  <2> QED
    BY <1>1, <1>5, <2>1 DEF OutOfCost, Carries
<1>6. CASE CodeReturns \/ CodeTraps
  <2>1. /\ [Top EXCEPT !.phase = "stopped"].msg = Top.msg
        /\ [Top EXCEPT !.phase = "stopped"].callValue = Top.callValue
        /\ [Top EXCEPT !.phase = "stopped"].phase = "stopped"
    BY <1>2 DEF Frame
  <2> QED
    BY <1>1, <1>2, <1>3, <1>6, <2>1 DEF CodeReturns, CodeTraps, Carries
<1> QED
  BY <1>4, <1>5, <1>6

\* A new execution keeps its value reversed and waits for nothing.
LEMMA LoadedValue ==
  ASSUME NEW m, NEW code
  PROVE  ValueOK(Loaded(m, code))
BY DEF ValueOK, Loaded, SetEVMCMessage

\* Every step keeps the values.
LEMMA ValuesStep ==
  ASSUME Inv, Values, [Next]_vars
  PROVE  Values'
<1>1. CASE Execute
  <2>1. PICK m, code : frames' = <<Loaded(m, code)>>
    BY <1>1 DEF Execute
  <2> QED
    BY <2>1, LoadedValue DEF Values
<1>2. CASE HostExecutes
  <2>1. PICK m, code : frames' = Append(frames, Loaded(m, code))
    BY <1>2 DEF HostExecutes
  <2>2. frames \in Seq(Frame) /\ Len(frames) \in Nat /\ frames' \in Seq(Frame)
    BY <1>2, HostExecutesStep, LenProperties DEF Inv
  <2>3. Len(frames') = Len(frames) + 1
    BY <2>1, <2>2
  <2>4. \A i \in 1..Len(frames) + 1 :
          frames'[i] = IF i = Len(frames) + 1 THEN Loaded(m, code)
                       ELSE frames[i]
    BY <2>1, <2>2
  <2>5. \A i \in 1..Len(frames) + 1 : i # Len(frames) + 1 => i \in 1..Len(frames)
    BY <2>2
  <2> QED
    BY <2>3, <2>4, <2>5, LoadedValue DEF Values
<1>3. CASE EEIStep \/ CodeReturns \/ CodeTraps
  <2>1. frames # <<>> /\ \E g : SetTop(g) /\ Carries(Top, g)
    BY <1>3, SendersCarry, OthersCarry, RestCarries
    DEF EEIStep, EEICallDataCopy, EEICodeCopy, EEIExternalCodeCopy,
        EEIReturnDataCopy, EEIGet, EEIStorageLoad
  <2> QED
    BY <2>1, TopCarries
<1>4. CASE Return
  <2>1. frames \in Seq(Frame) /\ Len(frames) \in Nat \ {0}
    BY <1>4, TopFacts DEF Return, Inv
  <2>2. PICK n \in Nat \ {0} : n = Len(frames)
    BY <2>1
  <2>3. \A i \in 1..n - 1 : frames[i] \in Frame
    BY <2>1, <2>2, ElementOfSeq
  <2>4. /\ frames' = SubSeq(frames, 1, n - 1) /\ 1 \in Int /\ n - 1 \in Int
    BY <1>4, <2>2 DEF Return
  <2>5. /\ Len(frames') = IF 1 <= n - 1 THEN n - 1 - 1 + 1 ELSE 0
        /\ \A i \in 1 .. n - 1 - 1 + 1 : frames'[i] = frames[1 + i - 1]
    BY <2>3, <2>4, SubSeqProperties
  <2>6. /\ Len(frames') = n - 1
        /\ \A i \in 1..n - 1 : frames'[i] = frames[i] /\ i \in 1..n
    BY <2>5
  <2> QED
    BY <2>2, <2>6 DEF Values
<1>5. CASE HostAnswers \/ UNCHANGED vars
  BY <1>5 DEF HostAnswers, vars, Values
<1> QED
  BY <1>1, <1>2, <1>3, <1>4, <1>5 DEF Next

\* A delegated call carries its caller's value with the bytes reversed, in
\* every instance. So the header's promise of the caller's value (a violation
\* is found for DelegateValueKept) is kept exactly by the values that read
\* the same from both ends.
THEOREM DelegatesCarryReversed ==
  Spec => [](LET waiting == {i \in Depths : /\ frames[i].phase = "call"
                                            /\ frames[i].out.kind = "DELEGATECALL"}
             IN /\ \A i \in waiting :
                     frames[i].out.value = Reversed(frames[i].msg.value)
                /\ DelegateValueKept <=>
                     \A i \in waiting :
                       Reversed(frames[i].msg.value) = frames[i].msg.value)
<1> DEFINE waiting == {i \in Depths : /\ frames[i].phase = "call"
                                      /\ frames[i].out.kind = "DELEGATECALL"}
<1>1. Init => Values
  BY DEF Init, Values
<1>2. Inv /\ Values /\ [Next]_vars => Values'
  BY ValuesStep
<1>3. Spec => [](Inv /\ Values)
  BY <1>1, <1>2, Invariance, PTL DEF Spec
<1>4. ASSUME Inv, Values
      PROVE  /\ \A i \in waiting :
                  frames[i].out.value = Reversed(frames[i].msg.value)
             /\ DelegateValueKept <=>
                  \A i \in waiting :
                    Reversed(frames[i].msg.value) = frames[i].msg.value
  <2>1. \A i \in waiting :
          frames[i].out.value = Reversed(frames[i].msg.value)
    BY <1>4, DepthsAreLevels DEF Values, ValueOK
  <2> QED
    BY <2>1 DEF DelegateValueKept
<1> QED
  BY <1>3, <1>4, PTL
=============================================================================
