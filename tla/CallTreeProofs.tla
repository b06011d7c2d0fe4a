--------------------------- MODULE CallTreeProofs ---------------------------
(***************************************************************************)
(* Every step of EwasmVM is a step of CallTree, for every instance: the    *)
(* refinement that CallsFormTree states.                                   *)
(***************************************************************************)
EXTENDS EwasmVMProofs

USE AddressAssumption, WordAssumption, BytesAssumption

-----------------------------------------------------------------------------
(* What a function does to the frame it runs in.                           *)

\* The frame works on, or ends.
Worked(f, g) ==
  /\ g.msg = f.msg /\ g.phase # "call"
  /\ GasLeft(g) <= GasLeft(f)

\* The frame sends a message.
Sent(f, g) ==
  /\ g.msg = f.msg /\ g.phase = "call"
  /\ g.before = GasLeft(f)

\* The engine's charge is none of the environment's.
LEMMA ChargedKeeps ==
  ASSUME Inv, NEW fn, Invoke(fn)
  PROVE  LET f == Charged(Top, fn) IN
         /\ Running /\ RunOK(f) /\ f.msg = Top.msg
         /\ GasLeft(f) = GasLeft(Top) /\ Worked(f, f)
<1>1. Running /\ fn \in EEIFunctions /\ RunOK(Top) /\ Affordable(Top, fn)
  BY RunningFacts, ImportsAssumption DEF Invoke
<1>2. RunOK(Charged(Top, fn)) /\ Charged(Top, fn).msg = Top.msg
  BY <1>1, ChargedOK
<1>3. Charged(Top, fn).used = Top.used
  BY <1>1 DEF Charged, RunOK, OK, Frame
<1>4. GasLeft(Charged(Top, fn)) \in Int
  BY <1>2 DEF RunOK, OK, Frame, Message, GasLeft
<1>5. QED
  BY <1>1, <1>2, <1>3, <1>4 DEF GasLeft, Worked, RunOK

\* A charge of the EEI's own is spent.
LEMMA ConsumeWorks ==
  ASSUME NEW f, RunOK(f), NEW cost \in Nat
  PROVE  RunOK(ConsumeGas(f, cost)) /\ Worked(f, ConsumeGas(f, cost))
<1>1. GasLeft(f) \in Nat
  BY DEF RunOK, OK, Frame, Message, GasLeft
<1>2. QED
  BY <1>1, ConsumeGasOK DEF Worked, RunOK

\* A frame that fails spends nothing more.
LEMMA TrapWorks ==
  ASSUME NEW f, NEW g, g \in Frame, Worked(f, g)
  PROVE  Worked(f, Trap(g))
<1>1. Trap(g).msg = g.msg /\ Trap(g).used = g.used /\ Trap(g).phase = "trap"
  BY DEF Trap, Frame
<1>2. QED
  BY <1>1 DEF Worked, GasLeft

\* A frame whose meter and message stay, and that does not wait.
LEMMA SameMeterWorks ==
  ASSUME NEW f, NEW g, NEW h, Worked(f, g),
         h.msg = g.msg, h.used = g.used, h.phase # "call"
  PROVE  Worked(f, h)
BY DEF Worked, GasLeft

\* callContract up to Host.call: the frame goes on, fails or sends.
LEMMA CallContractSends ==
  ASSUME NEW f, RunOK(f), NEW m, CallContract(f, m)
  PROVE  /\ UNCHANGED <<reply, world>>
         /\ \E g : SetTop(g) /\ (Worked(f, g) \/ Sent(f, g))
<1>1. f \in Frame /\ Worked(f, f) /\ Worked(f, Trap(f))
  <2>1. f \in Frame /\ GasLeft(f) \in Int /\ f.phase = "run"
    BY DEF RunOK, OK, Frame, Message, GasLeft
  <2>2. Worked(f, f)
    BY <2>1 DEF Worked
  <2>3. QED
    BY <2>1, <2>2, TrapWorks
<1>2. ASSUME NEW cost \in TransferCosts(m)
      PROVE  LET g == ConsumeGas(f, cost) IN
             /\ Worked(f, g) /\ Worked(f, Trap(g))
             /\ Sent(f, Send(g, m, GasLeft(f)))
  <2> DEFINE g == ConsumeGas(f, cost)
             h == ConsumeGas(g, m.gas)
             s == Send(g, m, GasLeft(f))
  <2>1. cost \in Nat
    BY DEF TransferCosts, TransferGas, NewAccountGas
  <2>2. RunOK(g) /\ g \in Frame /\ Worked(f, g)
    BY <2>1, ConsumeWorks DEF RunOK, OK
  <2>3. Worked(f, Trap(g))
    BY <2>2, TrapWorks
  <2>4. s.msg = g.msg /\ s.phase = "call" /\ s.before = GasLeft(f)
    BY <2>2 DEF Send, ConsumeGas, Frame
  <2>5. Sent(f, s)
    BY <2>2, <2>4 DEF Sent, Worked
  <2>6. QED
    BY <2>2, <2>3, <2>5
<1>3. UNCHANGED <<reply, world>>
  BY DEF CallContract
<1>4. \/ SetTop(f) \/ SetTop(Trap(f))
      \/ \E cost \in TransferCosts(m) :
           \/ SetTop(ConsumeGas(f, cost))
           \/ SetTop(Trap(ConsumeGas(f, cost)))
           \/ SetTop(Send(ConsumeGas(f, cost), m, GasLeft(f)))
  BY DEF CallContract
<1>5. QED
  BY <1>1, <1>2, <1>3, <1>4

\* The functions that send a message.
LEMMA SendersAct ==
  ASSUME Inv,
         \/ EEICall \/ EEICallCode \/ EEICallDelegate \/ EEICallStatic
         \/ EEICreate \/ EEICreate2
  PROVE  /\ Running /\ UNCHANGED <<reply, storage>>
         /\ \E g : SetTop(g) /\ (Worked(Top, g) \/ Sent(Top, g))
<1>1. ASSUME NEW fn, Invoke(fn), NEW m, CallContract(Charged(Top, fn), m)
      PROVE  /\ Running /\ UNCHANGED <<reply, storage>>
             /\ \E g : SetTop(g) /\ (Worked(Top, g) \/ Sent(Top, g))
  <2>1. /\ Running /\ RunOK(Charged(Top, fn))
        /\ Charged(Top, fn).msg = Top.msg
        /\ GasLeft(Charged(Top, fn)) = GasLeft(Top)
    BY <1>1, ChargedKeeps
  <2>2. /\ UNCHANGED <<reply, world>>
        /\ \E g : SetTop(g) /\ (Worked(Charged(Top, fn), g)
                                \/ Sent(Charged(Top, fn), g))
    BY <1>1, <2>1, CallContractSends
  <2>3. QED
    BY <2>1, <2>2 DEF Worked, Sent, world
<1>2. ASSUME Invoke("callStatic"),
             KeccakPrecompile(Charged(Top, "callStatic"))
      PROVE  /\ Running /\ UNCHANGED <<reply, storage>>
             /\ \E g : SetTop(g) /\ Worked(Top, g)
  <2> DEFINE f == Charged(Top, "callStatic")
  <2>1. Running /\ RunOK(f) /\ f.msg = Top.msg /\ GasLeft(f) = GasLeft(Top)
    BY <1>2, ChargedKeeps
  <2>2. PICK n \in CopyLengths :
          /\ UNCHANGED <<reply, world>>
          /\ \/ SetTop(Trap(ConsumeGas(f, CopyCost(n))))
             \/ SetTop([ConsumeGas(f, CopyCost(n))
                          EXCEPT !.returnData = Digest])
    BY <1>2 DEF KeccakPrecompile
  <2> DEFINE g == ConsumeGas(f, CopyCost(n))
             h == [g EXCEPT !.returnData = Digest]
  <2>3. CopyCost(n) \in Nat
    BY ArgumentsAssumption DEF CopyCost
  <2> HIDE DEF f
  <2>4. RunOK(g) /\ g \in Frame /\ Worked(f, g)
    BY <2>1, <2>3, ConsumeWorks DEF RunOK, OK
  <2>5. h.msg = g.msg /\ h.used = g.used /\ h.phase # "call"
    BY <2>4 DEF RunOK, Frame
  <2>6. Worked(f, Trap(g)) /\ Worked(f, h)
    BY <2>4, <2>5, TrapWorks, SameMeterWorks
  <2>7. Worked(Top, Trap(g)) /\ Worked(Top, h)
    BY <2>1, <2>6 DEF Worked
  <2>8. QED
    BY <2>1, <2>2, <2>7 DEF world
<1>3. QED
  BY <1>1, <1>2
  DEF EEICall, EEICallCode, EEICallDelegate, EEICallStatic, EEICreate,
      EEICreate2

\* A charge of the EEI's own, then success or failure.
LEMMA ChargesWork ==
  ASSUME Inv, NEW fn, Invoke(fn), NEW cost \in Nat
  PROVE  LET f == Charged(Top, fn)
             g == ConsumeGas(f, cost)
         IN /\ Running
            /\ Worked(Top, f) /\ Worked(Top, Trap(f))
            /\ RunOK(g) /\ Worked(Top, g) /\ Worked(Top, Trap(g))
<1> DEFINE f == Charged(Top, fn)
           g == ConsumeGas(f, cost)
<1>1. /\ Running /\ RunOK(f) /\ f \in Frame
      /\ f.msg = Top.msg /\ GasLeft(f) = GasLeft(Top) /\ Worked(f, f)
  BY ChargedKeeps DEF RunOK, OK
<1> HIDE DEF f
<1>2. RunOK(g) /\ g \in Frame /\ Worked(f, g)
  BY <1>1, ConsumeWorks DEF RunOK, OK
<1>3. Worked(f, Trap(f)) /\ Worked(f, Trap(g))
  BY <1>1, <1>2, TrapWorks
<1>4. Worked(Top, f) /\ Worked(Top, Trap(f)) /\ Worked(Top, g) /\ Worked(Top, Trap(g))
  BY <1>1, <1>2, <1>3 DEF Worked
<1>5. QED
  BY <1>1, <1>2, <1>4 DEF f

\* The other functions, and the ends of the contract's code.
LEMMA OthersWork ==
  ASSUME Inv,
         \/ \E fn : Copying(fn) \/ Reading(fn)
         \/ EEIUseGas \/ EEILog \/ EEIStorageStore \/ EEISelfDestruct
         \/ EEIFinish \/ EEIRevert \/ OutOfCost \/ CodeReturns \/ CodeTraps
  PROVE  /\ Running /\ UNCHANGED reply
         /\ \E g : SetTop(g) /\ Worked(Top, g)
<1> DEFINE Goal == /\ Running /\ UNCHANGED reply
                   /\ \E g : SetTop(g) /\ Worked(Top, g)
<1>1. ASSUME NEW fn, Copying(fn) PROVE Goal
  <2>1. PICK n \in CopyLengths :
          Invoke(fn) /\ Consume(Charged(Top, fn), CopyCost(n))
          /\ UNCHANGED reply
    BY <1>1 DEF Copying
  <2>2. CopyCost(n) \in Nat
    BY ArgumentsAssumption DEF CopyCost
  <2>3. QED
    BY <2>1, <2>2, ChargesWork DEF Consume
<1>2. ASSUME NEW fn, Reading(fn) PROVE Goal
  BY <1>2, ChargesWork, 0 \in Nat DEF Reading
<1>3. CASE EEIUseGas
  BY <1>3, ChargesWork, ArgumentsAssumption DEF EEIUseGas
<1>4. CASE EEILog
  <2>1. PICK topics \in LogTopics, n \in LogLengths :
          /\ Invoke("log") /\ UNCHANGED reply
          /\ LET f == Charged(Top, "log")
                 g == ConsumeGas(f, LogCost(topics, n))
             IN SetTop(Trap(f)) \/ SetTop(Trap(g)) \/ SetTop(g)
    BY <1>4 DEF EEILog
  <2>2. LogCost(topics, n) \in Nat
    BY ArgumentsAssumption DEF LogCost
  <2>3. QED
    BY <2>1, <2>2, ChargesWork
<1>5. CASE EEIStorageStore
  <2>1. PICK nonzero \in BOOLEAN :
          /\ Invoke("storageStore") /\ UNCHANGED reply
          /\ LET f == Charged(Top, "storageStore")
                 g == ConsumeGas(f, StoreCost(f.msg.dest, nonzero))
             IN SetTop(Trap(f)) \/ SetTop(Trap(g)) \/ SetTop(g)
    BY <1>5 DEF EEIStorageStore
  <2>2. StoreCost(Charged(Top, "storageStore").msg.dest, nonzero) \in Nat
    BY DEF StoreCost, CreateSlotGas
  <2>3. QED
    BY <2>1, <2>2, ChargesWork
<1>6. CASE EEISelfDestruct
  <2> DEFINE f == Charged(Top, "selfDestruct")
  <2>1. PICK cost \in {0, NewAccountGas} :
          /\ Invoke("selfDestruct") /\ UNCHANGED reply
          /\ \/ SetTop(Trap(f)) \/ SetTop(Trap(ConsumeGas(f, cost)))
             \/ SetTop([ConsumeGas(f, cost) EXCEPT !.phase = "stopped"])
    BY <1>6 DEF EEISelfDestruct
  <2> DEFINE g == ConsumeGas(f, cost)
             h == [g EXCEPT !.phase = "stopped"]
  <2>2. cost \in Nat
    BY DEF NewAccountGas
  <2>3. /\ Running /\ Worked(Top, Trap(f)) /\ Worked(Top, Trap(g))
        /\ Worked(Top, g) /\ g \in Frame
    BY <2>1, <2>2, ChargesWork DEF RunOK, OK
  <2> HIDE DEF f
  <2>4. h.msg = g.msg /\ h.used = g.used /\ h.phase # "call"
    BY <2>3 DEF Frame
  <2>5. Worked(Top, h)
    BY <2>3, <2>4, SameMeterWorks
  <2>6. QED
    BY <2>1, <2>3, <2>5
<1>7. ASSUME NEW fn, Invoke(fn), UNCHANGED reply, NEW data,
             LET f == Charged(Top, fn) IN
             \/ SetTop(Trap([f EXCEPT !.returnData = Empty]))
             \/ SetTop([f EXCEPT !.returnData = data, !.phase = "finished"])
             \/ SetTop([f EXCEPT !.returnData = data, !.phase = "finished",
                                 !.isRevert = TRUE])
      PROVE  Goal
  <2> DEFINE f == Charged(Top, fn)
             e == Trap([f EXCEPT !.returnData = Empty])
             d == [f EXCEPT !.returnData = data, !.phase = "finished"]
             r == [f EXCEPT !.returnData = data, !.phase = "finished",
                            !.isRevert = TRUE]
  <2>1. Running /\ Worked(Top, f) /\ f \in Frame
    BY <1>7, ChargedKeeps, ChargesWork, 0 \in Nat DEF RunOK, OK
  <2>2. SetTop(e) \/ SetTop(d) \/ SetTop(r)
    BY <1>7
  <2> HIDE DEF f
  <2>3. /\ e.msg = f.msg /\ e.used = f.used /\ e.phase # "call"
        /\ d.msg = f.msg /\ d.used = f.used /\ d.phase # "call"
        /\ r.msg = f.msg /\ r.used = f.used /\ r.phase # "call"
    BY <2>1 DEF Frame, Trap
  <2>4. Worked(Top, e) /\ Worked(Top, d) /\ Worked(Top, r)
    BY <2>1, <2>3, SameMeterWorks
  <2>5. QED
    BY <1>7, <2>1, <2>2, <2>4
<1>8. CASE EEIFinish
  BY <1>7, <1>8 DEF EEIFinish
<1>9. CASE EEIRevert
  BY <1>7, <1>9 DEF EEIRevert
<1>10. CASE OutOfCost \/ CodeReturns \/ CodeTraps
  <2> DEFINE c == Trap([Top EXCEPT !.cost = Top.msg.gas])
             s == [Top EXCEPT !.phase = "stopped"]
  <2>1. /\ Running /\ UNCHANGED reply
        /\ SetTop(c) \/ SetTop(s) \/ SetTop(Trap(Top))
    BY <1>10 DEF OutOfCost, CodeReturns, CodeTraps
  <2>2. Top \in Frame /\ Top.phase = "run" /\ GasLeft(Top) \in Int
    BY <2>1, RunningFacts DEF RunOK, OK, Frame, Message, GasLeft
  <2>3. Worked(Top, Top)
    BY <2>2 DEF Worked
  <2>4. /\ c.msg = Top.msg /\ c.used = Top.used /\ c.phase # "call"
        /\ s.msg = Top.msg /\ s.used = Top.used /\ s.phase # "call"
    BY <2>2 DEF Frame, Trap
  <2>5. Worked(Top, c) /\ Worked(Top, s) /\ Worked(Top, Trap(Top))
    BY <2>2, <2>3, <2>4, SameMeterWorks, TrapWorks
  <2>6. QED
    BY <2>1, <2>5
<1>11. QED
  BY <1>1, <1>2, <1>3, <1>4, <1>5, <1>6, <1>8, <1>9, <1>10

-----------------------------------------------------------------------------
(* The levels when the stack changes.                                      *)

Level == {LevelOf(f) : f \in Frame}

\* A stack's levels are as many as its frames, in their order.
LEMMA LevelsOfStack ==
  ASSUME NEW s \in Seq(Frame)
  PROVE  LET l == [i \in 1..Len(s) |-> LevelOf(s[i])] IN
         /\ l \in Seq(Level) /\ Len(l) = Len(s)
         /\ \A i \in 1..Len(s) : l[i] = LevelOf(s[i])
<1> DEFINE n == Len(s)
           l == [i \in 1..n |-> LevelOf(s[i])]
<1>1. n \in Nat /\ \A i \in 1..n : s[i] \in Frame
  BY LenProperties, ElementOfSeq
<1>2. l \in [1..n -> Level]
  BY <1>1 DEF Level
<1> HIDE DEF n, l
<1>3. l \in Seq(Level) /\ DOMAIN l = 1..n
  BY <1>1, <1>2
<1>4. Len(l) = n
  BY <1>1, <1>3, LenProperties
<1>5. QED
  BY <1>3, <1>4 DEF l, n

\* The levels of this state and of the next.
LEMMA LevelsFacts ==
  ASSUME Inv
  PROVE  LET n == Len(frames) IN
         /\ n \in Nat /\ Levels \in Seq(Level) /\ Len(Levels) = n
         /\ \A i \in 1..n : Levels[i] = LevelOf(frames[i])
         /\ Levels = <<>> <=> frames = <<>>
BY LevelsOfStack, LenProperties, EmptySeq DEF Inv, Levels

LEMMA NextLevelsFacts ==
  ASSUME Inv'
  PROVE  LET n == Len(frames') IN
         /\ n \in Nat /\ Levels' \in Seq(Level) /\ Len(Levels') = n
         /\ \A i \in 1..n : Levels'[i] = LevelOf(frames'[i])
BY LevelsOfStack, LenProperties DEF Inv, Levels

\* The top of the levels is the innermost frame.
LEMMA TopLevel ==
  ASSUME Inv, frames # <<>>
  PROVE  /\ Levels # <<>>
         /\ Tree!Top = LevelOf(Top)
<1>1. Len(frames) \in 1..Len(frames) /\ Levels # <<>>
  BY TopFacts, LevelsFacts
<1>2. QED
  BY <1>1, LevelsFacts DEF Tree!Top, Top

\* Another innermost frame is another top level.
LEMMA TopChanges ==
  ASSUME Inv, Inv', frames # <<>>, NEW g, SetTop(g)
  PROVE  /\ OK(g)
         /\ Levels' = [Levels EXCEPT ![Len(Levels)] = LevelOf(g)]
         /\ Tree!Changing /\ Tree!New = LevelOf(g)
<1> DEFINE n == Len(frames)
<1>1. n \in Nat \ {0} /\ frames \in Seq(Frame) /\ frames' \in Seq(Frame)
  BY TopFacts DEF Inv
<1>2. /\ Len(frames') = n
      /\ \A i \in 1..n : frames'[i] = IF i = n THEN g ELSE frames[i]
  BY <1>1 DEF SetTop
<1>3. OK(g)
  BY <1>1, <1>2 DEF Inv
<1>4. /\ Levels \in Seq(Level) /\ Len(Levels) = n
      /\ \A i \in 1..n : Levels[i] = LevelOf(frames[i])
      /\ Levels' \in Seq(Level) /\ Len(Levels') = n
      /\ \A i \in 1..n : Levels'[i] = LevelOf(frames'[i])
  BY <1>2, LevelsFacts, NextLevelsFacts
<1> DEFINE l == [Levels EXCEPT ![n] = LevelOf(g)]
<1>5. /\ l \in Seq(Level) /\ Len(l) = n
      /\ \A i \in 1..n : l[i] = IF i = n THEN LevelOf(g) ELSE Levels[i]
  <2>1. n \in 1..Len(Levels) /\ LevelOf(g) \in Level
    BY <1>1, <1>3, <1>4 DEF Level, OK
  <2>2. QED
    BY <1>4, <2>1, ExceptSeq
<1>6. Levels' = l
  <2>1. \A i \in 1..n : Levels'[i] = l[i]
    BY <1>2, <1>4, <1>5
  <2>2. QED
    BY <1>4, <1>5, <2>1, SeqEqual
<1>7. Levels'[n] = LevelOf(g)
  BY <1>1, <1>2, <1>4
<1>8. QED
  BY <1>3, <1>4, <1>6, <1>7 DEF Tree!Changing, Tree!New

\* A further frame is a further level.
LEMMA LevelsGrow ==
  ASSUME Inv, Inv', NEW g, frames' = Append(frames, g)
  PROVE  Levels' = Append(Levels, LevelOf(g))
<1> DEFINE n == Len(frames)
<1>1. n \in Nat /\ frames \in Seq(Frame) /\ frames' \in Seq(Frame)
  BY LenProperties DEF Inv
<1>2. /\ Len(frames') = n + 1 /\ frames'[n + 1] = g
      /\ \A i \in 1..n : frames'[i] = frames[i]
  BY <1>1
<1>3. /\ Levels \in Seq(Level) /\ Len(Levels) = n
      /\ \A i \in 1..n : Levels[i] = LevelOf(frames[i])
      /\ Levels' \in Seq(Level) /\ Len(Levels') = n + 1
      /\ \A i \in 1..n + 1 : Levels'[i] = LevelOf(frames'[i])
  BY <1>2, LevelsFacts, NextLevelsFacts
<1> DEFINE l == Append(Levels, LevelOf(g))
<1>4. LevelOf(g) \in Level
  BY <1>1, <1>2, ElementOfSeq DEF Level
<1>5. /\ l \in Seq(Level) /\ Len(l) = n + 1 /\ l[n + 1] = LevelOf(g)
      /\ \A i \in 1..n : l[i] = Levels[i]
  BY <1>3, <1>4, AppendProperties
<1>6. \A i \in 1..n + 1 : Levels'[i] = l[i]
  BY <1>1, <1>2, <1>3, <1>5
<1>7. QED
  BY <1>3, <1>5, <1>6, SeqEqual

\* A frame less is a level less.
LEMMA LevelsShrink ==
  ASSUME Inv, Return
  PROVE  Levels' = SubSeq(Levels, 1, Len(Levels) - 1)
<1> DEFINE n == Len(frames)
<1>1. n \in Nat \ {0} /\ frames \in Seq(Frame)
  BY TopFacts DEF Return, Inv
<1>2. Len(frames') = n - 1 /\ \A i \in 1..n - 1 : frames'[i] = frames[i]
  <2>1. \A i \in 1..n - 1 : frames[i] \in Frame
    BY <1>1, ElementOfSeq
  <2>2. 1 \in Int /\ n - 1 \in Int
    BY <1>1
  <2>3. frames' = SubSeq(frames, 1, n - 1)
    BY DEF Return
  <2> HIDE DEF n
  <2>4. /\ Len(SubSeq(frames, 1, n - 1)) =
             IF 1 <= n - 1 THEN n - 1 - 1 + 1 ELSE 0
        /\ \A i \in 1 .. n - 1 - 1 + 1 :
             SubSeq(frames, 1, n - 1)[i] = frames[1 + i - 1]
    BY <2>1, <2>2, SubSeqProperties
  <2>5. QED
    BY <1>1, <2>3, <2>4
<1>3. /\ Levels \in Seq(Level) /\ Len(Levels) = n
      /\ \A i \in 1..n : Levels[i] = LevelOf(frames[i])
      /\ Levels' \in Seq(Level) /\ Len(Levels') = n - 1
      /\ \A i \in 1..n - 1 : Levels'[i] = LevelOf(frames'[i])
  BY <1>2, Pop, LevelsFacts, NextLevelsFacts
<1> DEFINE l == SubSeq(Levels, 1, n - 1)
<1>4. /\ l \in Seq(Level) /\ Len(l) = n - 1
      /\ \A i \in 1..n - 1 : l[i] = Levels[i]
  <2>1. \A i \in 1..n - 1 : Levels[i] \in Level
    BY <1>1, <1>3, ElementOfSeq
  <2>2. 1 \in Int /\ n - 1 \in Int
    BY <1>1
  <2> HIDE DEF n, l
  <2>3. /\ SubSeq(Levels, 1, n - 1) \in Seq(Level)
        /\ Len(SubSeq(Levels, 1, n - 1)) =
             IF 1 <= n - 1 THEN n - 1 - 1 + 1 ELSE 0
        /\ \A i \in 1 .. n - 1 - 1 + 1 :
             SubSeq(Levels, 1, n - 1)[i] = Levels[1 + i - 1]
    BY <2>1, <2>2, SubSeqProperties
  <2>4. QED
    BY <1>1, <2>3 DEF l
<1>5. \A i \in 1..n - 1 : Levels'[i] = l[i]
  BY <1>1, <1>2, <1>3, <1>4
<1>6. QED
  BY <1>3, <1>4, <1>5, SeqEqual

\* A reply under way is an answer under way.
LEMMA AnswerFacts ==
  ASSUME Inv
  PROVE  /\ Answer = {} <=> reply = NoResult
         /\ reply \in Result => Answer = {reply.gasLeft} /\ reply # NoResult
<1>1. reply \in Result => reply # NoResult
  BY DEF Result, NoResult, Status
<1>2. QED
  BY <1>1 DEF Answer

-----------------------------------------------------------------------------
(* Every step of EwasmVM as a step of CallTree.                            *)

\* A frame's numbers.
LEMMA FrameNumbers ==
  ASSUME NEW f, OK(f)
  PROVE  /\ f.msg.gas \in Nat /\ f.used \in Nat
         /\ GasLeft(f) \in 0..f.msg.gas
         /\ f.msg.static \in BOOLEAN /\ f.msg.depth \in 0..MaxDepth
BY DEF OK, Frame, Message, GasLeft, MaxDepth

\* Frames with the same message have levels that differ in gas and loan.
LEMMA LevelChanges ==
  ASSUME Inv, Inv', frames # <<>>, NEW g, SetTop(g), g.msg = Top.msg
  PROVE  /\ Tree!Changing /\ Tree!New = LevelOf(g)
         /\ LevelOf(g).left = GasLeft(g)
         /\ Tree!SetTop(GasLeft(g), LevelOf(g).loan)
<1>1. Levels' = [Levels EXCEPT ![Len(Levels)] = LevelOf(g)]
      /\ Tree!Changing /\ Tree!New = LevelOf(g)
  BY TopChanges
<1>2. Tree!Top = LevelOf(Top)
  BY TopLevel
<1>3. LevelOf(g).left = GasLeft(g)
  BY DEF LevelOf
<1>4. LevelOf(g) = [limit |-> LevelOf(Top).limit, left |-> GasLeft(g),
                    depth |-> LevelOf(Top).depth,
                    static |-> LevelOf(Top).static,
                    loan |-> LevelOf(g).loan]
  BY DEF LevelOf
<1>5. QED
  BY <1>1, <1>2, <1>3, <1>4 DEF Tree!SetTop

\* A frame that works on spends.
LEMMA WorkSpends ==
  ASSUME Inv, Inv', Running, NEW g, SetTop(g), Worked(Top, g),
         UNCHANGED reply, Top.msg.static => UNCHANGED storage
  PROVE  Tree!Spend
<1>1. frames # <<>> /\ OK(Top) /\ Top.phase = "run"
  BY RunningFacts DEF RunOK
<1>2. /\ OK(g) /\ Tree!Changing /\ Tree!New = LevelOf(g)
      /\ LevelOf(g).left = GasLeft(g)
      /\ Tree!SetTop(GasLeft(g), LevelOf(g).loan)
  BY <1>1, TopChanges, LevelChanges DEF Worked, Sent
<1>3. Levels # <<>> /\ Tree!Top = LevelOf(Top)
  BY <1>1, TopLevel
<1>4. GasLeft(g) \in 0..GasLeft(Top) /\ LevelOf(g).loan = {}
  <2>1. GasLeft(g) \in Nat /\ GasLeft(Top) \in Nat
    BY <1>1, <1>2, FrameNumbers
  <2>2. g.msg = Top.msg /\ g.phase # "call" /\ GasLeft(g) <= GasLeft(Top)
    BY DEF Worked
  <2>3. LevelOf(g).loan = {}
    BY <2>2 DEF LevelOf
  <2>4. QED
    BY <2>1, <2>2, <2>3
<1>5. LevelOf(Top).loan = {} /\ LevelOf(Top).left = GasLeft(Top)
      /\ LevelOf(Top).static = Top.msg.static
  BY <1>1 DEF LevelOf
<1>6. Answer' = Answer
  BY DEF Answer
<1>7. QED
  BY <1>2, <1>3, <1>4, <1>5, <1>6 DEF Tree!Spend, Tree!Awake

\* A frame that sends lends.
LEMMA SendLends ==
  ASSUME Inv, Inv', Running, NEW g, SetTop(g), Sent(Top, g),
         UNCHANGED <<reply, storage>>
  PROVE  Tree!Lend
<1>1. frames # <<>> /\ OK(Top) /\ Top.phase = "run"
  BY RunningFacts DEF RunOK
<1>2. /\ OK(g) /\ Tree!Changing /\ Tree!New = LevelOf(g)
      /\ LevelOf(g).left = GasLeft(g)
      /\ Tree!SetTop(GasLeft(g), LevelOf(g).loan)
  BY <1>1, TopChanges, LevelChanges DEF Worked, Sent
<1>3. Levels # <<>> /\ Tree!Top = LevelOf(Top)
  BY <1>1, TopLevel
<1> DEFINE loan == [gas |-> g.out.gas, gift |-> Stipend(g.out),
                    static |-> g.out.static,
                    create2 |-> g.out.kind = "CREATE2"]
<1>4. /\ g.phase = "call" /\ g.msg = Top.msg /\ g.before = GasLeft(Top)
      /\ Lent(g) /\ g.out \in Message /\ GasLeft(g) \in Nat
  <2>1. GasLeft(g) \in Nat
    BY <1>2, FrameNumbers
  <2>2. g.phase = "call" /\ g.msg = Top.msg /\ g.before = GasLeft(Top)
    BY DEF Sent
  <2>3. Lent(g) /\ g.out \in Message
    BY <1>2, <2>2 DEF OK, Lent
  <2>4. QED
    BY <2>1, <2>2, <2>3
<1>5. /\ loan.gas \in Nat /\ loan.gift \in {0, 2300}
      /\ GasLeft(g) + loan.gas <= GasLeft(Top) + loan.gift
  BY <1>4, FrameNumbers, <1>1 DEF Lent, Message, Stipend
<1>6. Top.msg.static => loan.static \/ loan.create2
  BY <1>4 DEF Lent
<1>7. Top.msg.depth < MaxDepth
  BY <1>4 DEF Lent
<1>8. LevelOf(g).loan = {loan}
  BY <1>4 DEF LevelOf
<1>9. /\ LevelOf(Top).loan = {} /\ LevelOf(Top).left = GasLeft(Top)
      /\ LevelOf(Top).static = Top.msg.static
      /\ LevelOf(Top).depth = Top.msg.depth
  BY <1>1 DEF LevelOf
<1>10. UNCHANGED <<Answer, storage>>
  BY DEF Answer
<1> HIDE DEF loan
<1>11. QED
  BY <1>2, <1>3, <1>4, <1>5, <1>6, <1>7, <1>8, <1>9, <1>10
  DEF Tree!Lend, Tree!Awake

\* A level waits while its frame does, with the message as its loan.
LEMMA WaitingLevel ==
  ASSUME Inv, frames # <<>>, Top.phase = "call"
  PROVE  LET loan == [gas |-> Top.out.gas, gift |-> Stipend(Top.out),
                      static |-> Top.out.static,
                      create2 |-> Top.out.kind = "CREATE2"]
         IN /\ Levels # <<>> /\ Tree!Top = LevelOf(Top)
            /\ LevelOf(Top).loan = {loan} /\ Tree!Waiting
            /\ LevelOf(Top).depth = Top.msg.depth
            /\ LevelOf(Top).left = GasLeft(Top)
            /\ LevelOf(Top).limit = Top.msg.gas
<1>1. Levels # <<>> /\ Tree!Top = LevelOf(Top)
  BY TopLevel
<1>2. /\ LevelOf(Top).loan # {}
      /\ LevelOf(Top).loan =
           {[gas |-> Top.out.gas, gift |-> Stipend(Top.out),
             static |-> Top.out.static,
             create2 |-> Top.out.kind = "CREATE2"]}
  BY DEF LevelOf
<1>3. QED
  BY <1>1, <1>2 DEF LevelOf, Tree!Waiting

\* A frame that execute() has just set up is a fresh level.
LEMMA LoadedIsFresh ==
  ASSUME NEW m \in Message, NEW code
  PROVE  LevelOf(Loaded(m, code)) = Tree!Fresh(m.gas, m.depth, m.static)
<1> DEFINE g == Loaded(m, code)
<1>1. /\ g.msg = m /\ g.used = 0 /\ g.phase # "call"
  BY DEF Loaded, SetEVMCMessage
<1>2. m.gas - 0 = m.gas
  BY DEF Message
<1>3. QED
  BY <1>1, <1>2 DEF LevelOf, GasLeft, Tree!Fresh

\* A nested execute() enters.
LEMMA HostExecutesEnters ==
  ASSUME Inv, Inv', HostExecutes
  PROVE  Tree!Enter
<1>1. /\ frames # <<>> /\ Top.phase = "call" /\ reply = NoResult
      /\ UNCHANGED <<reply, storage>>
  BY DEF HostExecutes, Calling, world
<1>2. PICK self \in Recipients(Top.out), code \in Bytes :
        frames' = Append(frames, Loaded([Top.out EXCEPT !.dest = self], code))
  BY DEF HostExecutes
<1> DEFINE m == [Top.out EXCEPT !.dest = self]
<1>3. Top.out \in Message /\ Top.out.depth = Top.msg.depth + 1
  BY <1>1, TopFacts DEF OK, Lent
<1>4. self \in Address
  BY <1>3 DEF Recipients, Message
<1>5. /\ m \in Message /\ m.gas = Top.out.gas
      /\ m.depth = Top.msg.depth + 1 /\ m.static = Top.out.static
  BY <1>3, <1>4 DEF Message
<1>6. Levels' = Append(Levels, LevelOf(Loaded(m, code)))
  BY <1>2, LevelsGrow
<1>7. Levels' = Append(Levels, Tree!Fresh(Top.out.gas, Top.msg.depth + 1,
                                          Top.out.static))
  BY <1>5, <1>6, LoadedIsFresh
<1> DEFINE loan == [gas |-> Top.out.gas, gift |-> Stipend(Top.out),
                    static |-> Top.out.static,
                    create2 |-> Top.out.kind = "CREATE2"]
<1>8. /\ Tree!Waiting /\ Tree!Top = LevelOf(Top) /\ LevelOf(Top).loan = {loan}
      /\ LevelOf(Top).depth = Top.msg.depth
      /\ loan.gas = Top.out.gas /\ loan.static = Top.out.static
  BY <1>1, WaitingLevel
<1>9. Answer = {} /\ UNCHANGED <<Answer, storage>>
  BY <1>1 DEF Answer
<1> HIDE DEF loan
<1>10. QED
  BY <1>7, <1>8, <1>9 DEF Tree!Enter

\* A host that answers by itself declines.
LEMMA HostAnswersDeclines ==
  ASSUME Inv, Inv', HostAnswers
  PROVE  Tree!Decline
<1>1. /\ frames # <<>> /\ Top.phase = "call" /\ reply = NoResult
      /\ UNCHANGED <<frames, storage>>
  BY DEF HostAnswers, Calling, world
<1>2. Top.out.gas \in Nat
  BY <1>1, TopFacts DEF OK, Lent, Message
<1>3. PICK status \in Status, output \in Bytes,
           gas \in {g \in HostGasLeft : g <= Top.out.gas} \cup {Top.out.gas} :
        reply' = [status |-> status, gasLeft |-> gas, output |-> output]
  BY DEF HostAnswers
<1>4. gas \in Int /\ gas <= Top.out.gas
  BY <1>2, HostAssumption
<1>5. Answer = {} /\ Answer' = {gas}
  BY <1>1, <1>3 DEF Answer, NoResult
<1>6. UNCHANGED <<Levels, storage>>
  BY <1>1 DEF Levels
<1> DEFINE loan == [gas |-> Top.out.gas, gift |-> Stipend(Top.out),
                    static |-> Top.out.static,
                    create2 |-> Top.out.kind = "CREATE2"]
<1>7. /\ Tree!Waiting /\ Tree!Top = LevelOf(Top) /\ LevelOf(Top).loan = {loan}
      /\ loan.gas = Top.out.gas
  BY <1>1, WaitingLevel
<1> HIDE DEF loan
<1>8. QED
  BY <1>4, <1>5, <1>6, <1>7 DEF Tree!Decline

\* execute() that returns leaves.
LEMMA ReturnLeaves ==
  ASSUME Inv, Inv', Return
  PROVE  Tree!Leave
<1>1. /\ frames # <<>> /\ Top.phase \in Exits /\ reply' = ResultOf(Top)
      /\ UNCHANGED storage
  BY DEF Return, world
<1>2. OK(Top) /\ reply' \in Result /\ reply'.gasLeft \in 0..Top.msg.gas
  BY <1>1, TopFacts, ResultOfOK
<1>3. Answer' = {reply'.gasLeft}
  BY <1>2 DEF Answer, Result, NoResult, Status
<1>4. Levels' = SubSeq(Levels, 1, Len(Levels) - 1)
  BY LevelsShrink
<1>5. Levels # <<>> /\ Tree!Top = LevelOf(Top)
  BY <1>1, TopLevel
<1>6. LevelOf(Top).loan = {} /\ LevelOf(Top).limit = Top.msg.gas
  BY <1>1 DEF LevelOf, Exits
<1>7. QED
  BY <1>1, <1>2, <1>3, <1>4, <1>5, <1>6 DEF Tree!Leave, Tree!Awake

\* A call that returns to its caller resumes.
LEMMA CallReturnsResumes ==
  ASSUME Inv, Inv', CallReturns
  PROVE  Tree!Resume
<1>1. /\ frames # <<>> /\ reply # NoResult /\ reply' = NoResult
      /\ Top.phase = "call" /\ OK(Top) /\ Top \in Frame
      /\ reply \in Result /\ UNCHANGED storage
  BY TopFacts DEF CallReturns, Inv, world
<1>2. reply.gasLeft \in Int
  BY <1>1 DEF Result
<1> DEFINE back == IF reply.gasLeft > 0 THEN reply.gasLeft ELSE 0
<1>3. PICK g : /\ SetTop(g) /\ g.msg = Top.msg /\ g.phase # "call"
               /\ GasLeft(g) <= GasLeft(Top) + back
  <2> DEFINE h == ReturnGas(Top, reply.gasLeft)
             data == IF Created(Top, reply) THEN Empty ELSE reply.output
  <2>1. /\ Top.used \in Nat /\ Top.msg.gas \in Nat
    BY <1>1, FrameNumbers
  <2>2. CASE reply.gasLeft < 0 /\ SetTop(Trap(Top))
    <3>1. /\ Trap(Top).msg = Top.msg /\ Trap(Top).used = Top.used
          /\ Trap(Top).phase = "trap"
      BY <1>1 DEF Trap, Frame
    <3>2. GasLeft(Trap(Top)) <= GasLeft(Top) + back
      BY <1>2, <2>1, <2>2, <3>1 DEF GasLeft
    <3>3. QED
      BY <2>2, <3>1, <3>2
  <2>3. CASE /\ reply.gasLeft >= 0
             /\ SetTop(Trap(h)) \/ SetTop(Resume(h, data))
    <3>1. /\ h.msg = Top.msg
          /\ h.used = IF Top.used < reply.gasLeft THEN 0
                      ELSE Top.used - reply.gasLeft
      BY <1>1 DEF ReturnGas, Frame
    <3>2. /\ Trap(h).msg = Top.msg /\ Trap(h).used = h.used
          /\ Trap(h).phase = "trap"
          /\ Resume(h, data).msg = Top.msg /\ Resume(h, data).used = h.used
          /\ Resume(h, data).phase = "run"
      BY <1>1 DEF Trap, Resume, ReturnGas, Frame
    <3>3. Top.msg.gas - h.used <= Top.msg.gas - Top.used + back
      BY <1>2, <2>1, <2>3, <3>1
    <3>4. /\ GasLeft(Trap(h)) <= GasLeft(Top) + back
          /\ GasLeft(Resume(h, data)) <= GasLeft(Top) + back
      BY <3>2, <3>3 DEF GasLeft
    <3>5. QED
      BY <2>3, <3>2, <3>4
  <2>4. QED
    BY <2>2, <2>3 DEF CallReturns
<1>4. /\ OK(g) /\ Tree!Changing /\ Tree!New = LevelOf(g)
      /\ LevelOf(g).left = GasLeft(g)
      /\ Tree!SetTop(GasLeft(g), LevelOf(g).loan)
  BY <1>1, <1>3, TopChanges, LevelChanges
<1>5. /\ Tree!Waiting /\ Tree!Top = LevelOf(Top)
      /\ LevelOf(Top).left = GasLeft(Top) /\ LevelOf(Top).limit = Top.msg.gas
  BY <1>1, WaitingLevel
<1>6. GasLeft(g) \in 0..Top.msg.gas /\ LevelOf(g).loan = {}
  <2>1. LevelOf(g).loan = {}
    BY <1>3 DEF LevelOf
  <2>2. GasLeft(g) \in 0..g.msg.gas
    BY <1>4, FrameNumbers
  <2>3. QED
    BY <1>3, <2>1, <2>2
<1>7. Answer = {reply.gasLeft} /\ Answer' = {}
  BY <1>1 DEF Answer
<1>8. QED
  BY <1>1, <1>3, <1>4, <1>5, <1>6, <1>7 DEF Tree!Resume

\* The client's execute() begins.
LEMMA ExecuteBegins ==
  ASSUME Inv, Inv', Execute
  PROVE  Tree!Begin
<1>1. PICK m \in RootMessages, code \in Bytes : frames' = <<Loaded(m, code)>>
  BY DEF Execute
<1>2. /\ m \in Message /\ m.gas \in Nat /\ m.depth \in 0..MaxDepth
      /\ m.static \in BOOLEAN
  BY RootAssumption DEF Message, MaxDepth
<1>3. frames = <<>> /\ reply' = NoResult /\ UNCHANGED storage
  BY DEF Execute, world
<1>4. Len(frames') = 1 /\ frames'[1] = Loaded(m, code)
  BY <1>1
<1> DEFINE l == Tree!Fresh(m.gas, m.depth, m.static)
<1>5. Levels' \in Seq(Level) /\ Len(Levels') = 1 /\ Levels'[1] = l
  BY <1>2, <1>4, NextLevelsFacts, LoadedIsFresh
<1>6. l.limit = m.gas /\ l.depth = m.depth /\ l.static = m.static
  BY DEF Tree!Fresh
<1>7. Levels' = <<l>>
  <2> HIDE DEF l
  <2>1. l \in Level
    <3>1. 1 \in 1..Len(Levels')
      BY <1>5
    <3>2. Levels'[1] \in Level
      BY <1>5, <3>1, ElementOfSeq
    <3>3. QED
      BY <1>5, <3>2
  <2>2. <<l>> \in Seq(Level) /\ Len(<<l>>) = 1 /\ <<l>>[1] = l
    BY <2>1
  <2>3. QED
    BY <1>5, <2>2, SeqEqual
<1>8. Levels = <<>>
  BY <1>3, LevelsFacts
<1>9. Answer' = {}
  BY <1>3 DEF Answer
<1> HIDE DEF l
<1>10. Levels' = <<Tree!Fresh(l.limit, l.depth, l.static)>>
  BY <1>6, <1>7 DEF l
<1>11. QED
  BY <1>2, <1>3, <1>5, <1>6, <1>8, <1>9, <1>10 DEF Tree!Begin

-----------------------------------------------------------------------------
\* execute(), the EEI and a host, nested as they may be, are a tree of
\* loans (CallTree): for every gas schedule, code, host and depth.
THEOREM CallsAreATree == Spec => CallsFormTree
<1>1. ASSUME Init PROVE Tree!Init
  BY <1>1 DEF Init, Levels, Answer, Tree!Init
<1>2. ASSUME Inv, [Next]_vars PROVE [Tree!Next]_(Tree!vars)
  <2>1. Inv'
    BY <1>2, NextInv
  <2>2. CASE Execute
    BY <1>2, <2>1, <2>2, ExecuteBegins DEF Tree!Next
  <2>3. CASE HostExecutes
    BY <1>2, <2>1, <2>3, HostExecutesEnters DEF Tree!Next
  <2>4. CASE HostAnswers
    BY <1>2, <2>1, <2>4, HostAnswersDeclines DEF Tree!Next
  <2>5. CASE Return
    BY <1>2, <2>1, <2>5, ReturnLeaves DEF Tree!Next
  <2>6. CASE CallReturns
    BY <1>2, <2>1, <2>6, CallReturnsResumes DEF Tree!Next
  <2>7. CASE \/ EEICall \/ EEICallCode \/ EEICallDelegate \/ EEICallStatic
             \/ EEICreate \/ EEICreate2
    BY <1>2, <2>1, <2>7, SendersAct, WorkSpends, SendLends DEF Tree!Next
  <2>8. CASE \/ \E fn : Copying(fn) \/ Reading(fn)
             \/ EEIUseGas \/ EEILog \/ EEIStorageStore \/ EEISelfDestruct
             \/ EEIFinish \/ EEIRevert \/ OutOfCost \/ CodeReturns \/ CodeTraps
    <3>1. Top.msg.static => UNCHANGED storage
      BY <1>2, OnlyStoreWrites
    <3>2. QED
      BY <1>2, <2>1, <2>8, <3>1, OthersWork, WorkSpends DEF Tree!Next
  <2>9. CASE UNCHANGED vars
    BY <2>9 DEF vars, Tree!vars, Levels, Answer
  <2>10. QED
    BY <1>2, <2>2, <2>3, <2>4, <2>5, <2>6, <2>7, <2>8, <2>9
    DEF Next, EEIStep, EEICallDataCopy, EEICodeCopy, EEIExternalCodeCopy,
        EEIReturnDataCopy, EEIGet, EEIStorageLoad
<1>3. QED
  BY <1>1, <1>2, Invariance, PTL DEF Spec, CallsFormTree, Tree!Spec

=============================================================================
