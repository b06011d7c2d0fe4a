--------------------------- MODULE ResourceProofs ---------------------------
(***************************************************************************)
(* What all executions in progress can still use.  Their gas is bounded by *)
(* what the client gave: what each call lends and keeps, summed over the   *)
(* stack by induction over its height.  And what they can still use up     *)
(* only falls, in an order without infinite descents: calls end.           *)
(***************************************************************************)
EXTENDS EwasmVMProofs, NumberLemmas

\* The sums are what their recursion says.
LEMMA SumsUnfold ==
  ASSUME NEW s, Len(s) \in Nat
  PROVE  /\ Sums(s)[0] = 0
         /\ \A n \in 1..Len(s) : Sums(s)[n] = Sums(s)[n - 1] + s[n]
<1> DEFINE IsSum(f, N) ==
             f = [n \in 0..N |-> IF n = 0 THEN 0 ELSE f[n - 1] + s[n]]
           T == {n \in 0..Len(s) : \E f : IsSum(f, n)}
<1>1. 0 \in T
  <2> DEFINE g == [n \in 0..0 |-> 0]
  <2>2. \A n \in 0..0 : n = 0
    OBVIOUS
  <2>3. g = [n \in 0..0 |-> IF n = 0 THEN 0 ELSE g[n - 1] + s[n]]
    BY <2>2
  <2>1. IsSum(g, 0)
    BY <2>3
  <2> HIDE DEF IsSum, g
  <2> QED
    BY <2>1
<1>2. ASSUME NEW N \in 0..Len(s) - 1, N \in T PROVE N + 1 \in T
  <2>1. PICK f : IsSum(f, N)
    BY <1>2
  <2> DEFINE g == [n \in 0..N + 1 |->
                     IF n = N + 1 THEN f[N] + s[N + 1] ELSE f[n]]
  <2>2. ASSUME NEW n \in 0..N + 1
        PROVE  g[n] = IF n = 0 THEN 0 ELSE g[n - 1] + s[n]
    <3>1. CASE n = N + 1
      <4>1. n # 0 /\ n - 1 = N /\ N \in 0..N + 1 /\ N # N + 1
        BY <1>2, <3>1
      <4>2. g[n - 1] = f[N] /\ g[n] = f[N] + s[N + 1]
        BY <3>1, <4>1
      <4> QED
        BY <3>1, <4>1, <4>2
    <3>2. CASE n \in 0..N
      <4>1. g[n] = f[n] /\ (n # 0 => g[n - 1] = f[n - 1])
        BY <3>2
      <4>2. f[n] = IF n = 0 THEN 0 ELSE f[n - 1] + s[n]
        BY <2>1, <3>2
      <4> QED
        BY <4>1, <4>2
    <3> QED
      BY <3>1, <3>2
  <2> HIDE DEF IsSum
  <2>3. IsSum(g, N + 1)
    BY <2>2 DEF IsSum
  <2> HIDE DEF g
  <2> QED
    BY <2>3
<1>3. Len(s) \in T
  <2> HIDE DEF T
  <2>1. \A n \in 0..Len(s) - 1 : n \in T => n + 1 \in T
    BY <1>2
  <2>2. 0..Len(s) \subseteq T
    BY <1>1, <2>1, UpTo
  <2> QED
    BY <2>2
<1>4. IsSum(CHOOSE f : IsSum(f, Len(s)), Len(s))
  <2> HIDE DEF IsSum
  <2> QED
    BY <1>3
<1>5. IsSum(Sums(s), Len(s))
  BY <1>4 DEF Sums
<1> HIDE DEF T
<1> QED
  BY <1>5


\* A waiting execution and the one it waits for have together what the first
\* was given, and a stipend.
LEMMA LevelGas ==
  ASSUME Inv, NEW i \in 1..Len(frames) - 1
  PROVE  GasLeft(frames[i]) + frames[i + 1].msg.gas
           <= frames[i].msg.gas + 2300
<1> DEFINE f == frames[i]
<1>1. OK(f) /\ Linked(f, frames[i + 1])
  BY LenProperties DEF Inv
<1>2. Lent(f)
  BY <1>1 DEF OK, Linked
<1>3. /\ f.out.gas \in Nat /\ f.before \in Nat
      /\ f.msg.gas \in Nat /\ f.used \in Nat
  BY <1>1, <1>2 DEF OK, Lent, Frame, Message
<1>4. Stipend(f.out) \in {0, 2300}
  BY DEF Stipend
<1> QED
  BY <1>1, <1>2, <1>3, <1>4 DEF Lent, Linked, GasLeft

\* The gas all executions in progress could still spend is at most what the
\* client gave and one stipend for each call, for any height of the stack.
THEOREM StackIsFunded == Spec => []StackGas
<1>1. ASSUME Inv, frames # <<>>
      PROVE  LET lefts == [i \in 1..Len(frames) |-> GasLeft(frames[i])] IN
             Sums(lefts)[Len(frames)]
               <= frames[1].msg.gas + 2300 * (Len(frames) - 1)
  <2> DEFINE L == Len(frames)
             lefts == [i \in 1..L |-> GasLeft(frames[i])]
             gas == [i \in 1..L |-> frames[i].msg.gas]
             T == {n \in 0..L - 1 :
                     /\ Sums(lefts)[n] \in Int
                     /\ Sums(lefts)[n] + gas[n + 1] <= gas[1] + 2300 * n}
  <2>1. L \in Nat \ {0} /\ Len(lefts) = L
    BY <1>1 DEF Inv
  <2>2. /\ Sums(lefts)[0] = 0
        /\ \A n \in 1..L : Sums(lefts)[n] = Sums(lefts)[n - 1] + lefts[n]
    BY <2>1, SumsUnfold
  <2>3. \A i \in 1..L : gas[i] \in Nat /\ lefts[i] \in Nat /\ lefts[i] <= gas[i]
    <3>1. ASSUME NEW i \in 1..L PROVE OK(frames[i])
      BY <1>1, <3>1 DEF Inv
    <3>2. ASSUME NEW f, OK(f)
          PROVE  /\ f.msg.gas \in Nat /\ GasLeft(f) \in Nat
                 /\ GasLeft(f) <= f.msg.gas
      BY <3>2 DEF OK, Frame, Message, GasLeft
    <3> QED
      BY <3>1, <3>2
  <2>4. \A i \in 1..L - 1 : lefts[i] + gas[i + 1] <= gas[i] + 2300
    BY <1>1, LevelGas
  <2> HIDE DEF lefts, gas, L
  <2>5. 0 \in T
    BY <2>1, <2>2, <2>3
  <2>6. ASSUME NEW n \in 0..L - 2, n \in T PROVE n + 1 \in T
    <3> DEFINE S == Sums(lefts)[n]
    <3>1. S \in Int /\ S + gas[n + 1] <= gas[1] + 2300 * n
      BY <2>6
    <3>2. n + 1 \in 1..L - 1 /\ n + 1 \in 1..L /\ n + 2 \in 1..L /\ n + 1 - 1 = n
          /\ n + 1 + 1 = n + 2 /\ 1 \in 1..L /\ n + 1 \in 0..L - 1
      BY <2>1
    <3>3. Sums(lefts)[n + 1] = S + lefts[n + 1]
      BY <2>2, <3>2
    <3>4. lefts[n + 1] + gas[n + 2] <= gas[n + 1] + 2300
      BY <2>4, <3>2
    <3>5. gas[n + 1] \in Nat /\ gas[n + 2] \in Nat /\ gas[1] \in Nat
          /\ lefts[n + 1] \in Nat
      BY <2>3, <3>2
    <3> HIDE DEF S
    <3>6. S + lefts[n + 1] + gas[n + 2] <= gas[1] + 2300 * (n + 1)
      BY <3>1, <3>4, <3>5
    <3> QED
      BY <3>1, <3>2, <3>3, <3>5, <3>6
  <2>7. L - 1 \in T
    <3> HIDE DEF T
    <3>1. L - 1 \in Nat /\ L - 1 - 1 = L - 2 /\ L - 1 \in 0..L - 1
      BY <2>1
    <3>2. 0..L - 1 \subseteq T
      BY <2>5, <2>6, <3>1, UpTo
    <3> QED
      BY <3>1, <3>2
  <2>8. Sums(lefts)[L] <= gas[1] + 2300 * (L - 1)
    <3> DEFINE S == Sums(lefts)[L - 1]
    <3>1. S \in Int /\ S + gas[L - 1 + 1] <= gas[1] + 2300 * (L - 1)
      BY <2>7
    <3>2. L \in 1..L /\ L - 1 + 1 = L /\ 1 \in 1..L
      BY <2>1
    <3>3. Sums(lefts)[L] = S + lefts[L]
      BY <2>2, <3>2
    <3> HIDE DEF S
    <3> QED
      BY <2>1, <2>3, <3>1, <3>2, <3>3
  <2> QED
    BY <2>1, <2>8 DEF lefts, gas, L
<1>2. Inv => StackGas
  BY <1>1 DEF StackGas
<1> QED
  BY <1>2, Invariance, PTL

-----------------------------------------------------------------------------
(* What executions can still use up (CallsUseUp).                          *)

\* A step that leaves the lower executions as they are and gives the
\* innermost one a smaller remainder lowers the remainders.
LEMMA LowersAtTop ==
  ASSUME Inv, frames # <<>>, frames' \in Seq(Frame),
         Len(frames') = Len(frames),
         \A j \in 1..Len(frames) - 1 : frames'[j] = frames[j],
         Smaller(Remainders'[Len(frames)], Remainders[Len(frames)])
  PROVE  Lowers(Remainders, Remainders')
<1> DEFINE n == Len(frames)
<1>1. n \in Nat \ {0} /\ Depths = 1..n /\ Depths' = 1..n
  BY TopFacts, DepthsAreLevels, LenProperties DEF Depths
<1>2. DOMAIN Remainders = 1..n /\ DOMAIN Remainders' = 1..n
  BY <1>1 DEF Remainders
<1>3. ASSUME NEW j \in 1..n - 1 PROVE Remainders'[j] = Remainders[j]
  <2>1. frames'[j] = frames[j] /\ frames[j].phase = "call" /\ j # n /\ j \in 1..n
    BY <1>1 DEF Inv, Linked
  <2>2. Stage(j) = 3 /\ Stage(j)' = 3
    BY <2>1 DEF Stage
  <2> QED
    BY <1>1, <2>1, <2>2 DEF Remainders
<1> HIDE DEF n
<1>4. n \in 1..n /\ Smaller(Remainders'[n], Remainders[n])
  BY <1>1 DEF n
<1>5. \A j \in 1..n - 1 : j \in 1..n /\ Remainders'[j] = Remainders[j]
  BY <1>1, <1>3
<1> QED
  BY <1>2, <1>4, <1>5 DEF Lowers

\* The remainder of the innermost execution.
LEMMA TopRemainder ==
  ASSUME Inv, frames # <<>>
  PROVE  Remainders[Len(frames)] =
           <<Top.msg.gas - Top.cost, Stage(Len(frames)), GasLeft(Top)>>
<1> DEFINE n == Len(frames)
<1>1. n \in 1..n /\ Depths = 1..n /\ Top = frames[n]
  BY TopFacts, DepthsAreLevels
<1> QED
  BY <1>1 DEF Remainders

\* And after a step that replaces it.
LEMMA NewTopRemainder ==
  ASSUME Inv, frames # <<>>, NEW g, SetTop(g)
  PROVE  /\ Remainders'[Len(frames)] =
              <<g.msg.gas - g.cost, Stage(Len(frames))', GasLeft(g)>>
         /\ frames'[Len(frames)] = g
         /\ Len(frames') = Len(frames)
         /\ \A j \in 1..Len(frames) - 1 : frames'[j] = frames[j]
<1> DEFINE n == Len(frames)
<1>1. n \in 1..n /\ n \in Nat \ {0} /\ Depths = 1..n
  BY TopFacts, DepthsAreLevels
<1>2. /\ DOMAIN frames' = 1..n /\ frames'[n] = g /\ Len(frames') = n
      /\ \A j \in 1..n - 1 : frames'[j] = frames[j]
  <2>1. frames \in Seq(Frame) /\ frames' = [frames EXCEPT ![n] = g]
    BY DEF SetTop, Inv
  <2>2. DOMAIN frames' = 1..n /\ Len(frames') = n
    BY <1>1, <2>1 DEF Depths
  <2>3. frames'[n] = g
    BY <1>1, <2>1 DEF Depths
  <2>4. \A j \in 1..n - 1 : j # n /\ j \in Depths
    <3> HIDE DEF n
    <3> QED
      BY <1>1
  <2>5. \A j \in 1..n - 1 : frames'[j] = frames[j]
    BY <2>1, <2>4 DEF Depths
  <2> QED
    BY <2>2, <2>3, <2>5
<1>3. Remainders'[n] = <<frames'[n].msg.gas - frames'[n].cost, Stage(n)',
                         GasLeft(frames'[n])>>
  BY <1>1, <1>2 DEF Remainders, Depths
<1> QED
  BY <1>2, <1>3

\* A running execution uses something up: its engine's meter, its turn to
\* run, or its gas.
Spends(g) ==
  /\ g.msg = Top.msg
  /\ \/ g.cost > Top.cost
     \/ g.cost >= Top.cost /\ g.phase \in Exits
     \/ g.cost = Top.cost /\ g.phase = "run" /\ GasLeft(g) < GasLeft(Top)

\* Any of the three lowers the remainders.
LEMMA SpendingLowers ==
  ASSUME Inv, Inv', Running, NEW g, g.cost \in Int, SetTop(g), Spends(g),
         UNCHANGED reply
  PROVE  Lowers(Remainders, Remainders')
<1> DEFINE n == Len(frames)
<1>1. /\ frames # <<>> /\ RunOK(Top) /\ n \in Nat \ {0} /\ Top = frames[n]
  BY RunningFacts, TopFacts
<1>2. /\ Remainders[n] = <<Top.msg.gas - Top.cost, Stage(n), GasLeft(Top)>>
      /\ Remainders'[n] = <<g.msg.gas - g.cost, Stage(n)', GasLeft(g)>>
      /\ frames'[n] = g
      /\ Len(frames') = n
      /\ \A j \in 1..n - 1 : frames'[j] = frames[j]
  BY <1>1, TopRemainder, NewTopRemainder
<1>3. Top.msg.gas \in Nat /\ Top.cost \in Nat /\ Top.phase = "run"
  BY <1>1 DEF RunOK, OK, Frame, Message
<1>4. Stage(n) = 1
  BY <1>1, <1>3 DEF Stage
<1>5. g.phase \in Exits => Stage(n)' = 0
  BY <1>2 DEF Stage, Exits
<1>6. g.phase = "run" => Stage(n)' = 1
  BY <1>2 DEF Stage
<1>7. Smaller(Remainders'[n], Remainders[n])
  <2>1. CASE g.cost > Top.cost
    BY <1>2, <1>3, <2>1 DEF Spends, Smaller
  <2>2. CASE g.cost >= Top.cost /\ g.phase \in Exits
    <3>1. CASE g.cost > Top.cost
      BY <2>1, <3>1
    <3>2. CASE g.cost = Top.cost
      BY <1>2, <1>3, <1>4, <1>5, <2>2, <3>2 DEF Spends, Smaller
    <3> QED
      BY <1>3, <2>2, <3>1, <3>2
  <2>3. CASE g.cost = Top.cost /\ g.phase = "run" /\ GasLeft(g) < GasLeft(Top)
    BY <1>2, <1>4, <1>6, <2>3 DEF Spends, Smaller
  <2> QED
    BY <2>1, <2>2, <2>3 DEF Spends
<1>8. frames' \in Seq(Frame)
  BY DEF Inv
<1> QED
  BY <1>1, <1>2, <1>7, <1>8, LowersAtTop

\* Every function but finish, revert and useGas has a static cost.
LEMMA OthersCost ==
  ASSUME NEW fn \in EEIFunctions \ {"finish", "revert", "useGas"}
  PROVE  StaticCost[fn] > 0
BY DEF StaticCost

\* The engine's meter after a function: its charge, and nothing else that a
\* function does to the frame.
LEMMA CostAfter ==
  ASSUME NEW f, RunOK(f)
  PROVE  /\ Trap(f).cost = f.cost /\ Trap(f).msg = f.msg
         /\ Trap(f).phase = "trap"
         /\ \A c \in Nat :
              /\ ConsumeGas(f, c).cost = f.cost /\ ConsumeGas(f, c).msg = f.msg
              /\ Trap(ConsumeGas(f, c)).cost = f.cost
              /\ Trap(ConsumeGas(f, c)).msg = f.msg
BY DEF RunOK, OK, Frame, Trap, ConsumeGas

\* A function for which the engine charged spends, whatever it does.
LEMMA ChargedSpends ==
  ASSUME Inv, CostMeasuring, NEW fn, fn \notin {"finish", "revert", "useGas"},
         Invoke(fn), NEW g, g.msg = Top.msg, g.cost = Charged(Top, fn).cost
  PROVE  Running /\ Spends(g) /\ g.cost \in Int
<1>1. fn \in EEIFunctions /\ Running
  BY ImportsAssumption DEF Invoke
<1>2. StaticCost[fn] > 0 /\ StaticCost[fn] \in Nat
  BY <1>1, OthersCost, StaticCostNat
<1>3. Top \in Frame /\ Top.cost \in Nat
  BY <1>1, RunningFacts DEF RunOK, OK, Frame
<1>4. Charged(Top, fn).cost = Top.cost + StaticCost[fn]
  BY <1>3 DEF Charged, Frame
<1> QED
  BY <1>1, <1>2, <1>3, <1>4 DEF Spends

\* So does callContract, wherever it returns, and whatever it sends.
LEMMA CallSpends ==
  ASSUME Inv, CostMeasuring, NEW fn, fn \notin {"finish", "revert", "useGas"},
         Invoke(fn), NEW m, m \in Message, CallContract(Charged(Top, fn), m)
  PROVE  /\ UNCHANGED reply /\ Running
         /\ \E g : SetTop(g) /\ Spends(g) /\ g.cost \in Int
<1> DEFINE f == Charged(Top, fn)
<1>1. RunOK(f) /\ f.msg = Top.msg
  BY InvokeFacts
<1>2. SUFFICES \E g : SetTop(g) /\ g.msg = Top.msg /\ g.cost = f.cost
  BY ChargedSpends DEF CallContract, Invoke
<1>3. ASSUME NEW cost \in TransferCosts(m),
             \/ SetTop(Trap(ConsumeGas(f, cost)))
             \/ SetTop(ConsumeGas(f, cost))
             \/ SetTop(Send(ConsumeGas(f, cost), m, GasLeft(f)))
      PROVE  \E g : SetTop(g) /\ g.msg = Top.msg /\ g.cost = f.cost
  <2> DEFINE g == ConsumeGas(f, cost)
  <2>1. cost \in Nat
    BY DEF TransferCosts, TransferGas, NewAccountGas
  <2>2. g.cost = f.cost /\ g.msg = Top.msg /\ RunOK(g)
        /\ Trap(g).cost = f.cost /\ Trap(g).msg = Top.msg
    BY <1>1, <2>1, CostAfter, ConsumeGasOK
  <2>3. LET s == Send(g, m, GasLeft(f)) IN s.msg = Top.msg /\ s.cost = f.cost
    <3>1. m.gas \in Nat
      BY DEF Message
    <3>2. /\ ConsumeGas(g, m.gas).cost = f.cost
          /\ ConsumeGas(g, m.gas).msg = Top.msg
          /\ ConsumeGas(g, m.gas) \in Frame
      BY <2>2, <3>1, CostAfter, ConsumeGasOK DEF RunOK, OK
    <3> QED
      BY <3>2 DEF Send, Frame
  <2> QED
    BY <1>3, <2>2, <2>3
<1>4. CASE SetTop(f) \/ SetTop(Trap(f))
  BY <1>1, <1>4, CostAfter
<1> QED
  BY <1>3, <1>4 DEF CallContract

\* What a function that spends does to the remainders.
LEMMA SpenderLowers ==
  ASSUME Inv, Inv', Running, UNCHANGED reply,
         \E g : SetTop(g) /\ Spends(g) /\ g.cost \in Int
  PROVE  Lowers(Remainders, Remainders')
BY SpendingLowers

\* The functions that send a message are charged for.
LEMMA SendersLower ==
  ASSUME Inv, Inv', CostMeasuring,
         \/ EEICall \/ EEICallCode \/ EEICallDelegate \/ EEICallStatic
         \/ EEICreate \/ EEICreate2
  PROVE  Lowers(Remainders, Remainders')
<1>1. ASSUME NEW fn, fn \notin {"finish", "revert", "useGas"}, Invoke(fn),
             NEW m, Sendable(Charged(Top, fn), m),
             CallContract(Charged(Top, fn), m)
      PROVE  Lowers(Remainders, Remainders')
  <2>1. m \in Message
    BY <1>1 DEF Sendable
  <2> QED
    BY <1>1, <2>1, CallSpends, SpenderLowers
<1>2. ASSUME NEW fn, Invoke(fn), NEW kind \in Kind, NEW static \in BOOLEAN,
             static = TRUE \/ static = Charged(Top, fn).msg.static,
             NEW gas \in CallGas, NEW dest \in Address, NEW value \in Word
      PROVE  Sendable(Charged(Top, fn),
               CallMessage(Charged(Top, fn), kind, static, gas, dest, value))
  <2>1. RunOK(Charged(Top, fn)) /\ gas \in Nat
    BY <1>2, InvokeFacts, ArgumentsAssumption
  <2> QED
    BY <1>2, <2>1, CallMessageOK
<1>3. \A fn : Invoke(fn) => /\ RunOK(Charged(Top, fn))
                            /\ Charged(Top, fn).msg.static \in BOOLEAN
                            /\ CallValueEVMC(Charged(Top, fn)) \in Word
  BY InvokeFacts DEF RunOK, OK, Frame, Message, CallValueEVMC
<1>4. CASE EEICall
  <2>1. PICK gas \in CallGas, dest \in Address, value \in LoadedUInt128 :
          /\ Invoke("call")
          /\ CallContract(Charged(Top, "call"),
               CallMessage(Charged(Top, "call"), "CALL",
                           Charged(Top, "call").msg.static, gas, dest, value))
    BY <1>4 DEF EEICall
  <2>2. value \in Word /\ "CALL" \in Kind
    BY MessageValues DEF Kind
  <2> QED
    BY <1>1, <1>2, <1>3, <2>1, <2>2
<1>5. CASE EEICallCode
  <2>1. PICK gas \in CallGas, dest \in Address, value \in LoadedUInt128 :
          /\ Invoke("callCode")
          /\ CallContract(Charged(Top, "callCode"),
               CallMessage(Charged(Top, "callCode"), "CALLCODE",
                           Charged(Top, "callCode").msg.static,
                           gas, dest, value))
    BY <1>5 DEF EEICallCode
  <2>2. value \in Word /\ "CALLCODE" \in Kind
    BY MessageValues DEF Kind
  <2> QED
    BY <1>1, <1>2, <1>3, <2>1, <2>2
<1>6. CASE EEICallDelegate
  <2> DEFINE f == Charged(Top, "callDelegate")
  <2>1. PICK gas \in CallGas, dest \in Address :
          /\ Invoke("callDelegate")
          /\ CallContract(f, CallMessage(f, "DELEGATECALL", f.msg.static, gas,
                                         dest, CallValueEVMC(f)))
    BY <1>6 DEF EEICallDelegate
  <2>2. "DELEGATECALL" \in Kind
    BY DEF Kind
  <2> QED
    BY <1>1, <1>2, <1>3, <2>1, <2>2
<1>7. CASE EEICallStatic
  <2> DEFINE f == Charged(Top, "callStatic")
  <2>1. Invoke("callStatic") /\ RunOK(f) /\ f.msg = Top.msg
    BY <1>7, InvokeFacts DEF EEICallStatic
  <2>2. CASE KeccakPrecompile(f)
    <3>1. PICK n \in CopyLengths :
            /\ UNCHANGED reply
            /\ \/ SetTop(Trap(ConsumeGas(f, CopyCost(n))))
               \/ SetTop([ConsumeGas(f, CopyCost(n))
                            EXCEPT !.returnData = Digest])
      BY <2>2 DEF KeccakPrecompile
    <3> DEFINE g == ConsumeGas(f, CopyCost(n))
               h == [g EXCEPT !.returnData = Digest]
    <3>2. CopyCost(n) \in Nat
      BY ArgumentsAssumption DEF CopyCost
    <3>3. /\ RunOK(g) /\ g.cost = f.cost /\ g.msg = Top.msg
          /\ Trap(g).cost = f.cost /\ Trap(g).msg = Top.msg
      BY <2>1, <3>2, CostAfter, ConsumeGasOK
    <3>4. h.cost = f.cost /\ h.msg = Top.msg
      BY <3>3 DEF RunOK, OK, Frame
    <3>5. \E k : SetTop(k) /\ k.msg = Top.msg /\ k.cost = f.cost
      BY <3>1, <3>3, <3>4
    <3> QED
      BY <2>1, <3>1, <3>5, ChargedSpends, SpenderLowers
  <2>3. CASE ~KeccakPrecompile(f)
    <3>1. PICK gas \in CallGas, dest \in Address :
            CallContract(f, CallMessage(f, "CALL", TRUE, gas, dest, ZeroWord))
      BY <1>7, <2>3 DEF EEICallStatic
    <3>2. "CALL" \in Kind /\ TRUE \in BOOLEAN
      BY DEF Kind
    <3>3. Sendable(f, CallMessage(f, "CALL", TRUE, gas, dest, ZeroWord))
      BY <1>2, <2>1, <3>2, MessageValues
    <3> QED
      BY <1>1, <2>1, <3>1, <3>3
  <2> QED
    BY <2>2, <2>3
<1>8. CASE EEICreate
  <2>1. PICK value \in LoadedUInt128 :
          /\ Invoke("create")
          /\ CallContract(Charged(Top, "create"),
               CreateMessage(Charged(Top, "create"), "CREATE", value))
    BY <1>8 DEF EEICreate
  <2> QED
    BY <1>1, <1>3, <2>1, CreateMessageOK, MessageValues
<1>9. CASE EEICreate2
  <2>1. PICK value \in LoadedUInt128 :
          /\ Invoke("create2")
          /\ CallContract(Charged(Top, "create2"),
               CreateMessage(Charged(Top, "create2"), "CREATE2", value))
    BY <1>9 DEF EEICreate2
  <2> QED
    BY <1>1, <1>3, <2>1, CreateMessageOK, MessageValues
<1> QED
  BY <1>4, <1>5, <1>6, <1>7, <1>8, <1>9

\* So are the functions that read, copy, log, store or destruct.
LEMMA WorkersLower ==
  ASSUME Inv, Inv', CostMeasuring,
         \/ \E fn \in CopyFunctions : Copying(fn)
         \/ \E fn \in Getters \cup {"storageLoad"} : Reading(fn)
         \/ EEILog \/ EEIStorageStore \/ EEISelfDestruct
  PROVE  Lowers(Remainders, Remainders')
<1>1. ASSUME NEW fn, fn \notin {"finish", "revert", "useGas"}, Invoke(fn),
             NEW c \in Nat,
             LET f == Charged(Top, fn)
                 g == ConsumeGas(f, c)
             IN \/ SetTop(f) \/ SetTop(Trap(f)) \/ SetTop(g) \/ SetTop(Trap(g))
                \/ SetTop([g EXCEPT !.phase = "stopped"]),
             UNCHANGED reply
      PROVE  Lowers(Remainders, Remainders')
  <2> DEFINE f == Charged(Top, fn)
             g == ConsumeGas(f, c)
             h == [g EXCEPT !.phase = "stopped"]
  <2>1. RunOK(f) /\ f.msg = Top.msg
    BY <1>1, InvokeFacts
  <2>2. /\ Trap(f).cost = f.cost /\ Trap(f).msg = Top.msg
        /\ RunOK(g) /\ g.cost = f.cost /\ g.msg = Top.msg
        /\ Trap(g).cost = f.cost /\ Trap(g).msg = Top.msg
    BY <2>1, CostAfter, ConsumeGasOK
  <2>3. h.cost = f.cost /\ h.msg = Top.msg
    BY <2>2 DEF RunOK, OK, Frame
  <2>4. \E k : SetTop(k) /\ k.msg = Top.msg /\ k.cost = f.cost
    BY <1>1, <2>1, <2>2, <2>3
  <2>5. Running /\ \E k : SetTop(k) /\ Spends(k) /\ k.cost \in Int
    BY <1>1, <2>4, ChargedSpends
  <2> QED
    BY <1>1, <2>5, SpenderLowers
<1>2. ASSUME NEW fn \in CopyFunctions, Copying(fn)
      PROVE  Lowers(Remainders, Remainders')
  <2>1. PICK n \in CopyLengths :
          /\ Invoke(fn) /\ UNCHANGED reply
          /\ Consume(Charged(Top, fn), CopyCost(n))
    BY <1>2 DEF Copying
  <2>2. CopyCost(n) \in Nat /\ fn \notin {"finish", "revert", "useGas"}
    BY ArgumentsAssumption DEF CopyCost, CopyFunctions
  <2> QED
    BY <1>1, <2>1, <2>2 DEF Consume
<1>3. ASSUME NEW fn \in Getters \cup {"storageLoad"}, Reading(fn)
      PROVE  Lowers(Remainders, Remainders')
  <2>1. fn \notin {"finish", "revert", "useGas"} /\ 0 \in Nat
    BY DEF Getters
  <2> QED
    BY <1>1, <1>3, <2>1 DEF Reading
<1>4. CASE EEILog
  <2>1. PICK topics \in LogTopics, n \in LogLengths :
          LET f == Charged(Top, "log")
              g == ConsumeGas(f, LogCost(topics, n))
          IN /\ Invoke("log") /\ UNCHANGED reply
             /\ SetTop(Trap(f)) \/ SetTop(Trap(g)) \/ SetTop(g)
    BY <1>4 DEF EEILog
  <2>2. LogCost(topics, n) \in Nat
    BY ArgumentsAssumption DEF LogCost
  <2> QED
    BY <1>1, <2>1, <2>2
<1>5. CASE EEIStorageStore
  <2> DEFINE f == Charged(Top, "storageStore")
  <2>1. PICK nonzero \in BOOLEAN :
          LET g == ConsumeGas(f, StoreCost(f.msg.dest, nonzero))
          IN /\ Invoke("storageStore") /\ UNCHANGED reply
             /\ SetTop(Trap(f)) \/ SetTop(Trap(g)) \/ SetTop(g)
    BY <1>5 DEF EEIStorageStore
  <2>2. StoreCost(f.msg.dest, nonzero) \in Nat
    BY DEF StoreCost, CreateSlotGas
  <2> QED
    BY <1>1, <2>1, <2>2
<1>6. CASE EEISelfDestruct
  <2>1. PICK cost \in {0, NewAccountGas} :
          LET f == Charged(Top, "selfDestruct")
              g == ConsumeGas(f, cost)
          IN /\ Invoke("selfDestruct") /\ UNCHANGED reply
             /\ \/ SetTop(Trap(f)) \/ SetTop(Trap(g))
                \/ SetTop([g EXCEPT !.phase = "stopped"])
    BY <1>6 DEF EEISelfDestruct
  <2>2. cost \in Nat
    BY DEF NewAccountGas
  <2> QED
    BY <1>1, <2>1, <2>2
<1> QED
  BY <1>2, <1>3, <1>4, <1>5, <1>6

\* An execution that ends has nothing more to do, though nothing is charged.
LEMMA EndersLower ==
  ASSUME Inv, Inv',
         EEIFinish \/ EEIRevert \/ CodeReturns \/ CodeTraps \/ OutOfCost
  PROVE  Lowers(Remainders, Remainders')
<1>1. ASSUME Running, UNCHANGED reply, NEW f, RunOK(f), f.msg = Top.msg,
             f.cost >= Top.cost, NEW data \in Bytes,
             \/ SetTop(Trap(f))
             \/ SetTop(Trap([f EXCEPT !.returnData = Empty]))
             \/ SetTop([f EXCEPT !.phase = "stopped"])
             \/ SetTop([f EXCEPT !.returnData = data, !.phase = "finished"])
             \/ SetTop([f EXCEPT !.returnData = data, !.phase = "finished",
                                 !.isRevert = TRUE])
      PROVE  Lowers(Remainders, Remainders')
  <2> DEFINE e == [f EXCEPT !.returnData = Empty]
             d == [f EXCEPT !.returnData = data, !.phase = "finished"]
             r == [f EXCEPT !.returnData = data, !.phase = "finished",
                            !.isRevert = TRUE]
             q == [f EXCEPT !.phase = "stopped"]
             Over(g) == /\ g.msg = Top.msg /\ g.cost = f.cost
                        /\ g.phase \in Exits
  <2>1. f.cost \in Int /\ RunOK(e) /\ e.msg = f.msg /\ e.cost = f.cost
    BY <1>1, BytesAssumption DEF RunOK, OK, Frame
  <2>2. Over(Trap(f)) /\ Over(Trap(e))
    BY <1>1, <2>1, CostAfter DEF Exits
  <2>3. Over(d) /\ Over(r) /\ Over(q)
    BY <1>1 DEF RunOK, OK, Frame, Exits
  <2>4. \E g : SetTop(g) /\ Over(g)
    BY <1>1, <2>2, <2>3
  <2>5. ASSUME NEW g, Over(g) PROVE Spends(g) /\ g.cost \in Int
    BY <1>1, <2>1, <2>5 DEF Spends
  <2> HIDE DEF Over
  <2> QED
    BY <1>1, <2>4, <2>5, SpenderLowers
<1>2. ASSUME NEW fn, Invoke(fn)
      PROVE  /\ Running /\ RunOK(Charged(Top, fn))
             /\ Charged(Top, fn).msg = Top.msg
             /\ Charged(Top, fn).cost >= Top.cost
  <2>1. Running /\ RunOK(Top) /\ fn \in EEIFunctions
    BY <1>2, RunningFacts, ImportsAssumption DEF Invoke
  <2>2. Top \in Frame /\ Top.cost \in Nat /\ StaticCost[fn] \in Nat
    BY <2>1, StaticCostNat DEF RunOK, OK, Frame
  <2>3. Charged(Top, fn).cost >= Top.cost
    BY <2>2 DEF Charged, Frame
  <2> QED
    BY <1>2, <2>3, InvokeFacts
<1>3. CASE EEIFinish
  <2> DEFINE f == Charged(Top, "finish")
  <2>1. PICK data \in Bytes :
          /\ Invoke("finish") /\ UNCHANGED reply
          /\ \/ SetTop(Trap([f EXCEPT !.returnData = Empty]))
             \/ SetTop([f EXCEPT !.returnData = data, !.phase = "finished"])
    BY <1>3, BytesAssumption DEF EEIFinish
  <2> QED
    BY <1>1, <1>2, <2>1
<1>4. CASE EEIRevert
  <2> DEFINE f == Charged(Top, "revert")
  <2>1. PICK data \in Bytes :
          /\ Invoke("revert") /\ UNCHANGED reply
          /\ \/ SetTop(Trap([f EXCEPT !.returnData = Empty]))
             \/ SetTop([f EXCEPT !.returnData = data, !.phase = "finished",
                                 !.isRevert = TRUE])
    BY <1>4, BytesAssumption DEF EEIRevert
  <2> QED
    BY <1>1, <1>2, <2>1
<1>6. CASE CodeReturns \/ CodeTraps
  <2>1. Running /\ RunOK(Top) /\ Top.cost >= Top.cost /\ Empty \in Bytes
    <3>1. Running /\ RunOK(Top)
      BY <1>6, RunningFacts DEF CodeReturns, CodeTraps
    <3>2. Top.cost \in Nat
      BY <3>1 DEF RunOK, OK, Frame
    <3> QED
      BY <3>1, <3>2, BytesAssumption
  <2> QED
    BY <1>1, <1>6, <2>1 DEF CodeReturns, CodeTraps
<1>7. CASE OutOfCost
  <2> DEFINE f == [Top EXCEPT !.cost = Top.msg.gas]
  <2>1. Running /\ RunOK(Top) /\ UNCHANGED reply /\ SetTop(Trap(f))
    BY <1>7, RunningFacts DEF OutOfCost
  <2>2. RunOK(f) /\ f.msg = Top.msg /\ f.cost >= Top.cost
    BY <2>1 DEF RunOK, OK, Frame, Message
  <2> QED
    BY <1>1, <2>1, <2>2, BytesAssumption
<1> QED
  BY <1>3, <1>4, <1>6, <1>7

\* useGas takes what it is given, or ends the execution; given zero it
\* changes nothing.
LEMMA UseGasLowers ==
  ASSUME Inv, Inv', EEIUseGas
  PROVE  Lowers(Remainders, Remainders') \/ UNCHANGED vars
<1> DEFINE f == Charged(Top, "useGas")
<1>1. PICK gas \in UseGasAmounts :
        /\ Invoke("useGas") /\ UNCHANGED <<reply, world>>
        /\ LET g == ConsumeGas(f, gas) IN
           SetTop(IF HasGas(f, gas) THEN g ELSE Trap(g))
  BY DEF EEIUseGas
<1> DEFINE g == ConsumeGas(f, gas)
<1>2. gas \in Nat /\ Running /\ RunOK(Top) /\ frames # <<>>
  BY <1>1, ArgumentsAssumption, RunningFacts DEF Invoke
<1>3. Top \in Frame /\ Top.cost \in Int
      /\ Top.msg.gas \in Nat /\ Top.used \in Nat /\ Top.phase = "run"
  BY <1>2 DEF RunOK, OK, Frame, Message
<1>4. StaticCost["useGas"] = 0
  BY DEF StaticCost, EEIFunctions, CopyFunctions
<1>5. f = Top
  BY <1>3, <1>4 DEF Charged, Frame
<1>6. /\ g.cost = Top.cost /\ g.msg = Top.msg /\ RunOK(g)
      /\ Trap(g).cost = Top.cost /\ Trap(g).msg = Top.msg
      /\ Trap(g).phase = "trap"
  BY <1>2, <1>5, CostAfter, ConsumeGasOK
<1>7. CASE HasGas(f, gas) /\ gas > 0
  <2>1. GasLeft(g) < GasLeft(Top) /\ g.phase = "run"
    <3>1. GasLeft(g) = GasLeft(Top) - gas
      BY <1>2, <1>5, <1>7, ConsumeGasOK
    <3>2. GasLeft(Top) \in Int
      BY <1>3 DEF GasLeft
    <3> QED
      BY <1>2, <1>6, <1>7, <3>1, <3>2 DEF RunOK
  <2>2. Spends(g)
    BY <1>6, <2>1 DEF Spends
  <2> QED
    BY <1>1, <1>2, <1>3, <1>6, <1>7, <2>2, SpendingLowers
<1>8. CASE ~HasGas(f, gas)
  <2>1. Spends(Trap(g))
    BY <1>3, <1>6 DEF Spends, Exits
  <2> QED
    BY <1>1, <1>2, <1>3, <1>6, <1>8, <2>1, SpendingLowers
<1>9. CASE HasGas(f, gas) /\ gas = 0
  <2>1. g = Top
    BY <1>3, <1>5, <1>9 DEF ConsumeGas, Frame
  <2>2. frames' = [frames EXCEPT ![Len(frames)] = Top]
    BY <1>1, <1>9, <2>1 DEF SetTop
  <2>3. Len(frames) \in DOMAIN frames /\ Top = frames[Len(frames)]
    BY <1>2, TopFacts, DepthsAreLevels DEF Depths
  <2>4. frames' = frames
    BY <2>2, <2>3, LenProperties DEF Inv
  <2> QED
    BY <1>1, <2>4 DEF vars, world
<1> QED
  BY <1>2, <1>7, <1>8, <1>9

\* The caller that was waiting for its host goes on, or fails, with the
\* engine's meter as it was.
LEMMA CallReturnsLowers ==
  ASSUME Inv, Inv', CallReturns
  PROVE  Lowers(Remainders, Remainders')
<1> DEFINE n == Len(frames)
<1>1. /\ frames # <<>> /\ reply # NoResult /\ OK(Top) /\ Top.phase = "call"
      /\ n \in Nat \ {0} /\ Top = frames[n] /\ reply \in Result
  BY TopFacts DEF CallReturns, Inv
<1>2. Stage(n) = 2
  BY <1>1 DEF Stage
<1>3. Top \in Frame /\ reply.gasLeft \in Int
  BY <1>1 DEF OK, Result
<1>4. PICK g : SetTop(g) /\ g.msg = Top.msg /\ g.cost = Top.cost
               /\ g.phase \in {"run", "trap"}
  <2> DEFINE h == ReturnGas(Top, reply.gasLeft)
  <2>1. ASSUME NEW k \in {Top, h}
        PROVE  /\ Trap(k).msg = Top.msg /\ Trap(k).cost = Top.cost
               /\ Trap(k).phase = "trap"
    BY <1>3 DEF Trap, ReturnGas, Frame
  <2>2. ASSUME NEW data
        PROVE  /\ Resume(h, data).msg = Top.msg
               /\ Resume(h, data).cost = Top.cost
               /\ Resume(h, data).phase = "run"
    BY <1>3 DEF Resume, ReturnGas, Frame
  <2>3. \/ SetTop(Trap(Top)) \/ SetTop(Trap(h))
        \/ \E data : SetTop(Resume(h, data))
    BY DEF CallReturns
  <2> QED
    BY <2>1, <2>2, <2>3
<1>5. /\ Remainders[n] = <<Top.msg.gas - Top.cost, Stage(n), GasLeft(Top)>>
      /\ Remainders'[n] = <<g.msg.gas - g.cost, Stage(n)', GasLeft(g)>>
      /\ frames'[n] = g
      /\ Len(frames') = n
      /\ \A j \in 1..n - 1 : frames'[j] = frames[j]
  BY <1>1, <1>4, TopRemainder, NewTopRemainder
<1>6. Stage(n)' \in {0, 1}
  BY <1>4, <1>5 DEF Stage
<1>7. Smaller(Remainders'[n], Remainders[n])
  BY <1>2, <1>4, <1>5, <1>6 DEF Smaller
<1>8. frames' \in Seq(Frame)
  BY DEF Inv
<1> QED
  BY <1>1, <1>5, <1>7, <1>8, LowersAtTop

\* The waiting caller has its answer.
LEMMA HostAnswersLowers ==
  ASSUME Inv, HostAnswers
  PROVE  Lowers(Remainders, Remainders')
<1>1. PICK n \in Nat \ {0} :
        /\ n = Len(frames) /\ frames # <<>> /\ Top.phase = "call"
        /\ reply = NoResult /\ Top = frames[n] /\ frames' = frames
        /\ frames \in Seq(Frame)
  BY TopFacts DEF HostAnswers, Calling, Inv
<1>2. reply' # NoResult
  BY DEF HostAnswers, NoResult
<1>3. Stage(n) = 3 /\ Stage(n)' = 2
  BY <1>1, <1>2 DEF Stage
<1>4. Depths = 1..n /\ Depths' = 1..n
  BY <1>1, DepthsAreLevels DEF Depths
<1>5. n \in Depths /\ n \in Depths'
  BY <1>1, <1>4
<1>6. /\ Remainders[n] = <<Top.msg.gas - Top.cost, 3, GasLeft(Top)>>
      /\ Remainders'[n] = <<Top.msg.gas - Top.cost, 2, GasLeft(Top)>>
  <2>1. Remainders'[n] = <<frames'[n].msg.gas - frames'[n].cost, Stage(n)',
                           GasLeft(frames'[n])>>
    BY <1>5 DEF Remainders
  <2>2. frames'[n] = Top
    BY <1>1
  <2>3. Remainders[n] = <<Top.msg.gas - Top.cost, Stage(n), GasLeft(Top)>>
    BY <1>1, <1>5 DEF Remainders
  <2> QED
    BY <1>3, <2>1, <2>2, <2>3
<1>7. Smaller(Remainders'[n], Remainders[n])
  BY <1>6 DEF Smaller
<1> QED
  BY <1>1, <1>7, LowersAtTop

\* The host runs the message: the lower executions wait as before.
LEMMA HostExecutesLowers ==
  ASSUME Inv, Inv', HostExecutes
  PROVE  Lowers(Remainders, Remainders')
<1>1. PICK n \in Nat \ {0} :
        /\ n = Len(frames) /\ frames # <<>> /\ Top.phase = "call"
        /\ reply = NoResult /\ Top = frames[n] /\ frames \in Seq(Frame)
        /\ reply' = reply
  BY TopFacts DEF HostExecutes, Calling, Inv
<1>2. PICK g \in Frame : frames' = Append(frames, g)
  <2>1. ~Running /\ ~CallReturns /\ ~Return /\ frames # <<>>
    BY <1>1 DEF Running, CallReturns, Return, Exits
  <2>2. ~UNCHANGED frames
    <3>1. PICK g : frames' = Append(frames, g)
      BY DEF HostExecutes
    <3> QED
      BY <1>1, <3>1
  <2> QED
    BY <2>1, <2>2, StackStep DEF Next
<1>3. /\ Len(frames') = n + 1
      /\ \A j \in 1..n : frames'[j] = frames[j]
  BY <1>1, <1>2, AppendProperties
<1>4. Depths = 1..n /\ Depths' = 1..n + 1
  <2>1. frames' \in Seq(Frame)
    BY DEF Inv
  <2>2. Depths' = 1..Len(frames')
    BY <2>1, LenProperties DEF Depths
  <2> QED
    BY <1>1, <1>3, <2>2, DepthsAreLevels
<1>5. ASSUME NEW j \in 1..n PROVE frames[j].phase = "call"
  <2>1. j < n => j \in 1..n - 1
    BY <1>5
  <2> QED
    BY <1>1, <1>5, <2>1 DEF Inv, Linked
<1>6. ASSUME NEW j \in 1..n PROVE Remainders'[j] = Remainders[j]
  <2>1. frames'[j] = frames[j] /\ frames[j].phase = "call"
    BY <1>3, <1>5
  <2>2. Stage(j) = 3
    BY <1>1, <2>1 DEF Stage
  <2>3. Stage(j)' = 3
    BY <1>1, <2>1 DEF Stage
  <2>4. j \in 1..n + 1
    BY <1>6
  <2> QED
    BY <1>4, <2>1, <2>2, <2>3, <2>4 DEF Remainders
<1>7. DOMAIN Remainders = 1..n /\ DOMAIN Remainders' = 1..n + 1
  BY <1>4 DEF Remainders
<1>8. n + 1 \in 1..n + 1 /\ n + 1 \notin 1..n
  OBVIOUS
<1>9. \A j \in 1..n + 1 - 1 : j \in 1..n /\ Remainders'[j] = Remainders[j]
  BY <1>6
<1> QED
  BY <1>7, <1>8, <1>9 DEF Lowers

\* An execution ends: the one below it has its answer.
LEMMA ReturnLowers ==
  ASSUME Inv, Inv', Return, frames' # <<>>
  PROVE  Lowers(Remainders, Remainders')
<1> DEFINE n == Len(frames)
<1>1. /\ frames # <<>> /\ n \in Nat \ {0} /\ frames \in Seq(Frame) /\ OK(Top)
  BY TopFacts DEF Return, Inv
<1>2. /\ frames' \in Seq(Frame) /\ Len(frames') = n - 1
      /\ \A i \in 1..n - 1 : frames'[i] = frames[i]
  <2>1. \A i \in 1..n - 1 : frames[i] \in Frame
    BY <1>1, ElementOfSeq
  <2>2. frames' = SubSeq(frames, 1, n - 1)
    BY DEF Return
  <2>3. 1 \in Int /\ n - 1 \in Int
    BY <1>1
  <2> HIDE DEF n
  <2>4. /\ SubSeq(frames, 1, n - 1) \in Seq(Frame)
        /\ Len(SubSeq(frames, 1, n - 1)) =
             IF 1 <= n - 1 THEN n - 1 - 1 + 1 ELSE 0
        /\ \A i \in 1 .. n - 1 - 1 + 1 :
             SubSeq(frames, 1, n - 1)[i] = frames[1 + i - 1]
    BY <2>1, <2>3, SubSeqProperties
  <2> QED
    BY <1>1, <2>2, <2>4
<1>3. n - 1 \in Nat \ {0}
  BY <1>1, <1>2, EmptySeq
<1>4. Depths = 1..n /\ Depths' = 1..n - 1
  BY <1>2, DepthsAreLevels, LenProperties DEF Depths
<1>5. \A i \in 1..n - 1 : frames[i].phase = "call"
  BY DEF Inv, Linked
<1>6. reply' # NoResult
  BY <1>1, ResultOfOK DEF Return, Result, NoResult, Status
<1> DEFINE m == n - 1
<1>7. ASSUME NEW i \in 1..m
      PROVE  /\ i \in 1..n
             /\ Remainders[i] = <<frames[i].msg.gas - frames[i].cost, 3,
                                  GasLeft(frames[i])>>
             /\ Remainders'[i] = <<frames[i].msg.gas - frames[i].cost,
                                   IF i = m THEN 2 ELSE 3, GasLeft(frames[i])>>
  <2>1. i \in 1..n /\ i # n
    <3> HIDE DEF n
    <3> QED
      BY <1>1, <1>3
  <2>2. frames'[i] = frames[i] /\ frames[i].phase = "call"
    BY <1>2, <1>5
  <2>3. Stage(i) = 3
    BY <2>1, <2>2 DEF Stage
  <2>4. Stage(i)' = IF i = m THEN 2 ELSE 3
    <3>1. CASE i = m
      BY <1>2, <1>6, <2>2, <3>1 DEF Stage
    <3>2. CASE i # m
      BY <1>2, <2>2, <3>2 DEF Stage
    <3> QED
      BY <3>1, <3>2
  <2> QED
    BY <1>4, <2>1, <2>2, <2>3, <2>4 DEF Remainders
<1>8. DOMAIN Remainders = 1..n /\ DOMAIN Remainders' = 1..m
  BY <1>4 DEF Remainders
<1> HIDE DEF m
<1>9. m \in Nat \ {0}
  BY <1>3 DEF m
<1>10. Smaller(Remainders'[m], Remainders[m]) /\ m \in 1..m
  BY <1>7, <1>9 DEF Smaller
<1>11. \A j \in 1..m - 1 : j \in 1..m /\ Remainders'[j] = Remainders[j]
  <2>1. \A j \in 1..m - 1 : j \in 1..m /\ j # m
    BY <1>9
  <2> QED
    BY <1>7, <2>1
<1> QED
  BY <1>7, <1>8, <1>10, <1>11 DEF Lowers

\* Every step of a metered execution lowers the remainders, until the
\* client's execution ends.
THEOREM CallsAreUsedUp == Spec => CallsUseUp
<1>1. ASSUME Inv, Inv', Next, CostMeasuring, frames' # <<>>
      PROVE  Lowers(Remainders, Remainders') \/ UNCHANGED vars
  <2>1. CASE Execute
    <3>1. frames = <<>> /\ frames' \in Seq(Frame) /\ frames \in Seq(Frame)
      BY <1>1, <2>1 DEF Execute, Inv
    <3>2. Len(frames') \in Nat \ {0}
      BY <1>1, <3>1, EmptySeq, LenProperties
    <3>3. Depths' = 1..Len(frames') /\ Depths = 1..0
      BY <3>1, LenProperties DEF Depths
    <3>4. 1 \in DOMAIN Remainders' /\ 1 \notin DOMAIN Remainders
      BY <3>2, <3>3 DEF Remainders
    <3> QED
      BY <3>4 DEF Lowers
  <2>2. CASE EEIStep
    <3>1. CASE \/ EEICall \/ EEICallCode \/ EEICallDelegate
               \/ EEICallStatic \/ EEICreate \/ EEICreate2
      BY <1>1, <3>1, SendersLower
    <3>2. CASE CallReturns
      BY <1>1, <3>2, CallReturnsLowers
    <3>3. CASE \/ EEICallDataCopy \/ EEICodeCopy \/ EEIExternalCodeCopy
               \/ EEIReturnDataCopy \/ EEIGet \/ EEIStorageLoad
               \/ EEILog \/ EEIStorageStore \/ EEISelfDestruct
      BY <1>1, <3>3, WorkersLower
      DEF EEICallDataCopy, EEICodeCopy, EEIExternalCodeCopy,
          EEIReturnDataCopy, EEIGet, EEIStorageLoad, CopyFunctions
    <3>4. CASE EEIUseGas
      BY <1>1, <3>4, UseGasLowers
    <3>5. CASE EEIFinish \/ EEIRevert \/ OutOfCost
      BY <1>1, <3>5, EndersLower
    <3> QED
      BY <2>2, <3>1, <3>2, <3>3, <3>4, <3>5 DEF EEIStep
  <2>3. CASE CodeReturns \/ CodeTraps
    BY <1>1, <2>3, EndersLower
  <2>4. CASE HostExecutes
    BY <1>1, <2>4, HostExecutesLowers
  <2>5. CASE HostAnswers
    BY <1>1, <2>5, HostAnswersLowers
  <2>6. CASE Return
    BY <1>1, <2>6, ReturnLowers
  <2> QED
    BY <1>1, <2>1, <2>2, <2>3, <2>4, <2>5, <2>6 DEF Next
<1>2. ASSUME Inv, Inv', [Next]_vars
      PROVE  [CostMeasuring /\ frames' # <<>> =>
                Lowers(Remainders, Remainders')]_vars
  BY <1>1, <1>2
<1> QED
  BY <1>2, Invariance, PTL DEF Spec, CallsUseUp

-----------------------------------------------------------------------------
(* Remainders cannot be lowered for ever.                                  *)

Remainder == Nat \X (0..3) \X Nat

\* The remainders of up to n executions.
Stacks(n) == UNION {[1..k -> Remainder] : k \in 0..n}

\* What is lower, as a relation.
LowerThan == {p \in Stacks(MaxDepth + 1) \X Stacks(MaxDepth + 1) :
                Lowers(p[2], p[1])}

\* The remainders of a reachable state are among them: the meters are within
\* their limits, and depth starts at 0 and ends at 1024.
THEOREM RemaindersAreBounded == Spec => [](Remainders \in Stacks(MaxDepth + 1))
<1>1. ASSUME Inv PROVE Remainders \in Stacks(MaxDepth + 1)
  <2> DEFINE n == Len(frames)
  <2>1. n \in Nat /\ Depths = 1..n
    BY <1>1, DepthsAreLevels
  <2>2. n \in 0..MaxDepth + 1
    <3>1. CASE n # 0
      <4>1. 1 \in 1..n /\ n \in 1..n
        BY <2>1, <3>1
      <4>2. OK(frames[1]) /\ OK(frames[n])
        BY <1>1, <4>1 DEF Inv
      <4>3. frames[n].msg.depth = frames[1].msg.depth + n - 1
        BY <1>1, <4>1 DEF Inv
      <4>4. frames[1].msg.depth \in Nat /\ frames[n].msg.depth <= MaxDepth
        BY <4>2 DEF OK, Frame, Message
      <4>5. n \in Nat
        BY <2>1
      <4> HIDE DEF n
      <4>6. frames[1].msg.depth + n - 1 <= 1024
        BY <4>3, <4>4 DEF MaxDepth
      <4>7. n <= 1025
        BY <4>4, <4>5, <4>6
      <4> QED
        BY <4>5, <4>7 DEF MaxDepth
    <3>2. CASE n = 0
      BY <3>2 DEF MaxDepth
    <3> QED
      BY <3>1, <3>2
  <2>3. ASSUME NEW i \in Depths PROVE Remainders[i] \in Remainder
    <3>1. OK(frames[i])
      BY <1>1, <2>1, <2>3 DEF Inv
    <3>2. frames[i].msg.gas - frames[i].cost \in Nat /\ GasLeft(frames[i]) \in Nat
      BY <3>1 DEF OK, Frame, Message, GasLeft
    <3>3. Stage(i) \in 0..3
      BY DEF Stage
    <3> QED
      BY <2>3, <3>2, <3>3 DEF Remainders, Remainder
  <2>4. Remainders \in [1..n -> Remainder]
    BY <2>1, <2>3 DEF Remainders
  <2> HIDE DEF n
  <2> QED
    BY <2>2, <2>4 DEF Stacks
<1> QED
  BY <1>1, Invariance, PTL

\* A set of remainders that is not empty has one with no smaller one.
LEMMA LeastRemainder ==
  ASSUME NEW H, H \subseteq Remainder, H # {}
  PROVE  \E h \in H : \A g \in H : ~Smaller(g, h)
<1> DEFINE A == {h[1] : h \in H}
<1>1. A \subseteq Nat /\ A # {}
  BY DEF Remainder
<1>2. PICK a \in A : \A x \in A : ~(x < a)
  BY <1>1, LeastNumber
<1> DEFINE HA == {h \in H : h[1] = a}
           B == {h[2] : h \in HA}
<1>3. B \subseteq Nat /\ B # {}
  BY <1>2 DEF Remainder
<1>4. PICK b \in B : \A x \in B : ~(x < b)
  BY <1>3, LeastNumber
<1> DEFINE HB == {h \in HA : h[2] = b}
           C == {h[3] : h \in HB}
<1>5. C \subseteq Nat /\ C # {}
  BY <1>4 DEF Remainder
<1>6. PICK c \in C : \A x \in C : ~(x < c)
  BY <1>5, LeastNumber
<1>7. PICK h \in HB : h[3] = c
  BY <1>6
<1>8. ASSUME NEW g \in H, Smaller(g, h) PROVE FALSE
  <2>1. h[1] = a /\ h[2] = b /\ g[1] \in A
    BY <1>7, <1>8
  <2>2. CASE g[1] < h[1]
    BY <1>2, <2>1, <2>2
  <2>3. CASE g[1] = h[1] /\ g[2] < h[2]
    <3>1. g[2] \in B
      BY <2>1, <2>3
    <3> QED
      BY <1>4, <2>1, <2>3, <3>1
  <2>4. CASE g[1] = h[1] /\ g[2] = h[2] /\ g[3] < h[3]
    <3>1. g \in HA
      BY <2>1, <2>4
    <3>2. g \in HB
      BY <2>1, <2>4, <3>1
    <3>3. g[3] \in C
      BY <3>2
    <3> QED
      BY <1>6, <1>7, <2>4, <3>3
  <2> QED
    BY <1>8, <2>2, <2>3, <2>4 DEF Smaller
<1> QED
  BY <1>7, <1>8

\* The remainders without the outermost execution's.
Rest(s) == [i \in {j \in Nat \ {0} : j + 1 \in DOMAIN s} |-> s[i + 1]]

\* One execution less, and the others one place lower.
LEMMA RestIsShorter ==
  ASSUME NEW k \in Nat, NEW s \in [1..k + 1 -> Remainder]
  PROVE  Rest(s) \in [1..k -> Remainder] /\ DOMAIN Rest(s) = 1..k
         /\ \A i \in 1..k : i + 1 \in 1..k + 1 /\ Rest(s)[i] = s[i + 1]
<1>1. {j \in Nat \ {0} : j + 1 \in DOMAIN s} = 1..k
  OBVIOUS
<1>2. \A i \in 1..k : i + 1 \in 1..k + 1
  OBVIOUS
<1> QED
  BY <1>1, <1>2 DEF Rest

\* With equal outermost remainders the others are compared.
LEMMA RestsAreCompared ==
  ASSUME NEW k \in Nat, NEW l \in Nat, NEW s \in [1..k + 1 -> Remainder],
         NEW t \in [1..l + 1 -> Remainder],
         Lowers(s, t), ~Smaller(t[1], s[1])
  PROVE  t[1] = s[1] /\ Lowers(Rest(s), Rest(t))
<1>1. PICK i \in 1..l + 1 :
        /\ \A j \in 1..i - 1 : j \in 1..k + 1 /\ t[j] = s[j]
        /\ i \in 1..k + 1 => Smaller(t[i], s[i])
  BY DEF Lowers
<1>2. i # 1
  <2>1. 1 \in 1..k + 1
    OBVIOUS
  <2> QED
    BY <1>1, <2>1
<1>3. 1 \in 1..i - 1 /\ i - 1 \in 1..l /\ i - 1 + 1 = i
  BY <1>1, <1>2
<1>4. t[1] = s[1]
  BY <1>1, <1>3
<1>5. /\ DOMAIN Rest(s) = 1..k /\ DOMAIN Rest(t) = 1..l
      /\ \A j \in 1..k : Rest(s)[j] = s[j + 1]
      /\ \A j \in 1..l : Rest(t)[j] = t[j + 1]
  BY RestIsShorter
<1>6. ASSUME NEW j \in 1..i - 1 - 1
      PROVE  j \in 1..k /\ Rest(t)[j] = Rest(s)[j]
  <2>1. j + 1 \in 1..i - 1 /\ j \in 1..l
    BY <1>1, <1>3, <1>6
  <2>2. j + 1 \in 1..k + 1 /\ t[j + 1] = s[j + 1]
    BY <1>1, <2>1
  <2>3. j \in 1..k
    BY <1>6, <2>2
  <2> QED
    BY <1>5, <2>1, <2>2, <2>3
<1>7. ASSUME i - 1 \in 1..k PROVE Smaller(Rest(t)[i - 1], Rest(s)[i - 1])
  <2>1. i \in 1..k + 1
    BY <1>1, <1>7
  <2>2. Rest(s)[i - 1] = s[i] /\ Rest(t)[i - 1] = t[i]
    BY <1>3, <1>5, <1>7
  <2> QED
    BY <1>1, <2>1, <2>2
<1>8. Lowers(Rest(s), Rest(t))
  BY <1>3, <1>5, <1>6, <1>7 DEF Lowers
<1> QED
  BY <1>4, <1>8

\* The sets of remainders of up to n executions have a lowest member.
HaveLowest(n) ==
  \A T \in SUBSET Stacks(n) :
    T # {} => \E s \in T : \A t \in T : ~Lowers(s, t)

\* By the outermost execution first, by the others then.
LEMMA LowestOfTaller ==
  ASSUME NEW n \in Nat, HaveLowest(n)
  PROVE  HaveLowest(n + 1)
<1> SUFFICES ASSUME NEW T \in SUBSET Stacks(n + 1), T # {}
             PROVE  \E s \in T : \A t \in T : ~Lowers(s, t)
  BY DEF HaveLowest
<1>1. \A t \in T : \E k \in 0..n + 1 : t \in [1..k -> Remainder]
  BY DEF Stacks
<1> DEFINE Tall == {t \in T : 1 \in DOMAIN t}
<1>2. ASSUME NEW t \in Tall
      PROVE  \E k \in 0..n : t \in [1..k + 1 -> Remainder]
  <2>1. PICK k \in 0..n + 1 : t \in [1..k -> Remainder]
    BY <1>1, <1>2
  <2>2. k # 0
    BY <1>2, <2>1
  <2>3. k - 1 \in 0..n /\ k - 1 + 1 = k
    BY <2>1, <2>2
  <2> QED
    BY <2>1, <2>3
<1>3. \A s : \A t \in T : Lowers(s, t) => t \in Tall
  <2> SUFFICES ASSUME NEW s, NEW t \in T, Lowers(s, t) PROVE 1 \in DOMAIN t
    OBVIOUS
  <2>1. PICK k \in 0..n + 1 : t \in [1..k -> Remainder]
    BY <1>1
  <2>2. PICK i \in DOMAIN t : TRUE
    BY DEF Lowers
  <2> QED
    BY <2>1, <2>2
<1>4. CASE Tall = {}
  BY <1>3, <1>4
<1>5. CASE Tall # {}
  <2> DEFINE H == {t[1] : t \in Tall}
  <2>1. H \subseteq Remainder /\ H # {}
    BY <1>2, <1>5
  <2>2. PICK h \in H : \A g \in H : ~Smaller(g, h)
    BY <2>1, LeastRemainder
  <2> DEFINE Least == {t \in Tall : t[1] = h}
             Rests == {Rest(t) : t \in Least}
  <2>3. Rests \in SUBSET Stacks(n) /\ Rests # {}
    <3>1. Least # {}
      BY <2>2
    <3>2. ASSUME NEW t \in Least PROVE Rest(t) \in Stacks(n)
      <4>1. PICK k \in 0..n : t \in [1..k + 1 -> Remainder]
        BY <1>2, <3>2
      <4>2. Rest(t) \in [1..k -> Remainder]
        BY <4>1, RestIsShorter
      <4> QED
        BY <4>1, <4>2 DEF Stacks
    <3> QED
      BY <3>1, <3>2
  <2>4. PICK s \in Least : \A t \in Least : ~Lowers(Rest(s), Rest(t))
    <3>1. PICK r \in Rests : \A q \in Rests : ~Lowers(r, q)
      BY <2>3 DEF HaveLowest
    <3>2. PICK s \in Least : r = Rest(s)
      BY <3>1
    <3> QED
      BY <3>1, <3>2
  <2>5. ASSUME NEW t \in T, Lowers(s, t) PROVE FALSE
    <3>1. t \in Tall /\ s \in Tall /\ s[1] = h
      BY <1>3, <2>4, <2>5
    <3>2. PICK k \in 0..n : s \in [1..k + 1 -> Remainder]
      BY <1>2, <3>1
    <3>3. PICK l \in 0..n : t \in [1..l + 1 -> Remainder]
      BY <1>2, <3>1
    <3>4. ~Smaller(t[1], s[1])
      BY <2>2, <3>1
    <3>5. t[1] = s[1] /\ Lowers(Rest(s), Rest(t))
      BY <2>5, <3>2, <3>3, <3>4, RestsAreCompared
    <3> QED
      BY <2>4, <3>1, <3>5
  <2> QED
    BY <2>4, <2>5
<1> QED
  BY <1>4, <1>5

\* No run of steps lowers the remainders for ever, whatever the gas.
THEOREM LoweringEnds == IsWellFoundedOn(LowerThan, Stacks(MaxDepth + 1))
<1>1. HaveLowest(0)
  <2>1. \A s \in Stacks(0) : DOMAIN s = {}
    BY DEF Stacks
  <2> QED
    BY <2>1 DEF HaveLowest, Lowers
<1>2. PICK D \in Nat : D = MaxDepth + 1
  BY DEF MaxDepth
<1> DEFINE Good == {n \in 0..D : HaveLowest(n)}
<1>3. 0 \in Good
  BY <1>1
<1>4. ASSUME NEW n \in 0..D - 1, n \in Good PROVE n + 1 \in Good
  <2>1. n \in Nat /\ n + 1 \in 0..D /\ HaveLowest(n)
    BY <1>4
  <2> QED
    BY <2>1, LowestOfTaller
<1>5. HaveLowest(MaxDepth + 1)
  <2> HIDE DEF Good
  <2>1. 0..D \subseteq Good
    BY <1>3, <1>4, UpTo
  <2>2. D \in 0..D
    OBVIOUS
  <2> QED
    BY <1>2, <2>1, <2>2 DEF Good
<1>6. \A T \in SUBSET Stacks(MaxDepth + 1) :
        T # {} => \E s \in T : \A t \in T : ~(<<t, s>> \in LowerThan)
  BY <1>5 DEF HaveLowest, LowerThan
<1> QED
  BY <1>6, MinWF
=============================================================================
