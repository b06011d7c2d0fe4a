------------------------------ MODULE CallTree ------------------------------
(***************************************************************************)
(* What calls below a message promise, whatever contracts, schedule of     *)
(* costs and host: levels that borrow gas from one another.  A level       *)
(* spends what it has, lends to one level below it, and gets back no more  *)
(* than the answer says; a level may answer with its whole limit.  No gas  *)
(* comes from anywhere but a gift that goes with a loan.  A static level   *)
(* has no level below it that writes, unless it is made by a CREATE2.      *)
(***************************************************************************)
EXTENDS Integers, Sequences

CONSTANTS
  MaxDepth,   \* depth of the last level
  Gifts       \* what may come with a loan

VARIABLES
  levels,     \* the levels in progress, outermost first
  answer,     \* gas an ended level answers with: none, or one number
  storage     \* what levels write
vars == <<levels, answer, storage>>

\* loan: what a level has lent and waits for: none, or one loan.
Fresh(gas, depth, static) ==
  [limit |-> gas, left |-> gas, depth |-> depth, static |-> static,
   loan |-> {}]

Top == levels[Len(levels)]
Awake == levels # <<>> /\ Top.loan = {}
Waiting == levels # <<>> /\ Top.loan # {}

\* Only the top level changes, into New: what it has left, and its loan.
Changing == Len(levels') = Len(levels)
New == levels'[Len(levels)]
SetTop(left, loan) ==
  levels' = [levels EXCEPT ![Len(levels)] =
               [limit |-> Top.limit, left |-> left, depth |-> Top.depth,
                static |-> Top.static, loan |-> loan]]

Init == levels = <<>> /\ answer = {}

Begin ==
  /\ levels = <<>> /\ Len(levels') = 1
  /\ LET l == levels'[1] IN
     /\ l.limit \in Nat /\ l.depth \in 0..MaxDepth /\ l.static \in BOOLEAN
     /\ levels' = <<Fresh(l.limit, l.depth, l.static)>>
  /\ answer' = {}
  /\ UNCHANGED storage

Spend ==
  /\ Awake /\ Changing
  /\ New.left \in 0..Top.left
  /\ SetTop(New.left, {})
  /\ Top.static => UNCHANGED storage
  /\ UNCHANGED answer

Lend ==
  /\ Awake /\ Changing /\ Top.depth < MaxDepth
  /\ \E loan \in New.loan :
       /\ loan.gas \in Nat /\ loan.gift \in Gifts /\ New.left \in Nat
       /\ New.left + loan.gas <= Top.left + loan.gift
       /\ Top.static => loan.static \/ loan.create2
       /\ SetTop(New.left, {loan})
  /\ UNCHANGED <<answer, storage>>

\* The loan becomes the limit of a new level.
Enter ==
  /\ Waiting /\ answer = {}
  /\ \E loan \in Top.loan :
       levels' = Append(levels, Fresh(loan.gas, Top.depth + 1, loan.static))
  /\ UNCHANGED <<answer, storage>>

\* The loan is answered without a level.
Decline ==
  /\ Waiting /\ answer = {}
  /\ \E loan \in Top.loan, gas \in answer' :
       gas \in Int /\ gas <= loan.gas /\ answer' = {gas}
  /\ UNCHANGED <<levels, storage>>

Leave ==
  /\ Awake
  /\ levels' = SubSeq(levels, 1, Len(levels) - 1)
  /\ \E gas \in answer' : gas \in 0..Top.limit /\ answer' = {gas}
  /\ UNCHANGED storage

\* What comes back is added to what is left, up to the level's own limit;
\* a negative answer adds nothing.
Resume ==
  /\ Waiting /\ Changing
  /\ New.left \in 0..Top.limit
  /\ \E gas \in answer : New.left <= Top.left + IF gas > 0 THEN gas ELSE 0
  /\ SetTop(New.left, {})
  /\ answer' = {}
  /\ UNCHANGED storage

Next == Begin \/ Spend \/ Lend \/ Enter \/ Decline \/ Leave \/ Resume
Spec == Init /\ [][Next]_vars
=============================================================================
