----------------------------- MODULE MCEwasmVM -----------------------------
(***************************************************************************)
(* EwasmVM on small instances.  Words have two bytes, so that one is the   *)
(* upper half.  Executions start near the depth limit, so that the stack   *)
(* is at most two or three frames high and the limit is met.  The gas      *)
(* schedule is the code's own.                                             *)
(***************************************************************************)
EXTENDS EwasmVMProps

CONSTANTS
  RootDepth, RootGas, RootKinds, RootStatic, RootValues

MCWord(hi, lo) == [i \in 1..2 |-> IF i = 1 THEN hi ELSE lo]

\* 0, 1, and 2^128 in the scaled words.
Zero == MCWord(0, 0)
One == MCWord(0, 1)
High == MCWord(1, 0)

\* A host that may report less than no gas left.
Negative == {-1}

NoValue == {Zero}
OneValue == {One}
WithValue == {Zero, One}
AnyValue == {Zero, One, High}

MCRootMessages ==
  [kind : RootKinds, static : RootStatic, depth : {RootDepth},
   gas : {RootGas}, dest : {ZeroAddress}, sender : {KeccakAddress},
   value : RootValues]
=============================================================================
