------------------------------- MODULE MCHost -------------------------------
(***************************************************************************)
(* HostContext on a small instance.  The limits 200 and 100 are scaled to  *)
(* two and two, so that both are met.                                      *)
(***************************************************************************)
EXTENDS HostProps, TLC

\* A block without a timestamp, and two with one.
MCTxContext ==
  {[block_timestamp |-> t, block_number |-> t + 1] : t \in 0..2}

\* Executions differ in nothing but their names.
MCSymmetry == Permutations(Execution)
=============================================================================
