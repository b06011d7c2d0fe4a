---------------------------- MODULE MCUtilities ----------------------------
(***************************************************************************)
(* The two utility components on small instances: the Keccak object and    *)
(* the instruction tables.  They share nothing, so that no order of their  *)
(* steps means anything: each is explored while the other has not begun.   *)
(***************************************************************************)
EXTENDS Keccak, Instructions

vars == <<keccakVars, instructionVars>>

KeccakAtRest == A = <<>> /\ input = <<>> /\ output = <<>> /\ bufferLen = 0

TablesAtRest ==
  /\ older = EVMC_FRONTIER /\ newer = EVMC_FRONTIER
  /\ height["older"] = 0 /\ extra = 0

Init == KeccakInit /\ InstructionsInit

Next ==
  \/ KeccakNext /\ TablesAtRest /\ UNCHANGED instructionVars
  \/ InstructionsNext /\ KeccakAtRest /\ UNCHANGED keccakVars

\* addData runs its loop to the end.
Spec == Init /\ [][Next]_vars /\ WF_keccakVars(CopyTurn)
=============================================================================
