------------------------- MODULE MCSchedulerRuntime -------------------------
(***************************************************************************)
(* SchedulerRuntime for TLC.                                               *)
(***************************************************************************)
EXTENDS SchedulerRuntime, TLC

OwnerSymmetry == Permutations(Owners)
=============================================================================
