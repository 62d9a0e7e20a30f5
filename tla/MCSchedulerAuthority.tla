------------------------ MODULE MCSchedulerAuthority ------------------------
(***************************************************************************)
(* SchedulerAuthority for TLC.                                             *)
(***************************************************************************)
EXTENDS SchedulerAuthority, TLC

\* Claims leave the order of equally old occurrences open, so triggers are alike.
Symmetry == Permutations(Owners) \cup Permutations(Triggers)
=============================================================================
