------------------------ MODULE MCSchedulerMigration ------------------------
(***************************************************************************)
(* SchedulerMigration for TLC.                                             *)
(***************************************************************************)
EXTENDS SchedulerMigration, TLC

ProcSymmetry == Permutations(Procs)
=============================================================================
