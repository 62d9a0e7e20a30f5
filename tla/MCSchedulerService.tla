------------------------- MODULE MCSchedulerService -------------------------
(***************************************************************************)
(* SchedulerService for TLC.                                               *)
(***************************************************************************)
EXTENDS SchedulerService
=============================================================================
