-------------------------- MODULE MCSchedulerStore --------------------------
(***************************************************************************)
(* SchedulerStore for TLC.  Owners and the ids of a kind of request are    *)
(* interchangeable in every action and property, so the safety runs        *)
(* identify states up to their permutation.                                *)
(***************************************************************************)
EXTENDS SchedulerStore, TLC

Symmetry ==
  Permutations(Owners) \cup Permutations(PauseRequests)
  \cup Permutations(ResumeRequests) \cup Permutations(RetryRequests)
=============================================================================
