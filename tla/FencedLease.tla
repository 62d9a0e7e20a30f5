----------------------------- MODULE FencedLease -----------------------------
(***************************************************************************)
(* What the scheduler store promises about one piece of work, whatever     *)
(* pauses, requeues, adjudications and crashes go on around it: a lease    *)
(* that one owner holds at a time, under a token no other claim of the     *)
(* work ever had.                                                          *)
(*                                                                         *)
(* The work can be taken only while it is open or once its lease ran out;  *)
(* a holder decides its outcome only while its lease runs; work that       *)
(* succeeded is never touched again.  Time is left out: a lease just       *)
(* expires.                                                                *)
(***************************************************************************)
EXTENDS Naturals

CONSTANTS Holders, Nobody

VARIABLES phase, holder, token, expired

leaseVars == <<phase, holder, token, expired>>

LeaseInit ==
  /\ phase = "absent"
  /\ holder = Nobody
  /\ token = 0
  /\ expired = TRUE

Submit ==
  /\ phase = "absent"
  /\ phase' = "open"
  /\ UNCHANGED <<holder, token, expired>>

Acquire(h) ==
  /\ phase = "open" \/ (phase = "held" /\ expired)
  /\ phase' = "held"
  /\ holder' = h
  /\ token' = token + 1
  /\ expired' = FALSE

Expire ==
  /\ phase = "held" /\ ~ expired
  /\ expired' = TRUE
  /\ UNCHANGED <<phase, holder, token>>

Drop(p) ==
  /\ phase = "held"
  /\ phase' = p
  /\ holder' = Nobody
  /\ expired' = TRUE
  /\ UNCHANGED token

\* The holder reports an outcome: done, failed for good, or to be tried again.
Finish ==
  /\ ~ expired
  /\ \E p \in {"open", "closed", "done"} : Drop(p)

\* The holder gives the work back undone, perhaps a moment late.
Yield == Drop("open")

\* Nobody finished it in time.
Abandon == expired /\ Drop("closed")

\* An operator's decision.
Reopen ==
  /\ phase = "closed"
  /\ phase' = "open"
  /\ UNCHANGED <<holder, token, expired>>

LeaseNext ==
  \/ Submit
  \/ \E h \in Holders : Acquire(h)
  \/ Expire
  \/ Finish
  \/ Yield
  \/ Abandon
  \/ Reopen

LeaseSpec == LeaseInit /\ [][LeaseNext]_leaseVars
=============================================================================
