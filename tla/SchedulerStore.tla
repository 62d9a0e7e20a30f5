--------------------------- MODULE SchedulerStore ---------------------------
(***************************************************************************)
(* The durable store of the scheduler kernel (scheduler-kernel/store.js):  *)
(* jobs, the occurrences enqueued for them, and the three side tables that *)
(* operators and executors write next to an occurrence: runtime controls   *)
(* (pause / resume), retries (requeue of a dead letter) and adjudications. *)
(*                                                                         *)
(* Every public method runs its writes in one SQLite IMMEDIATE transaction *)
(* (_write), so a method is one action here; a call the code rejects       *)
(* changes nothing and is a stuttering step.  Any number of processes call *)
(* the methods, each under its own owner id.                               *)
(*                                                                         *)
(* Time is relative.  lease[o] is lease_expires_at - now and wait[o] is    *)
(* available_at - now; Tick lowers both.  The code only compares these     *)
(* instants with the clock and with each other, so nothing is lost while   *)
(* a difference stays above -MaxLag, where it stops.  claimNext, renew and *)
(* settle read the clock inside their transaction; the other methods read  *)
(* it before they wait for the write lock and act on a value that may be   *)
(* lag old (lag <= MaxLag, the busy timeout).                              *)
(***************************************************************************)
EXTENDS Integers, FiniteSets

CONSTANTS
  Jobs,            \* job ids
  OnceJobs,        \* the jobs whose adapter enqueues once per trigger key
  Triggers,        \* <scheduledFor, triggerKey> pairs an adapter may enqueue
  Owners,          \* executor processes (ownerId)
  PauseRequests,   \* request ids of pause calls
  ResumeRequests,  \* request ids of resume calls
  RetryRequests,   \* request ids of requeue calls
  LeaseLengths,    \* the leaseMs values of the executors
  MaxDelay,        \* bound on availableAt and retryAt, from the call's now
  MaxLag,          \* bound on the age of a clock value read before _write
  AttemptChoices,  \* the maxAttempts values of jobs
  AttemptLimit,    \* the most attempts a row may allow (32 in the code)
  MaxJobRevision,  \* bound: updateJob stops here
  MaxFence,        \* bound: claims of one occurrence stop here
  None

ASSUME ConstantsAssumption ==
  /\ OnceJobs \subseteq Jobs
  /\ None \notin Owners \cup PauseRequests \cup ResumeRequests
  /\ None \notin Jobs \X (1..MaxJobRevision) \X Triggers
  /\ LeaseLengths \subseteq Nat \ {0}
  /\ AttemptLimit \in Nat
  /\ AttemptChoices \subseteq 1..AttemptLimit
  /\ MaxDelay \in Nat /\ MaxLag \in Nat
  /\ MaxJobRevision \in Nat \ {0} /\ MaxFence \in Nat

\* deriveOccurrenceIdentity: a digest of these three, taken to be injective.
Occurrences == Jobs \X (1..MaxJobRevision) \X Triggers

JobOf(o) == o[1]

Lags == 0..MaxLag

SafePoints == {"before_execute", "adapter_checkpoint"}
Decisions  == {"confirmed_applied", "confirmed_not_applied"}
Failures   == {"execution_failed", "outcome_unknown"}

VARIABLES
  \* jobs; revision 0 is a job that does not exist
  enabled, revision, jobMaxAttempts,
  \* occurrences; status "absent" is a row that does not exist
  status, attempt, maxAttempts, fence, owner, lease, wait, lastError,
  \* scheduler_occurrence_controls; control "none" is a missing row
  control, controlFence, controlRevision, pauseRequest, resumeRequest,
  checkpoint,
  \* scheduler_occurrence_retries, by request id; retryFence 0 is no row
  retryOf, retryFence, retryClaimed,
  \* scheduler_occurrence_adjudications; adjudication "none" is no row
  adjudication, decision, expectedAttempt, expectedFence,
  \* status column of scheduler_authority_reservations; "none" is no row
  reservation

jobVars == <<enabled, revision, jobMaxAttempts>>
occurrenceVars ==
  <<status, attempt, maxAttempts, fence, owner, lease, wait, lastError>>
controlVars ==
  <<control, controlFence, controlRevision, pauseRequest, resumeRequest,
    checkpoint>>
retryVars == <<retryOf, retryFence, retryClaimed>>
adjudicationVars == <<adjudication, decision, expectedAttempt, expectedFence>>
vars == <<jobVars, occurrenceVars, controlVars, retryVars, adjudicationVars,
          reservation>>

Init ==
  /\ enabled = [j \in Jobs |-> FALSE]
  /\ revision = [j \in Jobs |-> 0]
  /\ jobMaxAttempts = [j \in Jobs |-> 0]
  /\ status = [o \in Occurrences |-> "absent"]
  /\ attempt = [o \in Occurrences |-> 0]
  /\ maxAttempts = [o \in Occurrences |-> 0]
  /\ fence = [o \in Occurrences |-> 0]
  /\ owner = [o \in Occurrences |-> None]
  /\ lease = [o \in Occurrences |-> 0]
  /\ wait = [o \in Occurrences |-> 0]
  /\ lastError = [o \in Occurrences |-> "none"]
  /\ control = [o \in Occurrences |-> "none"]
  /\ controlFence = [o \in Occurrences |-> 0]
  /\ controlRevision = [o \in Occurrences |-> 0]
  /\ pauseRequest = [o \in Occurrences |-> None]
  /\ resumeRequest = [o \in Occurrences |-> None]
  /\ checkpoint = [o \in Occurrences |-> "none"]
  /\ retryOf = [q \in RetryRequests |-> None]
  /\ retryFence = [q \in RetryRequests |-> 0]
  /\ retryClaimed = [q \in RetryRequests |-> FALSE]
  /\ adjudication = [o \in Occurrences |-> "none"]
  /\ decision = [o \in Occurrences |-> "none"]
  /\ expectedAttempt = [o \in Occurrences |-> 0]
  /\ expectedFence = [o \in Occurrences |-> 0]
  /\ reservation = [o \in Occurrences |-> "none"]

-----------------------------------------------------------------------------
(* Jobs and enqueueing.                                                    *)

CreateJob(j, e, m) ==
  /\ revision[j] = 0
  /\ enabled' = [enabled EXCEPT ![j] = e]
  /\ revision' = [revision EXCEPT ![j] = 1]
  /\ jobMaxAttempts' = [jobMaxAttempts EXCEPT ![j] = m]
  /\ UNCHANGED <<occurrenceVars, controlVars, retryVars, adjudicationVars,
                 reservation>>

\* A compare-and-swap on the revision; e and m are what the patch leaves.
UpdateJob(j, e, m) ==
  /\ revision[j] \in 1..(MaxJobRevision - 1)
  /\ enabled' = [enabled EXCEPT ![j] = e]
  /\ revision' = [revision EXCEPT ![j] = @ + 1]
  /\ jobMaxAttempts' = [jobMaxAttempts EXCEPT ![j] = m]
  /\ UNCHANGED <<occurrenceVars, controlVars, retryVars, adjudicationVars,
                 reservation>>

\* _enqueueOccurrence: the row of the job's current revision, inserted unless
\* its idempotency key exists; the existing row is then returned unchanged.
EnqueueOccurrence(j, t, d) ==
  LET o == <<j, revision[j], t>> IN
  /\ revision[j] > 0
  /\ enabled[j]
  /\ status[o] = "absent"
  /\ status' = [status EXCEPT ![o] = "queued"]
  /\ maxAttempts' = [maxAttempts EXCEPT ![o] = jobMaxAttempts[j]]
  /\ wait' = [wait EXCEPT ![o] = d]
  /\ UNCHANGED <<attempt, fence, owner, lease, lastError, jobVars,
                 controlVars, retryVars, adjudicationVars, reservation>>

\* Faulty variant: only the row of the current revision is looked up.
EnqueueOncePerRevision(j, t, d) == EnqueueOccurrence(j, t, d)

\* enqueueOccurrenceOncePerTrigger: any revision's row for the key stands in
\* for the new one.
EnqueueOncePerTrigger(j, t, d) ==
  /\ \A r \in 1..MaxJobRevision : status[<<j, r, t>>] = "absent"
  /\ EnqueueOccurrence(j, t, d)

-----------------------------------------------------------------------------
(* Claiming.                                                               *)

\* Faulty variant: the sweep is left out.
NeverExhausted == {}

\* The rows _deadLetterExpiredLeases closes before every claim: the final
\* allowed attempt ran out of lease and no live control keeps the row open.
Exhausted ==
  {o \in Occurrences : /\ status[o] = "running"
                       /\ lease[o] <= 0
                       /\ attempt[o] >= maxAttempts[o]
                       /\ control[o] \notin {"pause_requested", "resumed"}}

Swept(column, v) ==
  [o \in Occurrences |-> IF o \in Exhausted THEN v ELSE column[o]]

\* Faulty variant: the swept row keeps its adjudication pending.
SweepKeepsAdjudication ==
  /\ lastError' = Swept(lastError, "lease_expired")
  /\ UNCHANGED <<adjudication, reservation>>

\* A pending adjudication is applied, and the reservation failed, only when
\* the swept row has one.
SweepSideTables ==
  /\ lastError' = Swept(lastError, "lease_expired")
  /\ adjudication' =
       [o \in Occurrences |->
          IF o \in Exhausted /\ adjudication[o] = "pending"
          THEN "applied" ELSE adjudication[o]]
  /\ reservation' =
       [o \in Occurrences |->
          IF /\ o \in Exhausted
             /\ adjudication[o] = "pending"
             /\ reservation[o] = "reserved"
          THEN "failed" ELSE reservation[o]]

\* A claim that finds no candidate still commits the sweep.
DeadLetterExpiredLeases ==
  /\ Exhausted # {}
  /\ SweepSideTables
  /\ status' = Swept(status, "dead_letter")
  /\ owner' = Swept(owner, None)
  /\ lease' = Swept(lease, 0)
  /\ UNCHANGED <<attempt, maxAttempts, fence, wait, jobVars, controlVars,
                 retryVars, decision, expectedAttempt, expectedFence>>

\* The requeue rows that still grant this claim.
OpenRetries(o) ==
  {q \in RetryRequests : /\ retryOf[q] = o
                         /\ retryFence[q] = fence[o]
                         /\ ~ retryClaimed[q]}

Due(o) ==
  \/ status[o] \in {"queued", "retry_wait"} /\ wait[o] <= 0
  \/ status[o] = "running" /\ lease[o] <= 0

\* Faulty variant: paused rows are not excluded.
EligibleWhilePaused(o) ==
  /\ o \notin Exhausted
  /\ Due(o)
  /\ enabled[JobOf(o)]
  /\ \/ attempt[o] < maxAttempts[o]
     \/ control[o] \in {"pause_requested", "resumed"}
     \/ OpenRetries(o) # {}
  /\ control[o] = "pause_requested" => status[o] = "running"

\* Eligible once the sweep has run.
Eligible(o) ==
  /\ o \notin Exhausted
  /\ Due(o)
  /\ enabled[JobOf(o)]
  /\ \/ attempt[o] < maxAttempts[o]
     \/ control[o] \in {"pause_requested", "resumed"}
     \/ OpenRetries(o) # {}
  /\ control[o] # "paused"
  /\ control[o] = "pause_requested" => status[o] = "running"

\* Faulty variant: a claim for the pending pause consumes an attempt.
PausingConsumesAttempt(o) ==
  \/ control[o] = "resumed" /\ controlFence[o] = fence[o]
  \/ OpenRetries(o) # {}

\* Faulty variant: taking over an expired lease is free.
ReclaimKeepsAttempt(o) ==
  \/ control[o] = "pause_requested"
  \/ control[o] = "resumed" /\ controlFence[o] = fence[o]
  \/ OpenRetries(o) # {}
  \/ status[o] = "running"

\* The claims that do not consume an attempt.
KeepsAttempt(o) ==
  \/ control[o] = "pause_requested"
  \/ control[o] = "resumed" /\ controlFence[o] = fence[o]
  \/ OpenRetries(o) # {}

\* Faulty variant: the control keeps the fence of the claim before.
ControlLeftBehind(o) == UNCHANGED <<controlFence, controlRevision>>

\* A live control follows the claim to its new fence.
RebindControl(o) ==
  IF control[o] \in {"pause_requested", "resumed"}
  THEN /\ controlFence' = [controlFence EXCEPT ![o] = fence[o] + 1]
       /\ controlRevision' = [controlRevision EXCEPT ![o] = @ + 1]
  ELSE UNCHANGED <<controlFence, controlRevision>>

ConsumeRetry(o) ==
  \/ OpenRetries(o) = {} /\ UNCHANGED retryClaimed
  \/ \E q \in OpenRetries(o) :
       retryClaimed' = [retryClaimed EXCEPT ![q] = TRUE]

\* wait is cleared here: it is next read after another action has set it.
Claim(w, o, l) ==
  /\ fence[o] < MaxFence
  /\ SweepSideTables
  /\ status' = [Swept(status, "dead_letter") EXCEPT ![o] = "running"]
  /\ attempt' = [attempt EXCEPT ![o] = IF KeepsAttempt(o) THEN @ ELSE @ + 1]
  /\ fence' = [fence EXCEPT ![o] = @ + 1]
  /\ owner' = [Swept(owner, None) EXCEPT ![o] = w]
  /\ lease' = [Swept(lease, 0) EXCEPT ![o] = l]
  /\ wait' = [wait EXCEPT ![o] = 0]
  /\ RebindControl(o)
  /\ ConsumeRetry(o)
  /\ UNCHANGED <<maxAttempts, jobVars, control, pauseRequest, resumeRequest,
                 checkpoint, retryOf, retryFence, decision, expectedAttempt,
                 expectedFence>>

\* The ORDER BY of claimNext; ties (scheduled_for, id) are left open.
DueSince(o) == IF status[o] = "running" THEN lease[o] ELSE wait[o]

\* claimNext over the jobs its jobKind / workspaceId filter selects.
ClaimNext(w, K, l) ==
  LET candidates == {o \in Occurrences : JobOf(o) \in K /\ Eligible(o)} IN
  \/ \E o \in candidates :
       /\ \A p \in candidates : DueSince(o) <= DueSince(p)
       /\ Claim(w, o, l)
  \/ candidates = {} /\ DeadLetterExpiredLeases

ClaimOccurrence(w, o, l) ==
  /\ status[o] # "absent"
  /\ \/ Eligible(o) /\ Claim(w, o, l)
     \/ ~ Eligible(o) /\ DeadLetterExpiredLeases

-----------------------------------------------------------------------------
(* The owner of a claim.                                                   *)

\* Faulty variant: the expiry is not compared with the clock.
HoldsStaleLease(w, o, f, age) ==
  /\ status[o] = "running"
  /\ owner[o] = w
  /\ fence[o] = f

\* The token check of renew, settle and ackOccurrencePause; age is how old
\* the caller's clock value is.
HoldsLease(w, o, f, age) ==
  /\ status[o] = "running"
  /\ owner[o] = w
  /\ fence[o] = f
  /\ lease[o] + age > 0

Renew(w, o, f, l) ==
  /\ HoldsLease(w, o, f, 0)
  /\ lease' = [lease EXCEPT ![o] = IF l > @ THEN l ELSE @]
  /\ UNCHANGED <<status, attempt, maxAttempts, fence, owner, wait, lastError,
                 jobVars, controlVars, retryVars, adjudicationVars,
                 reservation>>

ReleaseAs(o, s) ==
  /\ status' = [status EXCEPT ![o] = s]
  /\ owner' = [owner EXCEPT ![o] = None]
  /\ lease' = [lease EXCEPT ![o] = 0]

TerminateControl(o, live) ==
  IF control[o] \in live
  THEN /\ control' = [control EXCEPT ![o] = "terminal"]
       /\ controlRevision' = [controlRevision EXCEPT ![o] = @ + 1]
  ELSE UNCHANGED <<control, controlRevision>>

\* Terminal settlements close the reservation and a pending adjudication.
CloseSideTables(o, outcome) ==
  /\ reservation' =
       [reservation EXCEPT ![o] = IF @ = "reserved" THEN outcome ELSE @]
  /\ adjudication' =
       [adjudication EXCEPT ![o] = IF @ = "pending" THEN "applied" ELSE @]

SettleSucceeded(w, o, f) ==
  /\ HoldsLease(w, o, f, 0)
  /\ ReleaseAs(o, "succeeded")
  /\ lastError' = [lastError EXCEPT ![o] = "none"]
  /\ TerminateControl(o, {"pause_requested", "resumed"})
  /\ CloseSideTables(o, "succeeded")
  /\ UNCHANGED <<attempt, maxAttempts, fence, wait, jobVars, controlFence,
                 pauseRequest, resumeRequest, checkpoint, retryVars,
                 decision, expectedAttempt, expectedFence>>

\* A retryable failure with attempts left.  A resumed control is moved past
\* this claim, so that the next one consumes an attempt.
SettleRetry(w, o, f, d) ==
  /\ HoldsLease(w, o, f, 0)
  /\ attempt[o] < maxAttempts[o]
  /\ ReleaseAs(o, "retry_wait")
  /\ wait' = [wait EXCEPT ![o] = d]
  /\ lastError' = [lastError EXCEPT ![o] = "execution_failed"]
  /\ IF control[o] = "resumed" /\ controlFence[o] = f
     THEN /\ controlFence' = [controlFence EXCEPT ![o] = f + 1]
          /\ controlRevision' = [controlRevision EXCEPT ![o] = @ + 1]
          /\ UNCHANGED control
     ELSE /\ TerminateControl(o, {"pause_requested"})
          /\ UNCHANGED controlFence
  /\ UNCHANGED <<attempt, maxAttempts, fence, jobVars, pauseRequest,
                 resumeRequest, checkpoint, retryVars, adjudicationVars,
                 reservation>>

SettleDeadLetter(w, o, f, retryable, e) ==
  /\ HoldsLease(w, o, f, 0)
  /\ ~ (retryable /\ attempt[o] < maxAttempts[o])
  /\ ReleaseAs(o, "dead_letter")
  /\ lastError' = [lastError EXCEPT ![o] = e]
  /\ TerminateControl(o, {"pause_requested", "resumed"})
  /\ CloseSideTables(o, "failed")
  /\ UNCHANGED <<attempt, maxAttempts, fence, wait, jobVars, controlFence,
                 pauseRequest, resumeRequest, checkpoint, retryVars,
                 decision, expectedAttempt, expectedFence>>

-----------------------------------------------------------------------------
(* Operator and runtime control calls.                                     *)

\* requestOccurrencePause under a checkpoint_v1 capability, by a caller that
\* saw fence f.
RequestPause(o, q, f, lag) ==
  /\ \A p \in Occurrences : pauseRequest[p] # q
  /\ control[o] \in {"none", "terminal"}
  /\ status[o] = "running"
  /\ fence[o] = f
  /\ lease[o] + lag > 0
  /\ control' = [control EXCEPT ![o] = "pause_requested"]
  /\ controlFence' = [controlFence EXCEPT ![o] = f]
  /\ controlRevision' = [controlRevision EXCEPT ![o] = @ + 1]
  /\ pauseRequest' = [pauseRequest EXCEPT ![o] = q]
  /\ resumeRequest' = [resumeRequest EXCEPT ![o] = None]
  /\ checkpoint' = [checkpoint EXCEPT ![o] = "none"]
  /\ UNCHANGED <<jobVars, occurrenceVars, retryVars, adjudicationVars,
                 reservation>>

AckPause(w, o, f, r, point, lag) ==
  /\ control[o] = "pause_requested"
  /\ controlRevision[o] = r
  /\ controlFence[o] = f
  /\ HoldsLease(w, o, f, lag)
  /\ ReleaseAs(o, "retry_wait")
  /\ wait' = [wait EXCEPT ![o] = -lag]
  /\ control' = [control EXCEPT ![o] = "paused"]
  /\ controlRevision' = [controlRevision EXCEPT ![o] = @ + 1]
  /\ checkpoint' = [checkpoint EXCEPT ![o] = point]
  /\ UNCHANGED <<attempt, maxAttempts, fence, lastError, jobVars,
                 controlFence, pauseRequest, resumeRequest, retryVars,
                 adjudicationVars, reservation>>

Resume(o, q, r, lag) ==
  /\ \A p \in Occurrences : resumeRequest[p] # q
  /\ control[o] = "paused"
  /\ controlRevision[o] = r
  /\ status[o] = "retry_wait" /\ owner[o] = None
  /\ control' = [control EXCEPT ![o] = "resumed"]
  /\ controlRevision' = [controlRevision EXCEPT ![o] = @ + 1]
  /\ resumeRequest' = [resumeRequest EXCEPT ![o] = q]
  /\ wait' = [wait EXCEPT ![o] = -lag]
  /\ UNCHANGED <<status, attempt, maxAttempts, fence, owner, lease,
                 lastError, jobVars, controlFence, pauseRequest, checkpoint,
                 retryVars, adjudicationVars, reservation>>

\* Faulty variant: any row that is not running may be requeued.
RequeueWhateverIdle(o, q, f, lag) ==
  /\ retryFence[q] = 0
  /\ status[o] # "running"
  /\ fence[o] = f /\ f > 0
  /\ retryOf' = [retryOf EXCEPT ![q] = o]
  /\ retryFence' = [retryFence EXCEPT ![q] = f]
  /\ status' = [status EXCEPT ![o] = "retry_wait"]
  /\ wait' = [wait EXCEPT ![o] = -lag]
  /\ UNCHANGED <<attempt, maxAttempts, fence, owner, lease, lastError,
                 jobVars, controlVars, retryClaimed, adjudicationVars,
                 reservation>>

\* requeueDeadLetter by an operator who saw fence f and the last error.
RequeueDeadLetter(o, q, f, lag) ==
  /\ retryFence[q] = 0
  /\ status[o] = "dead_letter"
  /\ fence[o] = f /\ f > 0
  /\ retryOf' = [retryOf EXCEPT ![q] = o]
  /\ retryFence' = [retryFence EXCEPT ![q] = f]
  /\ status' = [status EXCEPT ![o] = "retry_wait"]
  /\ wait' = [wait EXCEPT ![o] = -lag]
  /\ UNCHANGED <<attempt, maxAttempts, fence, owner, lease, lastError,
                 jobVars, controlVars, retryClaimed, adjudicationVars,
                 reservation>>

\* Faulty variant: the decision leaves the reservation as the failure left it.
LeaveReservation(o) == UNCHANGED reservation

\* What a failure charged is to be settled again.
ReopenReservation(o) ==
  reservation' =
    [reservation EXCEPT ![o] = IF @ = "failed" THEN "reserved" ELSE @]

GrantedAttempts(a, d) == IF d = "confirmed_applied" THEN a + 2 ELSE a + 1

\* adjudicateOccurrence: once per occurrence, on an outcome-unknown dead
\* letter whose attempt a and fence f the operator saw.
Adjudicate(o, d, a, f, lag) ==
  /\ status[o] = "dead_letter" /\ lastError[o] = "outcome_unknown"
  /\ adjudication[o] = "none"
  /\ attempt[o] = a /\ a > 0 /\ fence[o] = f /\ f > 0
  /\ GrantedAttempts(a, d) <= AttemptLimit
  /\ adjudication' = [adjudication EXCEPT ![o] = "pending"]
  /\ decision' = [decision EXCEPT ![o] = d]
  /\ expectedAttempt' = [expectedAttempt EXCEPT ![o] = a]
  /\ expectedFence' = [expectedFence EXCEPT ![o] = f]
  /\ status' = [status EXCEPT ![o] = "retry_wait"]
  /\ wait' = [wait EXCEPT ![o] = -lag]
  /\ maxAttempts' = [maxAttempts EXCEPT ![o] = GrantedAttempts(a, d)]
  /\ ReopenReservation(o)
  /\ UNCHANGED <<attempt, fence, owner, lease, lastError, jobVars,
                 controlVars, retryVars>>

-----------------------------------------------------------------------------

Tick ==
  /\ lease' = [o \in Occurrences |->
                 IF status[o] = "running" /\ lease[o] > -MaxLag
                 THEN lease[o] - 1 ELSE lease[o]]
  /\ wait' = [o \in Occurrences |->
                IF /\ status[o] \in {"queued", "retry_wait"}
                   /\ wait[o] > -MaxLag
                THEN wait[o] - 1 ELSE wait[o]]
  /\ UNCHANGED <<status, attempt, maxAttempts, fence, owner, lastError,
                 jobVars, controlVars, retryVars, adjudicationVars,
                 reservation>>

AdminStep ==
  \E j \in Jobs :
    \/ \E e \in BOOLEAN, m \in AttemptChoices :
         CreateJob(j, e, m) \/ UpdateJob(j, e, m)
    \/ \E t \in Triggers, d \in (-MaxLag)..MaxDelay :
         IF j \in OnceJobs THEN EnqueueOncePerTrigger(j, t, d)
                           ELSE EnqueueOccurrence(j, t, d)

ClaimStep(w) ==
  \E l \in LeaseLengths :
    \/ \E K \in SUBSET Jobs : ClaimNext(w, K, l)
    \/ \E o \in Occurrences : ClaimOccurrence(w, o, l)

OwnerStep(w) ==
  \E o \in Occurrences :
    \/ \E l \in LeaseLengths : Renew(w, o, fence[o], l)
    \/ SettleSucceeded(w, o, fence[o])
    \/ \E d \in 0..MaxDelay : SettleRetry(w, o, fence[o], d)
    \/ \E r \in BOOLEAN, e \in Failures :
         SettleDeadLetter(w, o, fence[o], r, e)
    \/ \E p \in SafePoints, g \in Lags :
         AckPause(w, o, fence[o], controlRevision[o], p, g)

OperatorStep ==
  \E o \in Occurrences, g \in Lags :
    \/ \E q \in PauseRequests : RequestPause(o, q, fence[o], g)
    \/ \E q \in ResumeRequests : Resume(o, q, controlRevision[o], g)
    \/ \E q \in RetryRequests : RequeueDeadLetter(o, q, fence[o], g)
    \/ \E d \in Decisions : Adjudicate(o, d, attempt[o], fence[o], g)

Next ==
  \/ AdminStep
  \/ \E w \in Owners : ClaimStep(w) \/ OwnerStep(w)
  \/ OperatorStep
  \/ Tick

Spec == Init /\ [][Next]_vars

-----------------------------------------------------------------------------
(* What the store promises about one occurrence.                           *)

LeasePhase(s) ==
  CASE s = "absent" -> "absent"
    [] s \in {"queued", "retry_wait"} -> "open"
    [] s = "running" -> "held"
    [] s = "dead_letter" -> "closed"
    [] s = "succeeded" -> "done"

Lease(o) == INSTANCE FencedLease
              WITH Holders <- Owners,
                   Nobody  <- None,
                   phase   <- LeasePhase(status[o]),
                   holder  <- owner[o],
                   token   <- fence[o],
                   expired <- lease[o] <= 0

-----------------------------------------------------------------------------
(* Properties.                                                             *)

ControlStates == {"none", "pause_requested", "paused", "resumed", "terminal"}
Statuses == {"absent", "queued", "running", "retry_wait", "succeeded",
             "dead_letter"}
Countdown == (-MaxLag)..MaxDelay

JobTypeOK ==
  /\ enabled \in [Jobs -> BOOLEAN]
  /\ revision \in [Jobs -> 0..MaxJobRevision]
  /\ jobMaxAttempts \in [Jobs -> 0..AttemptLimit]

OccurrenceTypeOK ==
  /\ status \in [Occurrences -> Statuses]
  /\ attempt \in [Occurrences -> Nat]
  /\ maxAttempts \in [Occurrences -> 0..AttemptLimit]
  /\ fence \in [Occurrences -> 0..MaxFence]
  /\ owner \in [Occurrences -> Owners \cup {None}]
  /\ lease \in [Occurrences -> Int]
  /\ wait \in [Occurrences -> Countdown]
  /\ lastError \in [Occurrences -> Failures \cup {"none", "lease_expired"}]

ControlTypeOK ==
  /\ control \in [Occurrences -> ControlStates]
  /\ controlFence \in [Occurrences -> Nat]
  /\ controlRevision \in [Occurrences -> Nat]
  /\ pauseRequest \in [Occurrences -> PauseRequests \cup {None}]
  /\ resumeRequest \in [Occurrences -> ResumeRequests \cup {None}]
  /\ checkpoint \in [Occurrences -> SafePoints \cup {"none"}]

SideTypeOK ==
  /\ retryOf \in [RetryRequests -> Occurrences \cup {None}]
  /\ retryFence \in [RetryRequests -> Nat]
  /\ retryClaimed \in [RetryRequests -> BOOLEAN]
  /\ adjudication \in [Occurrences -> {"none", "pending", "applied"}]
  /\ decision \in [Occurrences -> Decisions \cup {"none"}]
  /\ expectedAttempt \in [Occurrences -> Nat]
  /\ expectedFence \in [Occurrences -> Nat]
  /\ reservation \in
       [Occurrences -> {"none", "reserved", "succeeded", "failed"}]

LeaseColumnsOK ==
  \A o \in Occurrences :
    IF status[o] = "running" THEN owner[o] # None
                             ELSE owner[o] = None /\ lease[o] = 0

\* Every column keeps to its declared values, as the CHECK clauses of the
\* schema ask; a lease exists exactly on running rows.
TypeOK ==
  /\ JobTypeOK
  /\ OccurrenceTypeOK
  /\ ControlTypeOK
  /\ SideTypeOK
  /\ LeaseColumnsOK

\* No sequence of claims, retries, pauses, requeues and adjudications takes an
\* occurrence past its budget: the UPDATE of a claim, whose guard lets
\* exhausted rows with a live control through, never trips the table's
\* CHECK (attempt <= max_attempts), which would fail every later claimNext.
AttemptsWithinBudget ==
  \A o \in Occurrences : attempt[o] <= maxAttempts[o]

\* Whatever is called, the columns kept here pass the CHECKs of their tables:
\* what one call leaves for another is never a combination that some later
\* UPDATE trips over.  (CHECKs on timestamps and settled_at are not modelled.)
SchemaHolds == TypeOK /\ AttemptsWithinBudget

\* A runtime control describes the occurrence it is attached to.  A pending
\* pause is bound to the claim that runs, a paused row waits without a lease
\* at its checkpoint, and a resumed control is bound to the running claim or
\* to the next one: an executor that holds its lease never finds one it must
\* reject with CONTROL_FENCE_MISMATCH, and none RESUME_CHECKPOINT_INVALID.
ControlMatches(o) ==
  CASE control[o] = "pause_requested" ->
         status[o] = "running" /\ controlFence[o] = fence[o]
    [] control[o] = "paused" ->
         /\ status[o] = "retry_wait" /\ controlFence[o] = fence[o]
         /\ checkpoint[o] # "none"
    [] control[o] = "resumed" ->
         /\ checkpoint[o] # "none"
         /\ \/ status[o] = "running" /\ controlFence[o] = fence[o]
            \/ /\ status[o] = "retry_wait"
               /\ controlFence[o] \in {fence[o], fence[o] + 1}
    [] OTHER -> TRUE

ControlMatchesOccurrence == \A o \in Occurrences : ControlMatches(o)

\* A pending adjudication always has a claim to come, and the claim that
\* carries it passes the runtime's binding check (attempt just past the
\* adjudicated one and within the grant, fence past the adjudicated one), even
\* when pauses, requeues and lease losses come in between.
PendingAdjudicationBinds ==
  \A o \in Occurrences :
    adjudication[o] = "pending" =>
      /\ status[o] \in {"retry_wait", "running"}
      /\ maxAttempts[o] = GrantedAttempts(expectedAttempt[o], decision[o])
      /\ status[o] = "running" =>
           /\ attempt[o] > expectedAttempt[o]
           /\ fence[o] > expectedFence[o]

\* An operator's requeue grants one claim: an unclaimed requeue row is bound
\* to the current fence only while its occurrence waits for that claim, and
\* there is at most one.
RequeueGrantsOneClaim ==
  \A o \in Occurrences :
    /\ OpenRetries(o) # {} => status[o] = "retry_wait"
    /\ \A p, q \in OpenRetries(o) : p = q

\* An adapter that enqueues once per trigger key fires a trigger once, however
\* often its job is revised between two attempts to enqueue it.
OneOccurrencePerTrigger ==
  \A j \in OnceJobs, t \in Triggers, r, s \in 1..MaxJobRevision :
    /\ status[<<j, r, t>>] # "absent"
    /\ status[<<j, s, t>>] # "absent"
    => r = s

\* Every claim is paid for: by an attempt, by a requeue an operator asked for,
\* or by a step of the occurrence's runtime control.  Without requeues and
\* controls an occurrence is claimed at most maxAttempts times.
ClaimsAccountedFor ==
  \A o \in Occurrences :
    LET requeued == {q \in RetryRequests : retryOf[q] = o /\ retryClaimed[q]}
    IN /\ fence[o] >= attempt[o]
       /\ fence[o] <= attempt[o] + Cardinality(requeued) + controlRevision[o]

\* Every occurrence is a fenced lease: one owner at a time, a new token for each
\* claim, taken from its owner only after expiry, and out of reach once it
\* succeeded.  The store's IMMEDIATE transactions and token checks are there
\* for this.  Who settles is not visible in the row: that a stale worker's
\* settlement is refused under its successor's fence is ClaimsKeepTheirBindings
\* of SchedulerRuntime.  (The conjunction of the specifications
\* Lease(o)!LeaseSpec, in the form TLC evaluates.)
ImplementsFencedLease ==
  /\ \A o \in Occurrences : Lease(o)!LeaseInit
  /\ [][\A o \in Occurrences :
          [Lease(o)!LeaseNext]_(Lease(o)!leaseVars)]_vars

\* A success is final: no claim, requeue, adjudication or late settlement
\* opens the occurrence again.
SucceededIsFinal ==
  [][\A o \in Occurrences :
       status[o] = "succeeded" =>
         status'[o] = "succeeded" /\ fence'[o] = fence[o]]_vars

\* While an occurrence is paused nothing but its resume moves it: it is not
\* claimed, swept, settled, requeued or adjudicated.
PausedUntilResumed ==
  [][\A o \in Occurrences :
       control[o] = "paused" =>
         /\ control'[o] \in {"paused", "resumed"}
         /\ status'[o] = "retry_wait"
         /\ fence'[o] = fence[o] /\ attempt'[o] = attempt[o]]_vars
=============================================================================
