-------------------------- MODULE SchedulerRuntime --------------------------
(***************************************************************************)
(* Executors that run occurrences from the store: SchedulerRuntime         *)
(* (scheduler-kernel/runtime.js) with the adapter of saved loops           *)
(* (loop-adapter.js), whose runner has effects nobody can take back.       *)
(*                                                                         *)
(* A worker is one process.  Its claim is a copy of the occurrence row; it *)
(* waits for the authorizer, revalidates the claim, reads its controls and *)
(* its adjudication, starts the runner, then settles.  Each of these is a  *)
(* store call of its own: time and every other process may move between    *)
(* any two of them, and a worker may crash in each.                        *)
(*                                                                         *)
(* effects[o] counts the times the runner was started for o.  No code      *)
(* holds it: it is the outside world.                                      *)
(***************************************************************************)
EXTENDS SchedulerStore

VARIABLES
  pc,           \* where _executeClaim of a worker stands
  claimed,      \* its occurrence
  token,        \* the fence in its copy of the row
  tried,        \* the attempt in that copy
  effects

workerVars == <<pc, claimed, token, tried>>
runtimeVars == <<vars, workerVars, effects>>

Phases == {"idle", "claimed", "authorizing", "renewed", "unpaused", "prepared",
           "execute", "pausing", "stopping", "apply", "refuse", "reject",
           "running"}

RuntimeInit ==
  /\ Init
  /\ pc = [w \in Owners |-> "idle"]
  /\ claimed = [w \in Owners |-> None]
  /\ token = [w \in Owners |-> 0]
  /\ tried = [w \in Owners |-> 0]
  /\ effects = [o \in Occurrences |-> 0]

\* Faulty variant: the token outlives the claim.
LeaveWithToken(w) ==
  /\ pc' = [pc EXCEPT ![w] = "idle"]
  /\ claimed' = [claimed EXCEPT ![w] = None]
  /\ UNCHANGED <<token, tried>>

\* _executeClaim returns or throws, or the process dies.
Leave(w) ==
  /\ pc' = [pc EXCEPT ![w] = "idle"]
  /\ claimed' = [claimed EXCEPT ![w] = None]
  /\ token' = [token EXCEPT ![w] = 0]
  /\ tried' = [tried EXCEPT ![w] = 0]

\* _executeClaim goes on with the same claim.
Goto(w, phase) ==
  /\ pc' = [pc EXCEPT ![w] = phase]
  /\ UNCHANGED <<claimed, token, tried>>

HoldsClaim(w) == HoldsLease(w, claimed[w], token[w], 0)

-----------------------------------------------------------------------------

\* The claim the store just made for w, if it made one.
TakeClaim(w) ==
  \/ \E o \in Occurrences :
       /\ fence'[o] # fence[o]
       /\ pc' = [pc EXCEPT ![w] = "claimed"]
       /\ claimed' = [claimed EXCEPT ![w] = o]
       /\ token' = [token EXCEPT ![w] = fence'[o]]
       /\ tried' = [tried EXCEPT ![w] = attempt'[o]]
  \/ fence' = fence /\ UNCHANGED workerVars

RunNext(w, l) ==
  /\ pc[w] = "idle"
  /\ ClaimNext(w, Jobs, l)
  /\ TakeClaim(w)
  /\ UNCHANGED effects

RunOccurrence(w, o, l) ==
  /\ pc[w] = "idle"
  /\ status[o] \notin {"succeeded", "dead_letter"}
  /\ ClaimOccurrence(w, o, l)
  /\ TakeClaim(w)
  /\ UNCHANGED effects

\* A settlement as failed; the store decides between retry and dead letter.
SettleFailed(w, retryable) ==
  LET o == claimed[w] IN
  \/ retryable /\ SettleRetry(w, o, token[w], 0)
  \/ SettleDeadLetter(w, o, token[w], retryable, "execution_failed")

\* The job is read once, right after the claim: a revision that comes later is
\* not seen.
CurrentRevision(w) ==
  /\ pc[w] = "claimed"
  /\ revision[JobOf(claimed[w])] = claimed[w][2]
  /\ Goto(w, "authorizing")
  /\ UNCHANGED <<vars, effects>>

StaleRevision(w) ==
  /\ pc[w] = "claimed"
  /\ revision[JobOf(claimed[w])] # claimed[w][2]
  /\ SettleFailed(w, FALSE)
  /\ Leave(w)
  /\ UNCHANGED effects

\* The authorizer denies, which is final, or fails to answer.
NotAuthorized(w) ==
  /\ pc[w] = "authorizing"
  /\ \E retryable \in BOOLEAN : SettleFailed(w, retryable)
  /\ Leave(w)
  /\ UNCHANGED effects

\* The renewal after the authorizer's answer.
Revalidate(w, l) ==
  /\ pc[w] = "authorizing"
  /\ Renew(w, claimed[w], token[w], l)
  /\ Goto(w, "renewed")
  /\ UNCHANGED effects

\* The caller has aborted meanwhile.
Aborted(w) ==
  /\ pc[w] = "renewed"
  /\ SettleFailed(w, TRUE)
  /\ Leave(w)
  /\ UNCHANGED effects

\* readPendingPause before the adapter is called.  A worker that stalled may
\* find the pause bound to the claim of its successor.
ReadPause(w) ==
  LET o == claimed[w] IN
  /\ pc[w] = "renewed"
  /\ Goto(w, IF control[o] # "pause_requested" THEN "unpaused"
             ELSE IF controlFence[o] = token[w] THEN "pausing"
             ELSE "reject")
  /\ UNCHANGED <<vars, effects>>

\* readResumingControl.  (Before an acknowledgement its answer is not used, and
\* it throws only where the acknowledgement does, for a lost lease.)
ReadResume(w) ==
  LET o == claimed[w] IN
  /\ pc[w] = "unpaused"
  /\ Goto(w, IF control[o] = "resumed" /\ controlFence[o] # token[w]
             THEN "reject" ELSE "prepared")
  /\ UNCHANGED <<vars, effects>>

\* The adjudication, if pending, belongs to this claim.
BoundAdjudication(w) ==
  LET o == claimed[w] IN
  /\ tried[w] \in (expectedAttempt[o] + 1)..
                    GrantedAttempts(expectedAttempt[o], decision[o])
  /\ expectedFence[o] < token[w]

\* Faulty variant: any decision about the attempt before permits a replay.
AuthorizedByAnyDecision(w) == expectedAttempt[claimed[w]] + 1 = tried[w]

\* The loop adapter replays a later attempt only on a confirmed_not_applied
\* adjudication of the attempt before.
AuthorizedRetry(w) ==
  /\ decision[claimed[w]] = "confirmed_not_applied"
  /\ expectedAttempt[claimed[w]] + 1 = tried[w]

\* Faulty variant: later attempts are not told from the first.
PlanWithoutReplayGuard(w) ==
  LET pending == adjudication[claimed[w]] = "pending" IN
  IF pending /\ ~ BoundAdjudication(w) THEN "reject"
  ELSE IF pending /\ decision[claimed[w]] = "confirmed_applied" THEN "apply"
  ELSE "execute"

\* What the adjudication makes of the claim.
Plan(w) ==
  LET pending == adjudication[claimed[w]] = "pending" IN
  IF pending /\ ~ BoundAdjudication(w) THEN "reject"
  ELSE IF pending /\ decision[claimed[w]] = "confirmed_applied" THEN "apply"
  ELSE IF tried[w] > 1 /\ ~ AuthorizedRetry(w) THEN "refuse"
  ELSE "execute"

\* The adjudication is read once, into the context of the adapter.
ReadAdjudication(w) ==
  /\ pc[w] = "prepared"
  /\ Goto(w, Plan(w))
  /\ UNCHANGED <<vars, effects>>

\* The loop adapter's checkpoint() before the runner finds a pause.
Checkpoint(w) ==
  LET o == claimed[w] IN
  /\ pc[w] = "execute"
  /\ control[o] = "pause_requested"
  /\ Goto(w, IF controlFence[o] = token[w] THEN "stopping" ELSE "reject")
  /\ UNCHANGED <<vars, effects>>

\* It finds none: the runner starts.
StartRunner(w) ==
  /\ pc[w] = "execute"
  /\ control[claimed[w]] # "pause_requested"
  /\ Goto(w, "running")
  /\ effects' = [effects EXCEPT ![claimed[w]] = @ + 1]
  /\ UNCHANGED vars

\* acknowledgePause.  The control has the revision that was read as long as the
\* lease is held.
PauseAt(w, point, lag) ==
  LET o == claimed[w] IN
  /\ pc[w] = IF point = "before_execute" THEN "pausing" ELSE "stopping"
  /\ AckPause(w, o, token[w], controlRevision[o], point, lag)
  /\ Leave(w)
  /\ UNCHANGED effects

\* The renewal timer.
RenewTimer(w, l) ==
  /\ pc[w] = "running"
  /\ Renew(w, claimed[w], token[w], l)
  /\ UNCHANGED <<workerVars, effects>>

FinishRunner(w) ==
  /\ pc[w] = "running"
  /\ \/ SettleSucceeded(w, claimed[w], token[w])
     \/ SettleFailed(w, FALSE)
  /\ Leave(w)
  /\ UNCHANGED effects

\* adjudicate() settled a confirmed_applied outcome without the runner.
ApplyAdjudication(w) ==
  /\ pc[w] = "apply"
  /\ SettleSucceeded(w, claimed[w], token[w])
  /\ Leave(w)
  /\ UNCHANGED effects

\* Settled without the runner: the adapter refuses a replay, or the control or
\* adjudication it was given belongs to another claim.
SettleUnexecuted(w) ==
  /\ pc[w] \in {"refuse", "reject"}
  /\ SettleDeadLetter(w, claimed[w], token[w], FALSE,
                      IF pc[w] = "refuse" THEN "outcome_unknown"
                                          ELSE "execution_failed")
  /\ Leave(w)
  /\ UNCHANGED effects

\* Renewal, settlement or acknowledgement finds the lease lost and throws.  The
\* phases left out check no token on their way.
LoseLease(w) ==
  /\ pc[w] \notin {"idle", "unpaused", "prepared", "execute"}
  /\ pc[w] = "claimed" => revision[JobOf(claimed[w])] # claimed[w][2]
  /\ ~ HoldsClaim(w)
  /\ Leave(w)
  /\ UNCHANGED <<vars, effects>>

Crash(w) ==
  /\ pc[w] # "idle"
  /\ Leave(w)
  /\ UNCHANGED <<vars, effects>>

-----------------------------------------------------------------------------

\* The steps that carry a claim on.
Proceed(w) ==
  \/ CurrentRevision(w)
  \/ StaleRevision(w)
  \/ NotAuthorized(w)
  \/ \E l \in LeaseLengths : Revalidate(w, l)
  \/ Aborted(w)
  \/ ReadPause(w)
  \/ ReadResume(w)
  \/ ReadAdjudication(w)
  \/ Checkpoint(w)
  \/ StartRunner(w)
  \/ \E p \in SafePoints, g \in Lags : PauseAt(w, p, g)
  \/ FinishRunner(w)
  \/ ApplyAdjudication(w)
  \/ SettleUnexecuted(w)
  \/ LoseLease(w)

Poll(w) ==
  \E l \in LeaseLengths :
    \/ RunNext(w, l)
    \/ \E o \in Occurrences : RunOccurrence(w, o, l)

\* Operators adjudicate an occurrence only once the hosts that were given it
\* are stopped and drained, as the operating instructions demand.
Drained ==
  \A o \in Occurrences :
    adjudication'[o] # adjudication[o] => \A w \in Owners : claimed[w] # o

RuntimeNext ==
  \/ \E w \in Owners :
       \/ Poll(w)
       \/ Proceed(w)
       \/ \E l \in LeaseLengths : RenewTimer(w, l)
       \/ Crash(w)
  \/ AdminStep /\ UNCHANGED <<workerVars, effects>>
  \/ OperatorStep /\ Drained /\ UNCHANGED <<workerVars, effects>>
  \/ Tick /\ UNCHANGED <<workerVars, effects>>

RuntimeSpec == RuntimeInit /\ [][RuntimeNext]_runtimeVars

\* Time passes, hosts keep polling (SchedulerService ticks, loop drivers), and
\* a runner returns: nothing bounds it, so that is assumed of the loops.
Fairness ==
  /\ WF_runtimeVars(Tick /\ UNCHANGED <<workerVars, effects>>)
  /\ \A w \in Owners :
       /\ WF_runtimeVars(\E l \in LeaseLengths : RunNext(w, l))
       /\ WF_runtimeVars(Proceed(w))

FairRuntimeSpec == RuntimeSpec /\ Fairness

-----------------------------------------------------------------------------
(* Properties.                                                             *)

\* The worker columns hold what _executeClaim can be in; a busy worker has a
\* claim it was given.
WorkerTypeOK ==
  /\ pc \in [Owners -> Phases]
  /\ effects \in [Occurrences -> Nat]
  /\ \A w \in Owners :
       IF pc[w] = "idle"
       THEN claimed[w] = None /\ token[w] = 0 /\ tried[w] = 0
       ELSE /\ claimed[w] \in Occurrences
            /\ token[w] \in 1..fence[claimed[w]]
            /\ tried[w] \in Nat

\* "A reclaimed first attempt is not replayed" (loop-adapter.js, on
\* maxAttempts): the runner starts once per occurrence, plus once for an
\* operator's confirmed_not_applied and once per requeue.
Permitted(o) ==
  1 + (IF decision[o] = "confirmed_not_applied" THEN 1 ELSE 0)
    + Cardinality({q \in RetryRequests : retryOf[q] = o})

ReplayOnlyWhenPermitted ==
  \A o \in Occurrences : effects[o] <= Permitted(o)

\* Every start of the runner but the first, and the one that an operator's
\* confirmed_not_applied granted, was in a claim that consumed no attempt: one
\* that served a requeue, a pause or a resume.  No crash, lost lease or takeover
\* starts it again for nothing.
StartsAccountedFor ==
  \A o \in Occurrences :
    effects[o] <= fence[o] - attempt[o] + 1
                    + (IF decision[o] = "confirmed_not_applied" THEN 1 ELSE 0)

\* confirmed_applied only settles: from the decision on the runner is never
\* started again, whatever crashes, lost leases or requeues follow.
ConfirmedAppliedNeverReplays ==
  [][\A o \in Occurrences :
       decision[o] = "confirmed_applied" => effects'[o] = effects[o]]_runtimeVars

\* An executor that holds its lease is never handed a control or an adjudication
\* of another claim: CONTROL_FENCE_MISMATCH and ADJUDICATION_BINDING_MISMATCH
\* are thrown only in a worker that stalled past its lease, whose settlement the
\* store then refuses.  No occurrence is dead-lettered by them, however pauses,
\* takeovers, retries and requeues fall between its reads.
ClaimsKeepTheirBindings ==
  \A w \in Owners : pc[w] = "reject" => ~ HoldsClaim(w)

\* Two workers have the runner of one occurrence in flight only across a requeue:
\* an operator asked for the second run after the first worker's claim, although
\* a worker that lost its lease goes on until its next store call.
OneRunnerAtATime ==
  \A v, w \in Owners :
    /\ pc[v] = "running" /\ pc[w] = "running"
    /\ claimed[v] = claimed[w] /\ token[v] < token[w]
    => \E q \in RetryRequests :
         retryOf[q] = claimed[v] /\ retryFence[q] \in token[v]..(token[w] - 1)

\* An occurrence that was enqueued ends, even if workers keep crashing.
EveryOccurrenceSettles ==
  \A o \in Occurrences :
    status[o] \in {"queued", "running", "retry_wait"}
      ~> status[o] \in {"succeeded", "dead_letter"}
=============================================================================
