----------------------- MODULE SchedulerRuntimeProofs -----------------------
(***************************************************************************)
(* Theorems about SchedulerRuntime: executors only take steps the store    *)
(* allows, so that its theorems hold of them, and what their runners do.   *)
(***************************************************************************)
EXTENDS SchedulerRuntime, SchedulerStoreProofs

\* Settlements and renewals of a worker are those of the owner of its claim.
LEMMA OwnerSteps ==
  ASSUME WorkerTypeOK, NEW w \in Owners, pc[w] # "idle"
  PROVE  /\ \A r \in BOOLEAN : SettleFailed(w, r) => OwnerStep(w)
         /\ \A l \in LeaseLengths :
              Renew(w, claimed[w], token[w], l) => OwnerStep(w)
         /\ SettleSucceeded(w, claimed[w], token[w]) => OwnerStep(w)
         /\ \A e \in Failures :
              SettleDeadLetter(w, claimed[w], token[w], FALSE, e)
                => OwnerStep(w)
         /\ \A p \in SafePoints, g \in Lags :
              AckPause(w, claimed[w], token[w],
                       controlRevision[claimed[w]], p, g)
                => OwnerStep(w)
<1> DEFINE o == claimed[w]
<1>1. o \in Occurrences
  BY DEF WorkerTypeOK
<1>2. 0 \in 0..MaxDelay
  BY ConstantsAssumption
<1>3. ASSUME NEW r \in BOOLEAN, SettleFailed(w, r)
      PROVE  OwnerStep(w)
  <2>1. CASE SettleRetry(w, o, token[w], 0)
    <3>1. token[w] = fence[o]
      BY <2>1 DEF SettleRetry, HoldsLease
    <3> QED
      BY <1>1, <1>2, <2>1, <3>1 DEF OwnerStep
  <2>2. CASE SettleDeadLetter(w, o, token[w], r, "execution_failed")
    <3>1. token[w] = fence[o]
      BY <2>2 DEF SettleDeadLetter, HoldsLease
    <3> QED
      BY <1>1, <2>2, <3>1 DEF OwnerStep, Failures
  <2> QED
    BY <1>3, <2>1, <2>2 DEF SettleFailed
<1>4. ASSUME NEW l \in LeaseLengths, Renew(w, o, token[w], l)
      PROVE  OwnerStep(w)
  <2>1. token[w] = fence[o]
    BY <1>4 DEF Renew, HoldsLease
  <2> QED
    BY <1>1, <1>4, <2>1 DEF OwnerStep
<1>5. ASSUME SettleSucceeded(w, o, token[w])
      PROVE  OwnerStep(w)
  <2>1. token[w] = fence[o]
    BY <1>5 DEF SettleSucceeded, HoldsLease
  <2> QED
    BY <1>1, <1>5, <2>1 DEF OwnerStep
<1>6. ASSUME NEW e \in Failures, SettleDeadLetter(w, o, token[w], FALSE, e)
      PROVE  OwnerStep(w)
  <2>1. token[w] = fence[o]
    BY <1>6 DEF SettleDeadLetter, HoldsLease
  <2> QED
    BY <1>1, <1>6, <2>1 DEF OwnerStep
<1>7. ASSUME NEW p \in SafePoints, NEW g \in Lags,
             AckPause(w, o, token[w], controlRevision[o], p, g)
      PROVE  OwnerStep(w)
  <2>1. token[w] = fence[o]
    BY <1>7 DEF AckPause, HoldsLease
  <2> QED
    BY <1>1, <1>7, <2>1 DEF OwnerStep
<1> QED
  BY <1>3, <1>4, <1>5, <1>6, <1>7

-----------------------------------------------------------------------------
(* Every step of a worker, by what it does to the store and to the worker. *)

BeforeStart == {"claimed", "authorizing", "renewed", "unpaused", "prepared",
                "execute"}

\* A control that is live for another claim than that of w.
Foreign(w) ==
  /\ control[claimed[w]] \in {"pause_requested", "resumed"}
  /\ controlFence[claimed[w]] # token[w]

\* A worker goes from one phase of its claim to another.
Moves(w) ==
  /\ pc[w] \in BeforeStart
  /\ pc[w] = "claimed" => Goto(w, "authorizing")
  /\ \/ \E x \in {"authorizing", "renewed", "unpaused", "prepared", "pausing",
                  "stopping"} : Goto(w, x)
     \/ Foreign(w) /\ Goto(w, "reject") /\ UNCHANGED vars
     \/ ReadAdjudication(w)
     \/ StartRunner(w)

Polls(w) ==
  /\ pc[w] = "idle"
  /\ ClaimStep(w)
  /\ TakeClaim(w)
  /\ UNCHANGED effects

\* What a busy worker does.
Works(w) ==
  /\ pc[w] # "idle"
  /\ OwnerStep(w) \/ UNCHANGED vars
  /\ Leave(w) \/ Moves(w) \/ UNCHANGED workerVars
  /\ StartRunner(w) \/ UNCHANGED effects

\* The cases of a runtime step that the proofs below go through.
LEMMA RuntimeCases ==
  ASSUME WorkerTypeOK, RuntimeNext
  PROVE  \/ \E w \in Owners : Polls(w) \/ Works(w)
         \/ AdminStep /\ UNCHANGED <<workerVars, effects>>
         \/ OperatorStep /\ Drained /\ UNCHANGED <<workerVars, effects>>
         \/ Tick /\ UNCHANGED <<workerVars, effects>>
<1>1. ASSUME NEW w \in Owners, Poll(w)
      PROVE  Polls(w)
  BY <1>1 DEF Poll, RunNext, RunOccurrence, Polls, ClaimStep
<1>2. ASSUME NEW w \in Owners, Proceed(w)
      PROVE  Works(w)
  <2>1. CASE CurrentRevision(w)
    BY <2>1 DEF CurrentRevision, Works, Moves, BeforeStart
  <2>2. CASE StaleRevision(w)
    BY <2>2, OwnerSteps DEF StaleRevision, Works
  <2>3. CASE NotAuthorized(w)
    BY <2>3, OwnerSteps DEF NotAuthorized, Works
  <2>4. ASSUME NEW l \in LeaseLengths, Revalidate(w, l)
        PROVE  Works(w)
    <3>1. OwnerStep(w)
      BY <2>4, OwnerSteps DEF Revalidate
    <3>2. Moves(w)
      BY <2>4 DEF Revalidate, Moves, BeforeStart
    <3> QED
      BY <2>4, <3>1, <3>2 DEF Revalidate, Works
  <2>5. ASSUME NEW p \in SafePoints, NEW g \in Lags, PauseAt(w, p, g)
        PROVE  Works(w)
    <3>1. pc[w] # "idle" /\ pc[w] \in {"pausing", "stopping"}
      BY <2>5 DEF PauseAt
    <3>2. OwnerStep(w)
      BY <2>5, <3>1, OwnerSteps DEF PauseAt
    <3> QED
      BY <2>5, <3>1, <3>2 DEF PauseAt, Works
  <2>6. CASE StartRunner(w)
    BY <2>6 DEF StartRunner, Works, Moves, BeforeStart
  <2>7. CASE FinishRunner(w)
    BY <2>7, OwnerSteps DEF FinishRunner, Works
  <2>8. CASE ApplyAdjudication(w)
    BY <2>8, OwnerSteps DEF ApplyAdjudication, Works
  <2>9. CASE SettleUnexecuted(w)
    BY <2>9, OwnerSteps
    DEF SettleUnexecuted, Works, Failures
  <2>10. CASE LoseLease(w)
    BY <2>10 DEF LoseLease, Works
  <2>11. CASE Aborted(w)
    BY <2>11, OwnerSteps DEF Aborted, Works
  <2>12. CASE ReadPause(w)
    BY <2>12 DEF ReadPause, Works, Moves, BeforeStart, Foreign
  <2>13. CASE ReadResume(w)
    BY <2>13 DEF ReadResume, Works, Moves, BeforeStart, Foreign
  <2>14. CASE ReadAdjudication(w)
    BY <2>14 DEF ReadAdjudication, Works, Moves, BeforeStart
  <2>15. CASE Checkpoint(w)
    BY <2>15 DEF Checkpoint, Works, Moves, BeforeStart, Foreign
  <2> QED
    BY <1>2, <2>1, <2>2, <2>3, <2>4, <2>5, <2>6, <2>7, <2>8, <2>9, <2>10,
       <2>11, <2>12, <2>13, <2>14, <2>15
    DEF Proceed
<1>3. ASSUME NEW w \in Owners, NEW l \in LeaseLengths, RenewTimer(w, l)
      PROVE  Works(w)
  BY <1>3, OwnerSteps DEF RenewTimer, Works
<1>4. ASSUME NEW w \in Owners, Crash(w)
      PROVE  Works(w)
  BY <1>4 DEF Crash, Works
<1> QED
  BY <1>1, <1>2, <1>3, <1>4 DEF RuntimeNext

\* The store sees only its own steps.
LEMMA StoreStep ==
  ASSUME WorkerTypeOK, [RuntimeNext]_runtimeVars
  PROVE  [Next]_vars
<1>1. CASE RuntimeNext
  BY <1>1, RuntimeCases DEF Polls, Works, StartRunner, Next
<1>2. CASE UNCHANGED runtimeVars
  BY <1>2 DEF runtimeVars
<1> QED
  BY <1>1, <1>2

\* Fences grow by claims.
LEMMA FencesGrow ==
  ASSUME TypeOK, [Next]_vars, NEW o \in Occurrences
  PROVE  fence'[o] \in {fence[o], fence[o] + 1}
  BY StepIsRowStep DEF RowStep

WorkerRow(w) ==
  IF pc[w] = "idle" THEN claimed[w] = None /\ token[w] = 0 /\ tried[w] = 0
  ELSE claimed[w] \in Occurrences /\ token[w] \in 1..fence[claimed[w]]

WorkerColumns ==
  /\ pc \in [Owners -> Phases]
  /\ claimed \in [Owners -> Occurrences \cup {None}]
  /\ token \in [Owners -> Nat]
  /\ tried \in [Owners -> Nat]
  /\ effects \in [Occurrences -> Nat]

WorkerInv == TypeOK /\ WorkerColumns /\ \A w \in Owners : WorkerRow(w)

\* The parts of WorkerTypeOK, and that the columns are functions.
LEMMA WorkerInvTyped == WorkerInv => TypeOK /\ WorkerTypeOK
  BY DEF WorkerInv, WorkerColumns, WorkerRow, WorkerTypeOK

\* Rows of workers stay typed: a claim is given to whoever was idle.
LEMMA StepWorker ==
  ASSUME WorkerInv, [RuntimeNext]_runtimeVars
  PROVE  WorkerInv'
<1> USE ConstantsAssumption
<1>1. TypeOK /\ WorkerTypeOK /\ [Next]_vars
  BY WorkerInvTyped, StoreStep
<1>2. TypeOK'
  BY <1>1, StepTyped
<1>t. /\ WorkerColumns
      /\ \A w \in Owners : WorkerRow(w)
      /\ \A o \in Occurrences : fence[o] \in Nat /\ fence'[o] \in Nat
      /\ \A o \in Occurrences : fence'[o] \in {fence[o], fence[o] + 1}
      /\ \A o \in Occurrences : attempt'[o] \in Nat
  BY <1>1, <1>2, FencesGrow DEF WorkerInv, TypeOK, OccurrenceTypeOK
<1>3. ASSUME UNCHANGED workerVars
      PROVE  \A w \in Owners : WorkerRow(w)'
  BY <1>3, <1>t DEF WorkerRow, WorkerColumns, workerVars
<1>4. ASSUME NEW w \in Owners, Polls(w)
      PROVE  WorkerColumns' /\ \A v \in Owners : WorkerRow(v)'
  <2>1. CASE UNCHANGED workerVars
    BY <1>3, <1>4, <1>t, <2>1 DEF Polls, WorkerColumns, workerVars
  <2>2. CASE \E o \in Occurrences :
               /\ fence'[o] # fence[o]
               /\ pc' = [pc EXCEPT ![w] = "claimed"]
               /\ claimed' = [claimed EXCEPT ![w] = o]
               /\ token' = [token EXCEPT ![w] = fence'[o]]
               /\ tried' = [tried EXCEPT ![w] = attempt'[o]]
    <3>1. PICK o \in Occurrences :
               /\ fence'[o] # fence[o]
               /\ pc' = [pc EXCEPT ![w] = "claimed"]
               /\ claimed' = [claimed EXCEPT ![w] = o]
               /\ token' = [token EXCEPT ![w] = fence'[o]]
               /\ tried' = [tried EXCEPT ![w] = attempt'[o]]
      BY <2>2
    <3>2. fence'[o] \in Nat \ {0}
      BY <1>t, <3>1
    <3>3. WorkerColumns'
      BY <1>4, <1>t, <3>1, <3>2 DEF Polls, WorkerColumns, Phases
    <3>4. WorkerRow(w)'
      BY <1>t, <3>1, <3>2 DEF WorkerColumns, WorkerRow
    <3>5. ASSUME NEW v \in Owners, v # w
          PROVE  WorkerRow(v)'
      <4>1. /\ pc'[v] = pc[v] /\ claimed'[v] = claimed[v]
            /\ token'[v] = token[v] /\ tried'[v] = tried[v]
        BY <1>t, <3>1, <3>5 DEF WorkerColumns
      <4> QED
        BY <1>t, <4>1 DEF WorkerColumns, WorkerRow
    <3> QED
      BY <3>3, <3>4, <3>5
  <2> QED
    BY <1>4, <2>1, <2>2 DEF Polls, TakeClaim
<1>5. ASSUME NEW w \in Owners, Works(w)
      PROVE  WorkerColumns' /\ \A v \in Owners : WorkerRow(v)'
  <2>1. claimed[w] \in Occurrences
    BY <1>5, <1>t DEF Works, WorkerRow
  <2>2. effects' \in [Occurrences -> Nat]
    BY <1>5, <1>t, <2>1 DEF Works, StartRunner, WorkerColumns
  <2>3. CASE UNCHANGED workerVars
    BY <1>3, <1>t, <2>2, <2>3 DEF WorkerColumns, workerVars
  <2>4. CASE Leave(w)
    BY <1>t, <2>2, <2>4 DEF Leave, WorkerColumns, WorkerRow, Phases
  <2>5. CASE Moves(w)
    <3>1. \E x \in Phases \ {"idle"} : Goto(w, x)
      BY <2>5
      DEF Moves, StartRunner, ReadAdjudication, Plan, Phases
    <3> QED
      BY <1>5, <1>t, <2>2, <3>1 DEF Works, Goto, WorkerColumns, WorkerRow
  <2> QED
    BY <1>5, <2>3, <2>4, <2>5 DEF Works
<1>6. ASSUME UNCHANGED <<workerVars, effects>>
      PROVE  WorkerColumns' /\ \A v \in Owners : WorkerRow(v)'
  BY <1>3, <1>6, <1>t DEF WorkerColumns, workerVars
<1>7. CASE RuntimeNext
  BY <1>1, <1>2, <1>4, <1>5, <1>6, <1>7, RuntimeCases DEF WorkerInv
<1>8. CASE UNCHANGED runtimeVars
  BY <1>2, <1>6, <1>8 DEF WorkerInv, runtimeVars
<1> QED
  BY <1>7, <1>8

\* The initial workers are idle.
LEMMA InitWorker == RuntimeInit => WorkerInv
  BY InitTyped
  DEF RuntimeInit, WorkerInv, WorkerColumns, WorkerRow, Phases

\* Workers hold claims they were given, whatever store, operators and clock do.
THEOREM WorkersTyped == RuntimeSpec => []WorkerTypeOK
<1>1. WorkerInv /\ [RuntimeNext]_runtimeVars => WorkerInv'
  BY StepWorker
<1>2. WorkerInv => WorkerTypeOK
  BY WorkerInvTyped
<1> QED
  BY <1>1, <1>2, InitWorker, PTL DEF RuntimeSpec

\* Executors implement the store: each of their behaviours is one of its
\* behaviours, so that every theorem about Spec holds of them.
THEOREM RuntimeImplementsStore == RuntimeSpec => Spec
<1>1. RuntimeInit => Init
  BY DEF RuntimeInit
<1>2. WorkerInv /\ [RuntimeNext]_runtimeVars => WorkerInv' /\ [Next]_vars
  BY StepWorker, StoreStep, WorkerInvTyped
<1> QED
  BY <1>1, <1>2, InitWorker, PTL DEF RuntimeSpec, Spec

-----------------------------------------------------------------------------
(* How the claim of a worker fares.                                        *)

\* w goes on with its claim.
Keeps(w) ==
  /\ pc[w] # "idle"
  /\ claimed'[w] = claimed[w] /\ token'[w] = token[w] /\ tried'[w] = tried[w]
  /\ \/ pc'[w] = pc[w]
     \/ /\ pc[w] \in BeforeStart
        /\ \/ pc'[w] \in {"authorizing", "renewed", "unpaused", "prepared",
                          "pausing", "stopping"}
           \/ pc'[w] = "reject" /\ Foreign(w)
           \/ pc'[w] = Plan(w)
           \/ pc'[w] = "running" /\ pc[w] = "execute"

\* w is given the claim of o that was just made.
Gains(w, o) ==
  /\ pc[w] = "idle" /\ pc'[w] = "claimed" /\ fence'[o] # fence[o]
  /\ claimed'[w] = o /\ token'[w] = fence'[o] /\ tried'[w] = attempt'[o]

\* One step gives at most one claim.
LEMMA WorkerMoves ==
  ASSUME WorkerInv, [RuntimeNext]_runtimeVars, NEW v \in Owners,
         pc'[v] # "idle"
  PROVE  \/ Keeps(v)
         \/ /\ \E o \in Occurrences : Gains(v, o)
            /\ \A w \in Owners : pc[w] = "idle" /\ pc'[w] # "idle" => w = v
<1>1. WorkerTypeOK /\ WorkerColumns
  BY WorkerInvTyped DEF WorkerInv
<1>2. CASE UNCHANGED workerVars
  BY <1>2 DEF workerVars, Keeps, WorkerInv, WorkerRow, WorkerColumns
<1>3. ASSUME NEW w \in Owners, Polls(w)
      PROVE  \/ Keeps(v)
             \/ /\ \E o \in Occurrences : Gains(v, o)
                /\ \A u \in Owners : pc[u] = "idle" /\ pc'[u] # "idle" => u = v
  <2>1. CASE \E o \in Occurrences :
               /\ fence'[o] # fence[o]
               /\ pc' = [pc EXCEPT ![w] = "claimed"]
               /\ claimed' = [claimed EXCEPT ![w] = o]
               /\ token' = [token EXCEPT ![w] = fence'[o]]
               /\ tried' = [tried EXCEPT ![w] = attempt'[o]]
    <3>1. CASE v = w
      BY <1>1, <1>3, <2>1, <3>1 DEF Polls, Gains, WorkerColumns
    <3>2. CASE v # w
      BY <1>1, <2>1, <3>2 DEF Keeps, WorkerColumns
    <3> QED
      BY <3>1, <3>2
  <2> QED
    BY <1>2, <1>3, <2>1 DEF Polls, TakeClaim
<1>4. ASSUME NEW w \in Owners, Works(w)
      PROVE  Keeps(v)
  <2>1. CASE Leave(w)
    BY <1>1, <2>1 DEF Leave, Keeps, WorkerColumns
  <2>2. ASSUME NEW x, Goto(w, x), pc[w] # "idle", v # w
        PROVE  Keeps(v)
    BY <1>1, <2>2 DEF Goto, Keeps, WorkerColumns
  <2>3. CASE Moves(w)
    BY <1>1, <1>4, <2>2, <2>3
    DEF Moves, ReadAdjudication, StartRunner, Goto, Keeps, BeforeStart,
        WorkerColumns
  <2> QED
    BY <1>2, <1>4, <2>1, <2>3 DEF Works, workerVars, Keeps
<1> QED
  BY <1>1, <1>2, <1>3, <1>4, RuntimeCases DEF runtimeVars, workerVars, Keeps

\* A lease that is lost under a token stays lost.
LEMMA LostIsLost ==
  ASSUME TypeOK, [Next]_vars, NEW o \in Occurrences, NEW w \in Owners,
         NEW f \in Nat, f <= fence[o], HoldsLease(w, o, f, 0)'
  PROVE  HoldsLease(w, o, f, 0)
<1>1. /\ fence[o] \in Nat /\ lease[o] \in Int
      /\ lease'[o] \in Int
  BY StepTyped, ConstantsAssumption DEF TypeOK, OccurrenceTypeOK
<1> QED
  BY <1>1, StepIsRowStep DEF RowStep, HoldsLease

\* The control of another claim is met only by a worker that lost its lease.
LEMMA ForeignIsLost ==
  ASSUME SideInvariant, NEW w \in Owners, claimed[w] \in Occurrences,
         Foreign(w)
  PROVE  ~ HoldsClaim(w)
<1>1. ControlMatches(claimed[w])
  BY DEF SideInvariant, BudgetInvariant, BudgetInv
<1> QED
  BY <1>1 DEF ControlMatches, Foreign, HoldsClaim, HoldsLease

-----------------------------------------------------------------------------
(* What a worker decides when it has read its adjudication.                *)

\* The claims an adapter executes: a first attempt, or the one that an
\* operator's confirmed_not_applied granted.
ExecutableClaim(w) ==
  \/ tried[w] <= 1
  \/ /\ decision[claimed[w]] = "confirmed_not_applied"
     /\ tried[w] = expectedAttempt[claimed[w]] + 1

\* What the copy of a worker says of the row.
CopyFits(w) ==
  /\ tried[w] <= attempt[claimed[w]]
  /\ decision[claimed[w]] # "none" => tried[w] > expectedAttempt[claimed[w]]
  /\ adjudication[claimed[w]] = "pending" =>
       token[w] > expectedFence[claimed[w]]

\* The plan of a claim, whether or not its lease is still held: a pending
\* adjudication is its own, and only what may be executed is.
LEMMA PlanOfClaim ==
  ASSUME SideInvariant, WorkerColumns, NEW w \in Owners,
         claimed[w] \in Occurrences, CopyFits(w)
  PROVE  /\ Plan(w) \in {"apply", "refuse", "execute"}
         /\ Plan(w) = "execute" => ExecutableClaim(w)
<1> DEFINE o == claimed[w]
<1> USE ConstantsAssumption
<1>t. /\ attempt[o] \in Nat /\ maxAttempts[o] \in Nat
      /\ expectedAttempt[o] \in Nat /\ expectedFence[o] \in Nat
      /\ adjudication[o] \in {"none", "pending", "applied"}
      /\ decision[o] \in Decisions \cup {"none"}
      /\ tried[w] \in Nat /\ token[w] \in Nat
  BY DEF SideInvariant, BudgetInvariant, TypeOK, SideTypeOK, OccurrenceTypeOK,
         WorkerColumns
<1>i. BudgetInv(o) /\ DecisionInv(o)
  BY DEF SideInvariant, BudgetInvariant
<1>1. adjudication[o] = "pending" => BoundAdjudication(w)
  <2> SUFFICES ASSUME adjudication[o] = "pending"
               PROVE  BoundAdjudication(w)
    OBVIOUS
  <2>1. /\ decision[o] \in Decisions
        /\ maxAttempts[o] = GrantedAttempts(expectedAttempt[o], decision[o])
        /\ attempt[o] <= maxAttempts[o]
    BY <1>i DEF DecisionInv, BudgetInv
  <2>2. /\ tried[w] > expectedAttempt[o] /\ token[w] > expectedFence[o]
        /\ tried[w] <= attempt[o]
    BY <2>1 DEF CopyFits, Decisions
  <2> QED
    BY <1>t, <2>1, <2>2, GrantIsLater DEF BoundAdjudication
<1> QED
  BY <1>1, <1>t DEF Plan, AuthorizedRetry, ExecutableClaim

\* Only an adjudication decides, and only where nothing was decided.
LEMMA OnlyAdjudicationDecides ==
  ASSUME SideInvariant, [Next]_vars, NEW p \in Occurrences,
         \/ decision'[p] # decision[p]
         \/ expectedAttempt'[p] # expectedAttempt[p]
         \/ expectedFence'[p] # expectedFence[p]
  PROVE  /\ OperatorStep /\ UNCHANGED <<fence, attempt>>
         /\ adjudication[p] = "none" /\ adjudication'[p] = "pending"
<1> USE ConstantsAssumption
<1>t. /\ adjudication \in [Occurrences -> {"none", "pending", "applied"}]
      /\ decision \in [Occurrences -> Decisions \cup {"none"}]
      /\ expectedAttempt \in [Occurrences -> Nat]
      /\ expectedFence \in [Occurrences -> Nat]
  BY DEF SideInvariant, BudgetInvariant, TypeOK, SideTypeOK
<1>1. ~ AdminStep
  BY AdminCases DEF EnqueueOccurrence, adjudicationVars
<1>2. ASSUME NEW w \in Owners
      PROVE  ~ ClaimStep(w)
  BY DEF ClaimStep, ClaimNext, ClaimOccurrence, DeadLetterExpiredLeases, Claim
<1>3. ASSUME NEW w \in Owners
      PROVE  ~ OwnerStep(w)
  BY DEF OwnerStep, Renew, SettleSucceeded, SettleRetry, SettleDeadLetter,
         AckPause, adjudicationVars
<1>4. ~ Tick /\ ~ UNCHANGED vars
  BY DEF Tick, vars, adjudicationVars
<1>5. OperatorStep
  BY <1>1, <1>2, <1>3, <1>4 DEF Next
<1>6. PICK o \in Occurrences, g \in Lags, d \in Decisions :
        Adjudicate(o, d, attempt[o], fence[o], g)
  BY <1>5
  DEF OperatorStep, RequestPause, Resume, RequeueDeadLetter, adjudicationVars
<1>7. p = o /\ adjudication'[p] = "pending" /\ adjudication[p] = "none"
  BY <1>6, <1>t DEF Adjudicate
<1> QED
  BY <1>5, <1>6, <1>7 DEF Adjudicate

\* What a step costs the occurrence it claims: an attempt, unless a control or
\* a requeue pays for it.
LEMMA StepCost ==
  ASSUME SideInvariant, [Next]_vars, NEW p \in Occurrences
  PROVE  \/ fence'[p] = fence[p] /\ attempt'[p] = attempt[p]
         \/ /\ fence'[p] = fence[p] + 1
            /\ status'[p] = "running"
            /\ \/ attempt'[p] = attempt[p] + 1
               \/ /\ attempt'[p] = attempt[p]
                  /\ control[p] = "none" =>
                       \E q \in RetryRequests :
                         retryOf[q] = p /\ retryFence[q] = fence[p]
<1> USE ConstantsAssumption
<1> DEFINE Goal == \/ fence'[p] = fence[p] /\ attempt'[p] = attempt[p]
                   \/ /\ fence'[p] = fence[p] + 1
                      /\ status'[p] = "running"
                      /\ \/ attempt'[p] = attempt[p] + 1
                         \/ /\ attempt'[p] = attempt[p]
                            /\ control[p] = "none" =>
                                 \E q \in RetryRequests :
                                   retryOf[q] = p /\ retryFence[q] = fence[p]
<1>t. /\ attempt \in [Occurrences -> Nat]
      /\ fence \in [Occurrences -> 0..MaxFence]
      /\ status \in [Occurrences -> Statuses]
  BY DEF SideInvariant, BudgetInvariant, TypeOK, OccurrenceTypeOK
<1>1. ASSUME UNCHANGED <<fence, attempt>>
      PROVE  Goal
  BY <1>1
<1>2. ASSUME NEW w \in Owners, NEW o \in Occurrences, NEW l \in LeaseLengths,
             Claim(w, o, l)
      PROVE  Goal
  <2>1. CASE p # o
    BY <1>2, <1>t, <2>1 DEF Claim
  <2>2. CASE p = o
    <3>1. fence'[p] = fence[p] + 1 /\ status'[p] = "running"
      BY <1>2, <1>t, <2>2 DEF Claim, Swept
    <3>2. attempt'[p] = IF KeepsAttempt(p) THEN attempt[p]
                        ELSE attempt[p] + 1
      BY <1>2, <1>t, <2>2 DEF Claim
    <3> QED
      BY <3>1, <3>2 DEF KeepsAttempt, OpenRetries
  <2> QED
    BY <2>1, <2>2
<1>3. CASE AdminStep
  BY <1>1, <1>3, AdminCases DEF EnqueueOccurrence, occurrenceVars
<1>4. ASSUME NEW w \in Owners, ClaimStep(w)
      PROVE  Goal
  <2>1. ASSUME DeadLetterExpiredLeases
        PROVE  Goal
    BY <1>1, <2>1 DEF DeadLetterExpiredLeases
  <2> QED
    BY <1>2, <1>4, <2>1 DEF ClaimStep, ClaimNext, ClaimOccurrence
<1>5. ASSUME NEW w \in Owners, OwnerStep(w)
      PROVE  UNCHANGED <<fence, attempt>>
  BY <1>5 DEF OwnerStep, Renew, SettleSucceeded, SettleRetry,
              SettleDeadLetter, AckPause
<1>6. CASE OperatorStep
  BY <1>1, <1>6
  DEF OperatorStep, RequestPause, Resume, RequeueDeadLetter, Adjudicate,
      occurrenceVars
<1>7. CASE Tick \/ UNCHANGED vars
  BY <1>1, <1>7 DEF Tick, vars, occurrenceVars
<1> QED
  BY <1>1, <1>3, <1>4, <1>5, <1>6, <1>7 DEF Next

\* What a worker decided fits its claim: it rejects a binding only when its
\* lease is lost, and it runs only what may be executed.
PlanFits(w) ==
  /\ pc[w] = "reject" => ~ HoldsClaim(w)
  /\ pc[w] \in {"execute", "running"} => ExecutableClaim(w)

PlanInv ==
  /\ WorkerInv
  /\ SideInvariant
  /\ \A w \in Owners : pc[w] # "idle" => CopyFits(w) /\ PlanFits(w)

\* Every step but an operator's leaves the decisions alone, and an operator
\* decides only about occurrences no worker has claimed.
LEMMA ClaimedDecisionStays ==
  ASSUME PlanInv, [RuntimeNext]_runtimeVars, NEW v \in Owners,
         pc[v] # "idle"
  PROVE  /\ decision'[claimed[v]] = decision[claimed[v]]
         /\ expectedAttempt'[claimed[v]] = expectedAttempt[claimed[v]]
         /\ expectedFence'[claimed[v]] = expectedFence[claimed[v]]
         /\ adjudication'[claimed[v]] = "pending" =>
              adjudication[claimed[v]] = "pending"
<1> DEFINE Goal == /\ decision'[claimed[v]] = decision[claimed[v]]
                   /\ expectedAttempt'[claimed[v]] = expectedAttempt[claimed[v]]
                   /\ expectedFence'[claimed[v]] = expectedFence[claimed[v]]
                   /\ adjudication'[claimed[v]] = "pending" =>
                        adjudication[claimed[v]] = "pending"
<1>1. WorkerTypeOK /\ WorkerInv /\ [Next]_vars /\ SideInvariant
  BY StoreStep, WorkerInvTyped DEF PlanInv
<1>2. /\ claimed[v] \in Occurrences
      /\ adjudication \in [Occurrences -> {"none", "pending", "applied"}]
  BY <1>1
  DEF WorkerInv, WorkerRow, SideInvariant, BudgetInvariant, TypeOK, SideTypeOK
<1>3. ASSUME NEW w \in Owners, Polls(w)
      PROVE  Goal
  BY <1>2, <1>3
  DEF Polls, ClaimStep, ClaimNext, ClaimOccurrence, DeadLetterExpiredLeases,
      Claim, SweepSideTables
<1>4. ASSUME NEW w \in Owners, Works(w)
      PROVE  Goal
  BY <1>2, <1>4
  DEF Works, OwnerStep, Renew, SettleSucceeded, SettleRetry,
      SettleDeadLetter, AckPause, CloseSideTables, adjudicationVars, vars
<1>5. CASE AdminStep
  BY <1>5, AdminCases DEF EnqueueOccurrence, adjudicationVars
<1>6. CASE OperatorStep /\ Drained
  BY <1>1, <1>2, <1>6, OnlyAdjudicationDecides DEF Drained
<1>7. CASE Tick
  BY <1>7 DEF Tick, adjudicationVars
<1>8. CASE UNCHANGED runtimeVars
  BY <1>8 DEF runtimeVars, vars, adjudicationVars
<1> QED
  BY <1>1, <1>3, <1>4, <1>5, <1>6, <1>7, <1>8, RuntimeCases

\* The copy of a worker that keeps its claim keeps fitting.
LEMMA CopyStays ==
  ASSUME PlanInv, [RuntimeNext]_runtimeVars, NEW v \in Owners, Keeps(v)
  PROVE  CopyFits(v)' /\ (ExecutableClaim(v) => ExecutableClaim(v)')
<1>1. WorkerInv /\ WorkerInv' /\ SideInvariant /\ [Next]_vars
  BY StepWorker, StoreStep, WorkerInvTyped DEF PlanInv
<1>2. /\ claimed[v] \in Occurrences
      /\ claimed'[v] = claimed[v] /\ token'[v] = token[v] /\ tried'[v] = tried[v]
      /\ CopyFits(v)
  BY <1>1 DEF Keeps, WorkerInv, WorkerRow, PlanInv
<1>3. /\ attempt[claimed[v]] \in Nat /\ tried[v] \in Nat
      /\ attempt'[claimed[v]] \in {attempt[claimed[v]], attempt[claimed[v]] + 1}
  BY <1>1, <1>2, StepCost
  DEF WorkerInv, WorkerColumns, TypeOK, OccurrenceTypeOK
<1>4. /\ decision'[claimed[v]] = decision[claimed[v]]
      /\ expectedAttempt'[claimed[v]] = expectedAttempt[claimed[v]]
      /\ expectedFence'[claimed[v]] = expectedFence[claimed[v]]
      /\ adjudication'[claimed[v]] = "pending" =>
           adjudication[claimed[v]] = "pending"
  BY ClaimedDecisionStays DEF Keeps
<1>5. CopyFits(v)'
  BY <1>2, <1>3, <1>4 DEF CopyFits
<1> QED
  BY <1>2, <1>4, <1>5 DEF ExecutableClaim

\* A claim that was just made lies past what was decided before.
LEMMA GainedFits ==
  ASSUME SideInvariant, [Next]_vars, NEW v \in Owners, NEW o \in Occurrences,
         Gains(v, o)
  PROVE  CopyFits(v)'
<1>1. SideInvariant' /\ status'[o] = "running"
  BY SideInductive, StepCost DEF Gains
<1>2. /\ attempt'[o] \in Nat /\ DecisionInv(o)'
      /\ adjudication'[o] \in {"none", "pending", "applied"}
  BY <1>1
  DEF SideInvariant, BudgetInvariant, TypeOK, OccurrenceTypeOK, SideTypeOK
<1>3. /\ decision'[o] # "none" => attempt'[o] > expectedAttempt'[o]
      /\ adjudication'[o] = "pending" => fence'[o] > expectedFence'[o]
  BY <1>1, <1>2 DEF DecisionInv
<1> QED
  BY <1>2, <1>3 DEF Gains, CopyFits

LEMMA StepPlan == PlanInv /\ [RuntimeNext]_runtimeVars => PlanInv'
<1> SUFFICES ASSUME PlanInv, [RuntimeNext]_runtimeVars PROVE PlanInv'
  OBVIOUS
<1>1. WorkerInv /\ WorkerInv' /\ [Next]_vars
  BY StepWorker, StoreStep, WorkerInvTyped DEF PlanInv
<1>2. SideInvariant /\ SideInvariant'
  BY <1>1, SideInductive DEF PlanInv
<1>3. ASSUME NEW v \in Owners, Keeps(v)
      PROVE  PlanFits(v)'
  <2>1. /\ claimed[v] \in Occurrences /\ token[v] \in Nat
        /\ token[v] <= fence[claimed[v]] /\ fence[claimed[v]] \in Nat
        /\ WorkerColumns /\ TypeOK
    BY <1>1, <1>3, ConstantsAssumption
    DEF WorkerInv, WorkerRow, WorkerColumns, Keeps, TypeOK, OccurrenceTypeOK
  <2>2. ~ HoldsClaim(v) => ~ HoldsClaim(v)'
    BY <1>1, <1>3, <2>1, LostIsLost DEF HoldsClaim, HoldsLease, Keeps
  <2>3. CopyFits(v) /\ PlanFits(v)
    BY <1>3 DEF PlanInv, Keeps
  <2>4. /\ Plan(v) \in {"apply", "refuse", "execute"}
        /\ Plan(v) = "execute" => ExecutableClaim(v)
    BY <1>2, <2>1, <2>3, PlanOfClaim
  <2>5. pc'[v] = "reject" => ~ HoldsClaim(v)
    BY <1>2, <1>3, <2>1, <2>3, <2>4, ForeignIsLost DEF Keeps, PlanFits
  <2>6. pc'[v] \in {"execute", "running"} => ExecutableClaim(v)
    BY <1>3, <2>3, <2>4 DEF Keeps, PlanFits
  <2> QED
    BY <1>3, <2>2, <2>5, <2>6, CopyStays DEF PlanFits
<1>4. ASSUME NEW v \in Owners, pc'[v] # "idle"
      PROVE  CopyFits(v)' /\ PlanFits(v)'
  <2>1. CASE Keeps(v)
    BY <1>3, <2>1, CopyStays
  <2>2. ASSUME NEW o \in Occurrences, Gains(v, o)
        PROVE  CopyFits(v)' /\ PlanFits(v)'
    BY <1>1, <1>2, <2>2, GainedFits DEF Gains, PlanFits
  <2> QED
    BY <1>1, <1>4, <2>1, <2>2, WorkerMoves
<1> QED
  BY <1>1, <1>2, <1>4 DEF PlanInv

\* The runner of an occurrence that was confirmed as applied stays where it is.
LEMMA AppliedStepRunsNothing ==
  PlanInv /\ [RuntimeNext]_runtimeVars
    => \A o \in Occurrences :
         decision[o] = "confirmed_applied" => effects'[o] = effects[o]
<1> SUFFICES ASSUME PlanInv, [RuntimeNext]_runtimeVars, NEW o \in Occurrences,
                    decision[o] = "confirmed_applied"
             PROVE  effects'[o] = effects[o]
  OBVIOUS
<1>1. WorkerTypeOK /\ WorkerColumns
  BY WorkerInvTyped DEF PlanInv, WorkerInv
<1>2. ASSUME NEW w \in Owners, StartRunner(w)
      PROVE  effects'[o] = effects[o]
  <2>1. pc[w] = "execute" /\ CopyFits(w) /\ ExecutableClaim(w)
    BY <1>2 DEF StartRunner, PlanInv, PlanFits
  <2>2. /\ expectedAttempt[o] \in Nat /\ tried[w] \in Nat
        /\ expectedAttempt[o] > 0
    BY <1>1
    DEF PlanInv, SideInvariant, DecisionInv, BudgetInvariant, TypeOK,
        SideTypeOK, WorkerColumns
  <2>3. claimed[w] # o
    BY <2>1, <2>2 DEF CopyFits, ExecutableClaim
  <2> QED
    BY <1>1, <1>2, <2>3 DEF StartRunner, WorkerColumns
<1>3. (\E w \in Owners : StartRunner(w)) \/ UNCHANGED effects
  BY <1>1, RuntimeCases DEF Polls, Works, runtimeVars
<1> QED
  BY <1>2, <1>3

LEMMA InitPlan == RuntimeInit => PlanInv
  BY InitWorker, SideInductive
  DEF RuntimeInit, PlanInv

\* The errors CONTROL_FENCE_MISMATCH and ADJUDICATION_BINDING_MISMATCH are met
\* only by a worker that has lost its lease and can settle nothing.
THEOREM ClaimsMeetTheirOwn == RuntimeSpec => []ClaimsKeepTheirBindings
<1>1. PlanInv => ClaimsKeepTheirBindings
  BY DEF PlanInv, PlanFits, ClaimsKeepTheirBindings
<1> QED
  BY <1>1, StepPlan, InitPlan, PTL DEF RuntimeSpec

\* What an operator confirmed as applied is settled without the runner.
THEOREM AppliedIsNotReplayed == RuntimeSpec => ConfirmedAppliedNeverReplays
<1>1. PlanInv /\ [RuntimeNext]_runtimeVars
        => [\A o \in Occurrences :
              decision[o] = "confirmed_applied"
                => effects'[o] = effects[o]]_runtimeVars
  BY AppliedStepRunsNothing
<1> QED
  BY <1>1, StepPlan, InitPlan, PTL
  DEF RuntimeSpec, ConfirmedAppliedNeverReplays

-----------------------------------------------------------------------------
(* Two runners of one occurrence, where nobody pauses it.                  *)

RequeuedIn(o, fences) ==
  \E q \in RetryRequests : retryOf[q] = o /\ retryFence[q] \in fences

\* Since the claim with token t every claim of o was paid for: by a requeue, or
\* each by an attempt of its own, which an adjudication does not foresee.
PaidSince(o, t) ==
  \/ RequeuedIn(o, t..(fence[o] - 1))
  \/ /\ attempt[o] >= 1 + fence[o] - t
     /\ decision[o] # "none" =>
          attempt[o] > expectedAttempt[o] + fence[o] - t

\* So was the claim of w, since that of v.
PaidBetween(v, w) ==
  /\ pc[v] # "idle" /\ pc[w] # "idle"
  /\ claimed[v] = claimed[w] /\ token[v] < token[w]
  => \/ RequeuedIn(claimed[v], token[v]..(token[w] - 1))
     \/ /\ tried[w] >= 1 + token[w] - token[v]
        /\ decision[claimed[v]] # "none" =>
             tried[w] > expectedAttempt[claimed[v]] + token[w] - token[v]

RunnerInv ==
  /\ PlanInv
  /\ \A o \in Occurrences :
       control[o] = "none" /\ (fence[o] > 0 => attempt[o] > 0)
  /\ \A w \in Owners : pc[w] # "idle" => PaidSince(claimed[w], token[w])
  /\ \A v, w \in Owners : PaidBetween(v, w)

\* Without pauses no control comes into being.
LEMMA NoControlAppears ==
  ASSUME PauseRequests = {}, SideInvariant, [Next]_vars,
         \A o \in Occurrences : control[o] = "none"
  PROVE  /\ \A o \in Occurrences : control'[o] = "none"
         /\ \A o \in Occurrences :
              controlRevision[o] = 0 => controlRevision'[o] = 0
<1> DEFINE Goal == /\ \A o \in Occurrences : control'[o] = "none"
                   /\ \A o \in Occurrences :
                        controlRevision[o] = 0 => controlRevision'[o] = 0
<1>1. ASSUME UNCHANGED <<control, controlRevision>>
      PROVE  Goal
  BY <1>1
<1>2. CASE AdminStep
  BY <1>1, <1>2, AdminCases DEF EnqueueOccurrence, controlVars
<1>3. ASSUME NEW w \in Owners, ClaimStep(w)
      PROVE  UNCHANGED <<control, controlRevision>>
  BY <1>3 DEF ClaimStep, ClaimNext, ClaimOccurrence, DeadLetterExpiredLeases,
              Claim, RebindControl, controlVars
<1>4. ASSUME NEW w \in Owners, OwnerStep(w)
      PROVE  UNCHANGED <<control, controlRevision>>
  BY <1>4 DEF OwnerStep, Renew, SettleSucceeded, SettleRetry,
              SettleDeadLetter, AckPause, TerminateControl, controlVars
<1>5. CASE OperatorStep
  BY <1>1, <1>5
  DEF OperatorStep, RequestPause, Resume, RequeueDeadLetter, Adjudicate,
      controlVars
<1>6. CASE Tick \/ UNCHANGED vars
  BY <1>1, <1>6 DEF Tick, vars, controlVars
<1> QED
  BY <1>1, <1>2, <1>3, <1>4, <1>5, <1>6 DEF Next

\* Requeue rows stay as they were written.
LEMMA RequeuesStay ==
  ASSUME SideInvariant, [Next]_vars, NEW q \in RetryRequests,
         retryOf[q] # None
  PROVE  retryOf'[q] = retryOf[q] /\ retryFence'[q] = retryFence[q]
<1>t. /\ retryOf \in [RetryRequests -> Occurrences \cup {None}]
      /\ retryFence \in [RetryRequests -> Nat]
      /\ retryFence[q] # 0
  <2>1. RetryInv(q) /\ fence \in [Occurrences -> 0..MaxFence]
    BY DEF SideInvariant, BudgetInvariant, TypeOK, OccurrenceTypeOK
  <2> QED
    BY <2>1, ConstantsAssumption
    DEF SideInvariant, BudgetInvariant, TypeOK, SideTypeOK, RetryInv
<1>1. CASE AdminStep
  BY <1>1, AdminCases DEF EnqueueOccurrence, retryVars
<1>2. ASSUME NEW w \in Owners, ClaimStep(w)
      PROVE  UNCHANGED <<retryOf, retryFence>>
  BY <1>2 DEF ClaimStep, ClaimNext, ClaimOccurrence, DeadLetterExpiredLeases,
              Claim, retryVars
<1>3. ASSUME NEW w \in Owners, OwnerStep(w)
      PROVE  UNCHANGED <<retryOf, retryFence>>
  BY <1>3 DEF OwnerStep, Renew, SettleSucceeded, SettleRetry,
              SettleDeadLetter, AckPause, retryVars
<1>4. CASE OperatorStep
  BY <1>4, <1>t
  DEF OperatorStep, RequestPause, Resume, RequeueDeadLetter, Adjudicate,
      retryVars
<1>5. CASE Tick \/ UNCHANGED vars
  BY <1>5 DEF Tick, vars, retryVars
<1> QED
  BY <1>1, <1>2, <1>3, <1>4, <1>5 DEF Next

\* Requeue rows are found again after a step.
LEMMA RequeuedStays ==
  ASSUME SideInvariant, [Next]_vars, NEW o \in Occurrences,
         NEW S, RequeuedIn(o, S)
  PROVE  \E q \in RetryRequests : retryOf'[q] = o /\ retryFence'[q] \in S
<1>1. None \notin Occurrences
  BY ConstantsAssumption DEF Occurrences
<1> QED
  BY <1>1, RequeuesStay DEF RequeuedIn

\* What was paid for since a claim stays so while its worker is busy.
LEMMA PaidStays ==
  ASSUME RunnerInv, [RuntimeNext]_runtimeVars, NEW v \in Owners,
         pc[v] # "idle", NEW o, o = claimed[v], NEW t, t = token[v]
  PROVE  PaidSince(o, t)'
<1> USE ConstantsAssumption
<1>1. /\ o \in Occurrences /\ t \in 1..fence[o]
      /\ [Next]_vars /\ SideInvariant /\ SideInvariant'
      /\ control[o] = "none" /\ PaidSince(o, t)
  BY StoreStep, WorkerInvTyped, SideInductive
  DEF RunnerInv, PlanInv, WorkerInv, WorkerRow
<1>2. /\ fence[o] \in Nat /\ attempt[o] \in Nat /\ expectedAttempt[o] \in Nat
  BY <1>1
  DEF SideInvariant, BudgetInvariant, TypeOK, OccurrenceTypeOK, SideTypeOK
<1>3. decision'[o] = decision[o] /\ expectedAttempt'[o] = expectedAttempt[o]
  BY ClaimedDecisionStays DEF RunnerInv
<1>4. /\ fence'[o] \in {fence[o], fence[o] + 1}
      /\ \/ fence'[o] = fence[o] /\ attempt'[o] = attempt[o]
         \/ fence'[o] = fence[o] + 1 /\ attempt'[o] = attempt[o] + 1
         \/ /\ fence'[o] = fence[o] + 1
            /\ RequeuedIn(o, {fence[o]})
  BY <1>1, StepCost DEF RequeuedIn
<1>5. CASE RequeuedIn(o, t..(fence[o] - 1))
  <2>1. \E q \in RetryRequests :
          retryOf'[q] = o /\ retryFence'[q] \in t..(fence[o] - 1)
    BY <1>1, <1>2, <1>5, RequeuedStays
  <2>2. t..(fence[o] - 1) \subseteq t..(fence'[o] - 1)
    BY <1>1, <1>2, <1>4
  <2> QED
    BY <2>1, <2>2 DEF PaidSince, RequeuedIn
<1>6. CASE fence'[o] = fence[o] + 1 /\ RequeuedIn(o, {fence[o]})
  <2>1. \E q \in RetryRequests :
          retryOf'[q] = o /\ retryFence'[q] \in {fence[o]}
    BY <1>1, <1>6, RequeuedStays
  <2>2. {fence[o]} \subseteq t..(fence'[o] - 1)
    BY <1>1, <1>2, <1>6
  <2> QED
    BY <2>1, <2>2 DEF PaidSince, RequeuedIn
<1>7. CASE /\ attempt[o] >= 1 + fence[o] - t
           /\ decision[o] # "none" =>
                attempt[o] > expectedAttempt[o] + fence[o] - t
           /\ \/ fence'[o] = fence[o] /\ attempt'[o] = attempt[o]
              \/ fence'[o] = fence[o] + 1 /\ attempt'[o] = attempt[o] + 1
  <2>1. CASE fence'[o] = fence[o] /\ attempt'[o] = attempt[o]
    <3>1. /\ attempt'[o] >= 1 + fence'[o] - t
          /\ decision'[o] # "none" =>
               attempt'[o] > expectedAttempt'[o] + fence'[o] - t
      BY <1>3, <1>7, <2>1
    <3> QED
      BY <3>1 DEF PaidSince
  <2>2. CASE fence'[o] = fence[o] + 1 /\ attempt'[o] = attempt[o] + 1
    <3>1. /\ attempt'[o] >= 1 + fence'[o] - t
          /\ decision'[o] # "none" =>
               attempt'[o] > expectedAttempt'[o] + fence'[o] - t
      BY <1>1, <1>2, <1>3, <1>7, <2>2
    <3> QED
      BY <3>1 DEF PaidSince
  <2> QED
    BY <1>7, <2>1, <2>2
<1>8. \/ RequeuedIn(o, t..(fence[o] - 1))
      \/ /\ attempt[o] >= 1 + fence[o] - t
         /\ decision[o] # "none" =>
              attempt[o] > expectedAttempt[o] + fence[o] - t
  BY <1>1 DEF PaidSince
<1> QED
  BY <1>4, <1>5, <1>6, <1>7, <1>8

\* The claim that was just made is paid for, past any adjudicated attempt.
LEMMA ClaimIsPaid ==
  ASSUME RunnerInv, [Next]_vars, NEW o \in Occurrences, fence'[o] # fence[o]
  PROVE  /\ PaidSince(o, fence[o])'
         /\ fence'[o] = fence[o] + 1
         /\ attempt'[o] > 0
<1> USE ConstantsAssumption
<1>1. /\ SideInvariant /\ SideInvariant' /\ control[o] = "none"
      /\ fence[o] > 0 => attempt[o] > 0
  BY SideInductive DEF RunnerInv, PlanInv
<1>2. /\ fence[o] \in Nat /\ attempt[o] \in Nat /\ expectedAttempt'[o] \in Nat
      /\ \A q \in RetryRequests : RetryInv(q)
      /\ None # o
      /\ adjudication'[o] \in {"none", "pending", "applied"}
  BY <1>1
  DEF SideInvariant, BudgetInvariant, TypeOK, OccurrenceTypeOK, SideTypeOK,
      Occurrences
<1>3. /\ fence'[o] = fence[o] + 1
      /\ status'[o] = "running"
      /\ \/ attempt'[o] = attempt[o] + 1
         \/ /\ attempt'[o] = attempt[o]
            /\ \E q \in RetryRequests :
                 retryOf[q] = o /\ retryFence[q] = fence[o]
  BY <1>1, StepCost
<1>4. attempt'[o] \in Nat /\ attempt'[o] >= 1
  BY <1>1, <1>2, <1>3 DEF RetryInv
<1>5. decision'[o] # "none" => attempt'[o] > expectedAttempt'[o]
  <2>1. DecisionInv(o)'
    BY <1>1 DEF SideInvariant
  <2> QED
    BY <1>2, <1>3, <2>1 DEF DecisionInv
<1> QED
  BY <1>2, <1>3, <1>4, <1>5 DEF PaidSince

LEMMA StepRunner ==
  ASSUME PauseRequests = {}
  PROVE  RunnerInv /\ [RuntimeNext]_runtimeVars => RunnerInv'
<1> SUFFICES ASSUME RunnerInv, [RuntimeNext]_runtimeVars PROVE RunnerInv'
  OBVIOUS
<1> USE ConstantsAssumption
<1>1. /\ PlanInv /\ PlanInv' /\ [Next]_vars
      /\ SideInvariant /\ SideInvariant'
      /\ WorkerInv /\ \A w \in Owners : WorkerRow(w)
  BY StepPlan, StoreStep, WorkerInvTyped
  DEF RunnerInv, PlanInv, WorkerInv
<1>2. \A o \in Occurrences :
        /\ fence[o] \in Nat /\ attempt[o] \in Nat
        /\ expectedAttempt[o] \in Nat
        /\ fence'[o] \in Nat /\ attempt'[o] \in Nat
        /\ control[o] = "none" /\ control'[o] = "none"
  BY <1>1, NoControlAppears
  DEF RunnerInv, SideInvariant, BudgetInvariant, TypeOK, OccurrenceTypeOK,
      SideTypeOK
<1>3. ASSUME NEW o \in Occurrences
      PROVE  fence'[o] > 0 => attempt'[o] > 0
  <2>1. CASE fence'[o] = fence[o] /\ attempt'[o] = attempt[o]
    BY <2>1 DEF RunnerInv
  <2>2. CASE fence'[o] # fence[o]
    BY <1>1, <1>2, <2>2, ClaimIsPaid
  <2> QED
    BY <1>1, <1>2, <2>1, <2>2, StepCost
<1>4. ASSUME NEW v \in Owners, pc'[v] # "idle"
      PROVE  PaidSince(claimed[v], token[v])'
  <2>1. CASE Keeps(v)
    BY <2>1, PaidStays DEF Keeps, PaidSince, RequeuedIn
  <2>2. ASSUME NEW o \in Occurrences, Gains(v, o)
        PROVE  PaidSince(claimed[v], token[v])'
    <3>1. claimed'[v] = o /\ token'[v] = fence'[o] /\ fence'[o] # fence[o]
      BY <2>2 DEF Gains
    <3> QED
      BY <1>1, <3>1, ClaimIsPaid DEF PaidSince, RequeuedIn
  <2> QED
    BY <1>1, <1>4, <2>1, <2>2, WorkerMoves
<1>5. ASSUME NEW v \in Owners, NEW w \in Owners,
             pc'[v] # "idle", pc'[w] # "idle",
             claimed'[v] = claimed'[w], token'[v] < token'[w]
      PROVE  PaidBetween(v, w)'
  <2>1. Keeps(v)
    <3>1. ASSUME NEW o \in Occurrences, Gains(v, o)
          PROVE  FALSE
      <4>1. /\ claimed'[w] = o /\ token'[v] = fence'[o]
            /\ token'[w] \in 1..fence'[o]
        BY <1>1, <1>5, <3>1 DEF Gains, PlanInv, WorkerInv, WorkerRow
      <4> QED
        BY <1>2, <1>5, <4>1
    <3> QED
      BY <1>1, <1>5, <3>1, WorkerMoves
  <2>2. /\ claimed[v] \in Occurrences /\ token[v] \in Nat /\ pc[v] # "idle"
        /\ claimed'[v] = claimed[v] /\ token'[v] = token[v]
    BY <1>1, <2>1 DEF Keeps, WorkerRow, WorkerInv, WorkerColumns
  <2>3. /\ decision'[claimed[v]] = decision[claimed[v]]
        /\ expectedAttempt'[claimed[v]] = expectedAttempt[claimed[v]]
    BY <1>1, <2>2, ClaimedDecisionStays
  <2>4. CASE Keeps(w)
    <3>1. /\ claimed[w] = claimed[v] /\ token[v] < token[w] /\ pc[w] # "idle"
          /\ token'[w] = token[w] /\ tried'[w] = tried[w]
      BY <1>5, <2>2, <2>4 DEF Keeps
    <3>2. CASE RequeuedIn(claimed[v], token[v]..(token[w] - 1))
      <4>1. \E q \in RetryRequests :
              /\ retryOf'[q] = claimed[v]
              /\ retryFence'[q] \in token[v]..(token[w] - 1)
        BY <1>1, <2>2, <3>2, RequeuedStays
      <4> QED
        BY <2>2, <3>1, <4>1 DEF PaidBetween, RequeuedIn
    <3>3. CASE /\ tried[w] >= 1 + token[w] - token[v]
               /\ decision[claimed[v]] # "none" =>
                    tried[w] > expectedAttempt[claimed[v]] + token[w] - token[v]
      BY <2>2, <2>3, <3>1, <3>3 DEF PaidBetween
    <3> QED
      BY <2>2, <3>1, <3>2, <3>3 DEF RunnerInv, PaidBetween
  <2>5. ASSUME NEW o \in Occurrences, Gains(w, o)
        PROVE  PaidBetween(v, w)'
    <3>1. /\ claimed[v] = o
          /\ token'[w] = fence'[o] /\ tried'[w] = attempt'[o]
      BY <1>5, <2>2, <2>5 DEF Gains
    <3>2. PaidSince(o, token[v])'
      BY <1>4, <2>2, <1>5, <3>1 DEF PaidSince, RequeuedIn
    <3> QED
      BY <2>2, <3>1, <3>2 DEF PaidSince, PaidBetween, RequeuedIn
  <2> QED
    BY <1>1, <1>5, <2>4, <2>5, WorkerMoves
<1>6. \A v, w \in Owners : PaidBetween(v, w)'
  BY <1>5 DEF PaidBetween
<1> QED
  BY <1>1, <1>2, <1>3, <1>4, <1>6 DEF RunnerInv

\* Two runners of one occurrence are in flight only across a requeue, when the
\* occurrence is never paused.  (With a pause they need no requeue: the run
\* runtime_pause shows the second start.)
THEOREM RunnersDoNotOverlap ==
  ASSUME PauseRequests = {}
  PROVE  RuntimeSpec => []OneRunnerAtATime
<1>1. RuntimeInit => RunnerInv
  BY InitPlan
  DEF RuntimeInit, Init, RunnerInv, PaidBetween
<1>2. RunnerInv => OneRunnerAtATime
  <2> SUFFICES ASSUME RunnerInv, NEW v \in Owners, NEW w \in Owners,
                      pc[v] = "running", pc[w] = "running",
                      claimed[v] = claimed[w], token[v] < token[w]
               PROVE  RequeuedIn(claimed[v], token[v]..(token[w] - 1))
    BY DEF OneRunnerAtATime, RequeuedIn
  <2>1. /\ tried[w] \in Nat /\ token[v] \in Nat /\ token[w] \in Nat
        /\ claimed[v] \in Occurrences
    BY DEF RunnerInv, PlanInv, WorkerInv, WorkerColumns, WorkerRow
  <2>2. expectedAttempt[claimed[v]] \in Nat
    BY <2>1
    DEF RunnerInv, PlanInv, SideInvariant, BudgetInvariant, TypeOK, SideTypeOK
  <2>3. ExecutableClaim(w) /\ PaidBetween(v, w)
    BY DEF RunnerInv, PlanInv, PlanFits
  <2> QED
    BY <2>1, <2>2, <2>3 DEF PaidBetween, ExecutableClaim
<1>3. RunnerInv /\ [RuntimeNext]_runtimeVars => RunnerInv'
  BY StepRunner
<1> QED
  BY <1>1, <1>2, <1>3, PTL DEF RuntimeSpec

-----------------------------------------------------------------------------
(* How often the runner starts.                                            *)

\* The attempts an adapter executes.
Executable(o) ==
  \/ attempt[o] <= 1
  \/ /\ decision[o] = "confirmed_not_applied"
     /\ attempt[o] = expectedAttempt[o] + 1

\* The claims of o that may still start the runner.
Starting(o) ==
  {token[w] : w \in {v \in Owners : /\ pc[v] \in BeforeStart
                                    /\ claimed[v] = o
                                    /\ ExecutableClaim(v)}}

Once(condition) == IF condition THEN 1 ELSE 0

\* The claims so far that found an attempt to be executed are not more: those
\* that consumed no attempt, the first, and the one that was granted.
Allowance(o) ==
  (fence[o] - attempt[o]) + Once(attempt[o] > 0)
    + Once(/\ decision[o] = "confirmed_not_applied"
           /\ attempt[o] > expectedAttempt[o])

\* StartsAccountedFor is not inductive: starts that are still to come must be
\* counted with those that were.
StartInv(o) == effects[o] + Cardinality(Starting(o)) <= Allowance(o)

\* A claim is given to one worker.
ClaimsDiffer ==
  \A v, w \in Owners :
    /\ pc[v] # "idle" /\ pc[w] # "idle"
    /\ claimed[v] = claimed[w] /\ token[v] = token[w]
    => v = w

StartsInv ==
  /\ PlanInv
  /\ PriceInvariant
  /\ ClaimsDiffer
  /\ \A o \in Occurrences : StartInv(o)

\* A decision that was made stays.
LEMMA DecisionStays ==
  ASSUME SideInvariant, [Next]_vars, NEW p \in Occurrences
  PROVE  \/ /\ decision'[p] = decision[p]
            /\ expectedAttempt'[p] = expectedAttempt[p]
         \/ decision[p] = "none" /\ UNCHANGED <<fence, attempt>>
  BY OnlyAdjudicationDecides DEF SideInvariant, DecisionInv

\* Every claim that will be executed adds to the allowance, and nothing takes
\* from it.
LEMMA AllowanceGrows ==
  ASSUME PriceInvariant, [Next]_vars, NEW p \in Occurrences
  PROVE  /\ Allowance(p) \in Nat /\ Allowance(p)' \in Nat
         /\ Allowance(p) <= Allowance(p)'
         /\ fence'[p] # fence[p] /\ Executable(p)' =>
              Allowance(p) + 1 <= Allowance(p)'
<1>1. /\ attempt[p] \in Nat /\ expectedAttempt[p] \in Nat
      /\ fence[p] \in Nat /\ fence[p] >= attempt[p]
      /\ SideInvariant
  BY ConstantsAssumption
  DEF PriceInvariant, PriceInv, SideInvariant, BudgetInvariant, TypeOK,
      OccurrenceTypeOK, SideTypeOK
<1>2. /\ attempt'[p] \in Nat /\ expectedAttempt'[p] \in Nat
      /\ fence'[p] \in Nat /\ fence'[p] >= attempt'[p]
  <2>1. SideInvariant' /\ PriceInv(p)'
    BY <1>1, SideInductive, StepPrice
  <2> QED
    BY <2>1, ConstantsAssumption
    DEF PriceInv, SideInvariant, BudgetInvariant, TypeOK, OccurrenceTypeOK,
        SideTypeOK
<1>3. CASE fence'[p] = fence[p] /\ attempt'[p] = attempt[p]
  BY <1>1, <1>2, <1>3, DecisionStays DEF Allowance, Once
<1>4. CASE fence'[p] = fence[p] + 1
  <2>1. decision'[p] = decision[p] /\ expectedAttempt'[p] = expectedAttempt[p]
    BY <1>1, <1>4, DecisionStays
  <2>2. CASE attempt'[p] = attempt[p] + 1
    BY <1>1, <1>2, <1>4, <2>1, <2>2 DEF Allowance, Once, Executable
  <2>3. CASE attempt'[p] = attempt[p]
    BY <1>1, <1>2, <1>4, <2>1, <2>3 DEF Allowance, Once
  <2> QED
    BY <1>1, <1>4, <2>2, <2>3, StepCost
<1> QED
  BY <1>1, <1>3, <1>4, StepCost

\* The claims that may start a runner, as a finite set.
LEMMA StartingFinite ==
  ASSUME WorkerInv, NEW p \in Occurrences
  PROVE  IsFiniteSet(Starting(p)) /\ Cardinality(Starting(p)) \in Nat
<1>1. Starting(p) \subseteq 1..fence[p] /\ fence[p] \in Nat
  BY ConstantsAssumption
  DEF WorkerInv, WorkerRow, Starting, BeforeStart, TypeOK, OccurrenceTypeOK
<1>2. IsFiniteSet(1..fence[p])
  BY <1>1, FS_Interval
<1> QED
  BY <1>1, <1>2, FS_Subset, FS_CardinalityType

\* A claim that may start the runner after a step is one that might before, or
\* was just made.
LEMMA StartingComes ==
  ASSUME PlanInv, [RuntimeNext]_runtimeVars, NEW p \in Occurrences
  PROVE  /\ fence'[p] = fence[p] => Starting(p)' \subseteq Starting(p)
         /\ fence'[p] # fence[p] =>
              Starting(p)' \subseteq Starting(p) \cup {fence'[p]}
         /\ fence'[p] # fence[p] /\ ~ Executable(p)' =>
              Starting(p)' \subseteq Starting(p)
<1>1. ASSUME NEW v \in Owners, pc'[v] \in BeforeStart, claimed'[v] = p,
             ExecutableClaim(v)'
      PROVE  \/ token'[v] \in Starting(p)
             \/ /\ fence'[p] # fence[p] /\ Executable(p)'
                /\ token'[v] = fence'[p]
  <2>1. CASE Keeps(v)
    <3>1. /\ pc[v] # "idle" /\ claimed[v] = p /\ token'[v] = token[v]
          /\ tried'[v] = tried[v]
      BY <1>1, <2>1 DEF Keeps
    <3>2. pc[v] \in BeforeStart
      BY <1>1, <2>1 DEF Keeps
    <3>3. ExecutableClaim(v)
      BY <1>1, <3>1, ClaimedDecisionStays DEF ExecutableClaim
    <3> QED
      BY <3>1, <3>2, <3>3 DEF Starting
  <2>2. ASSUME NEW o \in Occurrences, Gains(v, o)
        PROVE  /\ fence'[p] # fence[p] /\ Executable(p)'
               /\ token'[v] = fence'[p]
    BY <1>1, <2>2 DEF Gains, ExecutableClaim, Executable
  <2> QED
    BY <1>1, <2>1, <2>2, WorkerMoves DEF PlanInv, BeforeStart
<1>2. Starting(p)' = {token'[w] : w \in {v \in Owners :
                         /\ pc'[v] \in BeforeStart /\ claimed'[v] = p
                         /\ ExecutableClaim(v)'}}
  BY DEF Starting, BeforeStart
<1> QED
  BY <1>1, <1>2

\* Claims of one occurrence are given to different workers under different
\* tokens.
LEMMA ClaimsStayDifferent ==
  ASSUME StartsInv, [RuntimeNext]_runtimeVars
  PROVE  ClaimsDiffer'
<1>1. PlanInv /\ WorkerInv /\ TypeOK /\ [Next]_vars
  BY StoreStep, WorkerInvTyped DEF StartsInv, PlanInv
<1>2. ASSUME NEW v \in Owners, NEW w \in Owners, NEW o \in Occurrences,
             Keeps(v), Gains(w, o), claimed'[v] = claimed'[w]
      PROVE  token'[v] # token'[w]
  <2>1. claimed[v] = o /\ token'[v] = token[v] /\ token[v] \in 1..fence[o]
    BY <1>1, <1>2 DEF Keeps, Gains, WorkerInv, WorkerRow
  <2>2. token'[w] = fence[o] + 1 /\ fence[o] \in Nat
    BY <1>1, <1>2, FencesGrow, ConstantsAssumption
    DEF Gains, TypeOK, OccurrenceTypeOK
  <2> QED
    BY <2>1, <2>2
<1>3. ASSUME NEW v \in Owners, NEW w \in Owners, Keeps(v), Keeps(w),
             claimed'[v] = claimed'[w], token'[v] = token'[w]
      PROVE  v = w
  BY <1>3 DEF Keeps, StartsInv, ClaimsDiffer
<1>4. ASSUME NEW v \in Owners, NEW w \in Owners,
             pc'[v] # "idle", pc'[w] # "idle",
             claimed'[v] = claimed'[w], token'[v] = token'[w]
      PROVE  v = w
  <2>1. CASE Keeps(v) /\ Keeps(w)
    BY <1>3, <1>4, <2>1
  <2>2. CASE Keeps(v) /\ ~ Keeps(w)
    BY <1>1, <1>2, <1>4, <2>2, WorkerMoves
  <2>3. CASE ~ Keeps(v) /\ Keeps(w)
    BY <1>1, <1>2, <1>4, <2>3, WorkerMoves
  <2>4. CASE ~ Keeps(v) /\ ~ Keeps(w)
    BY <1>1, <1>4, <2>4, WorkerMoves DEF Gains
  <2> QED
    BY <2>1, <2>2, <2>3, <2>4
<1> QED
  BY <1>4 DEF ClaimsDiffer

\* A start was counted as one to come.
LEMMA StartIsCounted ==
  ASSUME StartsInv, [RuntimeNext]_runtimeVars, NEW w \in Owners,
         StartRunner(w), NEW p, claimed[w] = p
  PROVE  token[w] \in Starting(p) /\ token[w] \notin Starting(p)'
<1>1. PlanInv /\ WorkerColumns /\ ClaimsDiffer
  BY DEF StartsInv, PlanInv, WorkerInv
<1>2. pc[w] = "execute" /\ ExecutableClaim(w)
  BY <1>1 DEF StartRunner, PlanInv, PlanFits
<1>3. ASSUME NEW v \in Owners, pc'[v] \in BeforeStart,
             claimed'[v] = p, token'[v] = token[w]
      PROVE  FALSE
  <2>1. v # w /\ pc'[v] = pc[v] /\ claimed'[v] = claimed[v]
        /\ token'[v] = token[v]
    BY <1>1, <1>3 DEF StartRunner, Goto, WorkerColumns, BeforeStart
  <2> QED
    BY <1>1, <1>2, <1>3, <2>1 DEF ClaimsDiffer, BeforeStart
<1>4. token[w] \notin Starting(p)'
  BY <1>3 DEF Starting, BeforeStart
<1> QED
  BY <1>2, <1>4 DEF Starting, BeforeStart

LEMMA StepStarts ==
  ASSUME StartsInv, [RuntimeNext]_runtimeVars
  PROVE  StartsInv'
<1>1. /\ PlanInv' /\ ClaimsDiffer' /\ PlanInv /\ WorkerColumns
      /\ WorkerInv /\ WorkerInv' /\ WorkerTypeOK
      /\ PriceInvariant /\ [Next]_vars
  BY StepPlan, StoreStep, ClaimsStayDifferent, WorkerInvTyped
  DEF StartsInv, PlanInv, WorkerInv
<1>i. PriceInvariant'
  BY <1>1, SideInductive, StepPrice DEF PriceInvariant
<1>2. ASSUME NEW p \in Occurrences
      PROVE  StartInv(p)'
  <2>1. /\ IsFiniteSet(Starting(p)) /\ Cardinality(Starting(p)) \in Nat
        /\ effects[p] \in Nat
        /\ Allowance(p) \in Nat /\ Allowance(p)' \in Nat
        /\ Allowance(p) <= Allowance(p)'
        /\ effects[p] + Cardinality(Starting(p)) <= Allowance(p)
    BY <1>1, StartingFinite, AllowanceGrows
    DEF StartsInv, StartInv, WorkerColumns
  <2>2. ASSUME Starting(p)' \subseteq Starting(p)
        PROVE  /\ Cardinality(Starting(p)') \in Nat
               /\ Cardinality(Starting(p)') <= Cardinality(Starting(p))
    BY <2>1, <2>2, FS_Subset, FS_CardinalityType
  <2>3. CASE fence'[p] # fence[p]
    <3>1. effects'[p] = effects[p]
      <4>1. ~ \E w \in Owners : StartRunner(w)
        BY <2>3 DEF StartRunner, vars, occurrenceVars
      <4> QED
        BY <1>1, <4>1, RuntimeCases DEF Polls, Works, runtimeVars
    <3>2. CASE Executable(p)'
      <4>1. Starting(p)' \subseteq Starting(p) \cup {fence'[p]}
        BY <1>1, <2>3, StartingComes
      <4>2. /\ IsFiniteSet(Starting(p) \cup {fence'[p]})
            /\ Cardinality(Starting(p) \cup {fence'[p]})
                 \in {Cardinality(Starting(p)), Cardinality(Starting(p)) + 1}
        BY <2>1, FS_AddElement
      <4>3. /\ Cardinality(Starting(p)') \in Nat
            /\ Cardinality(Starting(p)') <= Cardinality(Starting(p)) + 1
        BY <2>1, <4>1, <4>2, FS_Subset, FS_CardinalityType
      <4>4. Allowance(p) + 1 <= Allowance(p)'
        BY <1>1, <2>3, <3>2, AllowanceGrows
      <4>5. effects'[p] + Cardinality(Starting(p)') <= Allowance(p)'
        BY <2>1, <3>1, <4>3, <4>4
      <4> QED
        BY <4>5 DEF StartInv
    <3>3. CASE ~ Executable(p)'
      <4>1. /\ Cardinality(Starting(p)') \in Nat
            /\ Cardinality(Starting(p)') <= Cardinality(Starting(p))
        BY <1>1, <2>2, <2>3, <3>3, StartingComes
      <4>2. effects'[p] + Cardinality(Starting(p)') <= Allowance(p)'
        BY <2>1, <3>1, <4>1
      <4> QED
        BY <4>2 DEF StartInv
    <3> QED
      BY <3>2, <3>3
  <2>4. CASE fence'[p] = fence[p]
    <3>1. Starting(p)' \subseteq Starting(p)
      BY <1>1, <2>4, StartingComes
    <3>2. /\ Cardinality(Starting(p)') \in Nat
          /\ Cardinality(Starting(p)') <= Cardinality(Starting(p))
      BY <2>2, <3>1
    <3>3. CASE effects'[p] = effects[p]
      <4>1. effects'[p] + Cardinality(Starting(p)') <= Allowance(p)'
        BY <2>1, <3>2, <3>3
      <4> QED
        BY <4>1 DEF StartInv
    <3>4. ASSUME NEW w \in Owners, StartRunner(w), claimed[w] = p
          PROVE  StartInv(p)'
      <4>1. effects'[p] = effects[p] + 1
        BY <1>1, <3>4 DEF StartRunner, WorkerColumns
      <4>2. token[w] \in Starting(p) /\ Starting(p)' \subseteq Starting(p) \ {token[w]}
        BY <3>1, <3>4, StartIsCounted
      <4>3. /\ IsFiniteSet(Starting(p) \ {token[w]})
            /\ Cardinality(Starting(p) \ {token[w]}) = Cardinality(Starting(p)) - 1
        BY <2>1, <4>2, FS_RemoveElement
      <4>4. /\ Cardinality(Starting(p)') \in Nat
            /\ Cardinality(Starting(p)') <= Cardinality(Starting(p)) - 1
        BY <4>2, <4>3, FS_Subset, FS_CardinalityType
      <4>5. effects'[p] + Cardinality(Starting(p)') <= Allowance(p)'
        BY <2>1, <4>1, <4>4
      <4> QED
        BY <4>5 DEF StartInv
    <3>5. ASSUME NEW w \in Owners, StartRunner(w), claimed[w] # p
          PROVE  effects'[p] = effects[p]
      BY <1>1, <3>5 DEF StartRunner, WorkerColumns
    <3>6. (\E w \in Owners : StartRunner(w)) \/ UNCHANGED effects
      BY <1>1, RuntimeCases DEF Polls, Works, runtimeVars
    <3> QED
      BY <3>3, <3>4, <3>5, <3>6
  <2> QED
    BY <2>3, <2>4
<1> QED
  BY <1>1, <1>2, <1>i DEF StartsInv

\* Nothing was started, nor will be, when nothing is claimed.
LEMMA InitStarts == RuntimeInit => StartsInv
<1> SUFFICES ASSUME RuntimeInit PROVE StartsInv
  OBVIOUS
<1>1. PlanInv /\ PriceInvariant
  BY InitPlan, InitPrice DEF RuntimeInit
<1>2. ClaimsDiffer
  BY DEF RuntimeInit, ClaimsDiffer
<1>3. ASSUME NEW o \in Occurrences
      PROVE  StartInv(o)
  <2>1. Starting(o) = {}
    BY DEF RuntimeInit, Starting, BeforeStart
  <2>2. /\ effects[o] = 0 /\ attempt[o] = 0 /\ fence[o] = 0
        /\ decision[o] = "none"
    BY DEF RuntimeInit, Init
  <2> QED
    BY <2>1, <2>2, FS_EmptySet DEF StartInv, Allowance, Once
<1> QED
  BY <1>1, <1>2, <1>3 DEF StartsInv

\* Every start but the first and the one an adjudication granted was in a claim
\* that consumed no attempt, whatever crashes, lost leases and takeovers come in
\* between.
THEOREM StartsArePaidFor == RuntimeSpec => []StartsAccountedFor
<1>1. StartsInv => StartsAccountedFor
  <2> SUFFICES ASSUME StartsInv, NEW o \in Occurrences
               PROVE  effects[o] <= fence[o] - attempt[o] + 1
                        + (IF decision[o] = "confirmed_not_applied" THEN 1 ELSE 0)
    BY DEF StartsAccountedFor
  <2>1. effects[o] \in Nat /\ Cardinality(Starting(o)) \in Nat
    BY StartingFinite DEF StartsInv, PlanInv, WorkerInv, WorkerColumns
  <2>2. attempt[o] \in Nat /\ fence[o] \in Nat
    BY ConstantsAssumption
    DEF StartsInv, PriceInvariant, SideInvariant, BudgetInvariant, TypeOK,
        OccurrenceTypeOK
  <2>3. effects[o] + Cardinality(Starting(o)) <= Allowance(o)
    BY DEF StartsInv, StartInv
  <2> QED
    BY <2>1, <2>2, <2>3 DEF Allowance, Once
<1> QED
  BY <1>1, StepStarts, InitStarts, PTL DEF RuntimeSpec

-----------------------------------------------------------------------------
(* What it costs where nobody pauses: a requeue.                           *)

RequestsFor(o) == {q \in RetryRequests : retryOf[q] = o}

UnpausedInv ==
  /\ PriceInvariant
  /\ \A o \in Occurrences :
       /\ control[o] = "none" /\ controlRevision[o] = 0
       /\ IsFiniteSet(RequestsFor(o))

\* The requests for an occurrence are finitely many: a step adds one at most.
LEMMA RequestsFinite ==
  ASSUME SideInvariant, [Next]_vars, NEW p \in Occurrences,
         IsFiniteSet(RequestsFor(p))
  PROVE  IsFiniteSet(RequestsFor(p)')
<1> DEFINE Goal == \E q \in RetryRequests : RequestsFor(p)' \subseteq RequestsFor(p) \cup {q}
<1>t. /\ retryOf \in [RetryRequests -> Occurrences \cup {None}]
      /\ None \notin Occurrences
  BY ConstantsAssumption
  DEF SideInvariant, BudgetInvariant, TypeOK, SideTypeOK, Occurrences
<1>1. ASSUME UNCHANGED retryOf
      PROVE  RequestsFor(p)' = RequestsFor(p)
  BY <1>1 DEF RequestsFor
<1>2. CASE AdminStep
  BY <1>1, <1>2, AdminCases DEF EnqueueOccurrence, retryVars
<1>3. ASSUME NEW w \in Owners, ClaimStep(w)
      PROVE  UNCHANGED retryOf
  BY <1>3 DEF ClaimStep, ClaimNext, ClaimOccurrence, DeadLetterExpiredLeases,
              Claim, retryVars
<1>4. ASSUME NEW w \in Owners, OwnerStep(w)
      PROVE  UNCHANGED retryOf
  BY <1>4 DEF OwnerStep, Renew, SettleSucceeded, SettleRetry,
              SettleDeadLetter, AckPause, retryVars
<1>5. CASE OperatorStep
  <2>1. ASSUME NEW o \in Occurrences, NEW g \in Lags,
               NEW q \in RetryRequests, RequeueDeadLetter(o, q, fence[o], g)
        PROVE  RequestsFor(p)' \subseteq RequestsFor(p) \cup {q}
    BY <2>1, <1>t DEF RequeueDeadLetter, RequestsFor
  <2>2. ASSUME NEW q, RequestsFor(p)' \subseteq RequestsFor(p) \cup {q}
        PROVE  IsFiniteSet(RequestsFor(p)')
    BY <2>2, FS_AddElement, FS_Subset
  <2> QED
    BY <1>1, <1>5, <2>1, <2>2
    DEF OperatorStep, RequestPause, Resume, Adjudicate, retryVars
<1>6. CASE Tick \/ UNCHANGED vars
  BY <1>1, <1>6 DEF Tick, vars, retryVars
<1> QED
  BY <1>1, <1>2, <1>3, <1>4, <1>5, <1>6 DEF Next

\* The runner of an occurrence nobody pauses is started once, once more after
\* a confirmed_not_applied and once per requeue.  (With a pause it is started
\* again without being asked to: the run runtime_pause.)
THEOREM ReplaysArePermitted ==
  ASSUME PauseRequests = {}
  PROVE  RuntimeSpec => []ReplayOnlyWhenPermitted
<1>1. Init => UnpausedInv
  <2>1. Init => \A o \in Occurrences : RequestsFor(o) = {}
    BY ConstantsAssumption DEF Init, RequestsFor, Occurrences
  <2> QED
    BY <2>1, InitPrice, FS_EmptySet DEF Init, UnpausedInv
<1>2. UnpausedInv /\ [Next]_vars => UnpausedInv'
  BY NoControlAppears, RequestsFinite, SideInductive, StepPrice
  DEF UnpausedInv, PriceInvariant
<1>3. UnpausedInv /\ WorkerTypeOK /\ StartsAccountedFor => ReplayOnlyWhenPermitted
  <2> SUFFICES ASSUME UnpausedInv, WorkerTypeOK, StartsAccountedFor,
                      NEW o \in Occurrences
               PROVE  effects[o] <= Permitted(o)
    BY DEF ReplayOnlyWhenPermitted
  <2>1. /\ Requeued(o) \subseteq RequestsFor(o) /\ IsFiniteSet(RequestsFor(o))
    BY DEF Requeued, RequestsFor, UnpausedInv
  <2>2. /\ Cardinality(Requeued(o)) \in Nat
        /\ Cardinality(RequestsFor(o)) \in Nat
        /\ Cardinality(Requeued(o)) <= Cardinality(RequestsFor(o))
    BY <2>1, FS_Subset, FS_CardinalityType
  <2>3. /\ fence[o] <= attempt[o] + Cardinality(Requeued(o))
        /\ fence[o] \in Nat /\ attempt[o] \in Nat /\ effects[o] \in Nat
    BY <2>2, ConstantsAssumption
    DEF UnpausedInv, PriceInvariant, PriceInv, SideInvariant, BudgetInvariant,
        TypeOK, OccurrenceTypeOK, WorkerTypeOK
  <2>4. effects[o] <= fence[o] - attempt[o] + 1
                        + (IF decision[o] = "confirmed_not_applied" THEN 1 ELSE 0)
    BY DEF StartsAccountedFor
  <2> QED
    BY <2>2, <2>3, <2>4 DEF Permitted, RequestsFor
<1>4. Spec => []UnpausedInv
  BY <1>1, <1>2, PTL DEF Spec
<1> QED
  BY <1>3, <1>4, RuntimeImplementsStore, WorkersTyped, StartsArePaidFor, PTL
=============================================================================
