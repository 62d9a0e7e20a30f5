------------------------ MODULE SchedulerStoreProofs ------------------------
(***************************************************************************)
(* Theorems about SchedulerStore, for every set of jobs, triggers, owners  *)
(* and requests and every bound.                                           *)
(***************************************************************************)
EXTENDS SchedulerStore, FiniteSetTheorems, TLAPS

\* The initial state is empty, hence typed.
LEMMA InitTyped == Init => TypeOK
  BY ConstantsAssumption
  DEF Init, TypeOK, JobTypeOK, OccurrenceTypeOK, ControlTypeOK, SideTypeOK,
      LeaseColumnsOK, Statuses, ControlStates, Countdown, Failures

\* The grant of an adjudication is an attempt number or two later.
LEMMA GrantIsLater ==
  \A a \in Nat, d \in Decisions :
    GrantedAttempts(a, d) \in Nat /\ GrantedAttempts(a, d) > a
  BY DEF GrantedAttempts, Decisions

-----------------------------------------------------------------------------

\* Every action keeps the columns typed.
LEMMA StepTyped == TypeOK /\ [Next]_vars => TypeOK'
<1> SUFFICES ASSUME TypeOK, [Next]_vars PROVE TypeOK'
  OBVIOUS
<1> USE ConstantsAssumption
<1>1. ASSUME NEW j \in Jobs, NEW e \in BOOLEAN, NEW m \in AttemptChoices,
             CreateJob(j, e, m) \/ UpdateJob(j, e, m)
      PROVE  TypeOK'
  <2>1. JobTypeOK'
    BY <1>1 DEF CreateJob, UpdateJob, TypeOK, JobTypeOK
  <2>2. UNCHANGED <<occurrenceVars, controlVars, retryVars, adjudicationVars,
                    reservation>>
    BY <1>1 DEF CreateJob, UpdateJob
  <2> QED
    BY <2>1, <2>2
    DEF TypeOK, OccurrenceTypeOK, ControlTypeOK, SideTypeOK, LeaseColumnsOK,
        occurrenceVars, controlVars, retryVars, adjudicationVars
<1>2. ASSUME NEW j \in Jobs, NEW t \in Triggers,
             NEW d \in (-MaxLag)..MaxDelay, EnqueueOccurrence(j, t, d)
      PROVE  TypeOK'
  <2> DEFINE o == <<j, revision[j], t>>
  <2>1. o \in Occurrences
    BY <1>2 DEF EnqueueOccurrence, Occurrences, TypeOK, JobTypeOK
  <2>2. OccurrenceTypeOK' /\ LeaseColumnsOK'
    BY <1>2, <2>1
    DEF EnqueueOccurrence, TypeOK, JobTypeOK, OccurrenceTypeOK, Statuses,
        LeaseColumnsOK, Countdown
  <2> QED
    BY <1>2, <2>2
    DEF EnqueueOccurrence, TypeOK, JobTypeOK, ControlTypeOK, SideTypeOK,
        jobVars, controlVars, retryVars, adjudicationVars
<1>3. ASSUME DeadLetterExpiredLeases
      PROVE  TypeOK'
  <2>1. OccurrenceTypeOK' /\ LeaseColumnsOK'
    BY <1>3
    DEF DeadLetterExpiredLeases, SweepSideTables, Swept, Exhausted, TypeOK,
        OccurrenceTypeOK, LeaseColumnsOK, Statuses, Countdown
  <2>2. SideTypeOK'
    BY <1>3
    DEF DeadLetterExpiredLeases, SweepSideTables, TypeOK, SideTypeOK,
        retryVars
  <2> QED
    BY <1>3, <2>1, <2>2
    DEF DeadLetterExpiredLeases, TypeOK, JobTypeOK, ControlTypeOK, jobVars,
        controlVars
<1>4. ASSUME NEW w \in Owners, NEW o \in Occurrences, NEW l \in LeaseLengths,
             Claim(w, o, l)
      PROVE  TypeOK'
  <2>1. OccurrenceTypeOK'
    <3>1. /\ status' \in [Occurrences -> Statuses]
          /\ owner' \in [Occurrences -> Owners \cup {None}]
      BY <1>4 DEF Claim, Swept, TypeOK, OccurrenceTypeOK, Statuses
    <3>2. /\ attempt' \in [Occurrences -> Nat]
          /\ fence' \in [Occurrences -> 0..MaxFence]
      BY <1>4 DEF Claim, TypeOK, OccurrenceTypeOK
    <3>3. /\ lease' \in [Occurrences -> Int]
          /\ wait' \in [Occurrences -> Countdown]
      BY <1>4 DEF Claim, Swept, TypeOK, OccurrenceTypeOK, Countdown
    <3>4. lastError' \in [Occurrences -> Failures \cup {"none", "lease_expired"}]
      BY <1>4 DEF Claim, SweepSideTables, Swept, TypeOK, OccurrenceTypeOK
    <3> QED
      BY <1>4, <3>1, <3>2, <3>3, <3>4 DEF Claim, TypeOK, OccurrenceTypeOK
  <2>2. LeaseColumnsOK'
    BY <1>4
    DEF Claim, Swept, TypeOK, OccurrenceTypeOK, LeaseColumnsOK, Exhausted
  <2>3. ControlTypeOK'
    BY <1>4
    DEF Claim, RebindControl, TypeOK, OccurrenceTypeOK, ControlTypeOK
  <2>4. SideTypeOK'
    BY <1>4
    DEF Claim, SweepSideTables, ConsumeRetry, OpenRetries, TypeOK, SideTypeOK
  <2> QED
    BY <1>4, <2>1, <2>2, <2>3, <2>4 DEF Claim, TypeOK, JobTypeOK, jobVars
<1>5. ASSUME NEW w \in Owners, NEW o \in Occurrences, NEW f, NEW l \in Nat,
             Renew(w, o, f, l)
      PROVE  TypeOK'
  BY <1>5
  DEF Renew, HoldsLease, TypeOK, JobTypeOK, OccurrenceTypeOK, ControlTypeOK,
      SideTypeOK, LeaseColumnsOK, jobVars, controlVars, retryVars,
      adjudicationVars
<1>6. ASSUME NEW w \in Owners, NEW o \in Occurrences, NEW f,
             SettleSucceeded(w, o, f)
      PROVE  TypeOK'
  <2>1. OccurrenceTypeOK' /\ LeaseColumnsOK'
    BY <1>6
    DEF SettleSucceeded, ReleaseAs, TypeOK, OccurrenceTypeOK, LeaseColumnsOK,
        Statuses
  <2>2. ControlTypeOK' /\ SideTypeOK'
    BY <1>6
    DEF SettleSucceeded, TerminateControl, CloseSideTables, TypeOK,
        ControlTypeOK, SideTypeOK, ControlStates, retryVars
  <2> QED
    BY <1>6, <2>1, <2>2 DEF SettleSucceeded, TypeOK, JobTypeOK, jobVars
<1>7. ASSUME NEW w \in Owners, NEW o \in Occurrences, NEW f,
             NEW d \in 0..MaxDelay, SettleRetry(w, o, f, d),
             f = fence[o]
      PROVE  TypeOK'
  <2>1. OccurrenceTypeOK' /\ LeaseColumnsOK'
    BY <1>7
    DEF SettleRetry, ReleaseAs, TypeOK, OccurrenceTypeOK, LeaseColumnsOK,
        Statuses, Failures, Countdown
  <2>2. ControlTypeOK'
    BY <1>7
    DEF SettleRetry, TerminateControl, TypeOK, OccurrenceTypeOK,
        ControlTypeOK, ControlStates
  <2> QED
    BY <1>7, <2>1, <2>2
    DEF SettleRetry, TypeOK, JobTypeOK, SideTypeOK, jobVars, retryVars,
        adjudicationVars
<1>8. ASSUME NEW w \in Owners, NEW o \in Occurrences, NEW f,
             NEW r \in BOOLEAN, NEW e \in Failures,
             SettleDeadLetter(w, o, f, r, e)
      PROVE  TypeOK'
  <2>1. OccurrenceTypeOK' /\ LeaseColumnsOK'
    BY <1>8
    DEF SettleDeadLetter, ReleaseAs, TypeOK, OccurrenceTypeOK, LeaseColumnsOK,
        Statuses
  <2>2. ControlTypeOK' /\ SideTypeOK'
    BY <1>8
    DEF SettleDeadLetter, TerminateControl, CloseSideTables, TypeOK,
        ControlTypeOK, SideTypeOK, ControlStates, retryVars
  <2> QED
    BY <1>8, <2>1, <2>2 DEF SettleDeadLetter, TypeOK, JobTypeOK, jobVars
<1>9. ASSUME NEW w \in Owners, NEW o \in Occurrences, NEW f, NEW r,
             NEW p \in SafePoints, NEW g \in Lags,
             AckPause(w, o, f, r, p, g)
      PROVE  TypeOK'
  <2>1. OccurrenceTypeOK' /\ LeaseColumnsOK'
    BY <1>9
    DEF AckPause, ReleaseAs, TypeOK, OccurrenceTypeOK, LeaseColumnsOK,
        Statuses, Countdown, Lags
  <2>2. ControlTypeOK'
    BY <1>9 DEF AckPause, TypeOK, ControlTypeOK, ControlStates
  <2> QED
    BY <1>9, <2>1, <2>2
    DEF AckPause, TypeOK, JobTypeOK, SideTypeOK, jobVars, retryVars,
        adjudicationVars
<1>10. ASSUME NEW o \in Occurrences, NEW g \in Lags,
              NEW q \in PauseRequests, RequestPause(o, q, fence[o], g)
       PROVE  TypeOK'
  <2>1. ControlTypeOK'
    BY <1>10
    DEF RequestPause, TypeOK, OccurrenceTypeOK, ControlTypeOK, ControlStates
  <2> QED
    BY <1>10, <2>1
    DEF RequestPause, TypeOK, JobTypeOK, OccurrenceTypeOK, SideTypeOK,
        LeaseColumnsOK, jobVars, occurrenceVars, retryVars, adjudicationVars
<1>11. ASSUME NEW o \in Occurrences, NEW g \in Lags,
              NEW q \in ResumeRequests, Resume(o, q, controlRevision[o], g)
       PROVE  TypeOK'
  <2>1. ControlTypeOK' /\ OccurrenceTypeOK' /\ LeaseColumnsOK'
    BY <1>11
    DEF Resume, TypeOK, OccurrenceTypeOK, ControlTypeOK, ControlStates,
        LeaseColumnsOK, Lags, Countdown
  <2> QED
    BY <1>11, <2>1
    DEF Resume, TypeOK, JobTypeOK, SideTypeOK, jobVars, retryVars,
        adjudicationVars
<1>12. ASSUME NEW o \in Occurrences, NEW g \in Lags,
              NEW q \in RetryRequests, RequeueDeadLetter(o, q, fence[o], g)
       PROVE  TypeOK'
  <2>1. OccurrenceTypeOK' /\ LeaseColumnsOK'
    BY <1>12
    DEF RequeueDeadLetter, TypeOK, OccurrenceTypeOK, LeaseColumnsOK,
        Statuses, Lags, Countdown
  <2>2. SideTypeOK'
    BY <1>12
    DEF RequeueDeadLetter, TypeOK, OccurrenceTypeOK, SideTypeOK,
        adjudicationVars
  <2> QED
    BY <1>12, <2>1, <2>2
    DEF RequeueDeadLetter, TypeOK, JobTypeOK, ControlTypeOK, jobVars,
        controlVars
<1>13. ASSUME NEW o \in Occurrences, NEW g \in Lags, NEW d \in Decisions,
              Adjudicate(o, d, attempt[o], fence[o], g)
       PROVE  TypeOK'
  <2>1. OccurrenceTypeOK' /\ LeaseColumnsOK'
    BY <1>13, GrantIsLater
    DEF Adjudicate, TypeOK, OccurrenceTypeOK, LeaseColumnsOK, Statuses, Lags,
        Countdown
  <2>2. SideTypeOK'
    BY <1>13
    DEF Adjudicate, ReopenReservation, TypeOK, OccurrenceTypeOK, SideTypeOK,
        retryVars
  <2> QED
    BY <1>13, <2>1, <2>2
    DEF Adjudicate, TypeOK, JobTypeOK, ControlTypeOK, jobVars, controlVars
<1>14. CASE Tick
  <2>1. OccurrenceTypeOK' /\ LeaseColumnsOK'
    BY <1>14
    DEF Tick, TypeOK, OccurrenceTypeOK, LeaseColumnsOK, Countdown
  <2> QED
    BY <1>14, <2>1
    DEF Tick, TypeOK, JobTypeOK, ControlTypeOK, SideTypeOK, jobVars,
        controlVars, retryVars, adjudicationVars
<1>15. CASE UNCHANGED vars
  BY <1>15
  DEF vars, TypeOK, JobTypeOK, OccurrenceTypeOK, ControlTypeOK, SideTypeOK,
      LeaseColumnsOK, jobVars, occurrenceVars, controlVars, retryVars,
      adjudicationVars
<1>16. CASE AdminStep
  BY <1>1, <1>2, <1>16 DEF AdminStep, EnqueueOncePerTrigger
<1>17. ASSUME NEW w \in Owners, ClaimStep(w)
       PROVE  TypeOK'
  BY <1>3, <1>4, <1>17 DEF ClaimStep, ClaimNext, ClaimOccurrence
<1>18. ASSUME NEW w \in Owners, OwnerStep(w)
       PROVE  TypeOK'
  BY <1>5, <1>6, <1>7, <1>8, <1>9, <1>18 DEF OwnerStep
<1>19. CASE OperatorStep
  BY <1>10, <1>11, <1>12, <1>13, <1>19 DEF OperatorStep
<1> QED
  BY <1>14, <1>15, <1>16, <1>17, <1>18, <1>19 DEF Next

\* Every reachable row has the values its column declares, for any number of
\* jobs, owners and requests.
THEOREM TypeCorrect == Spec => []TypeOK
<1>1. Init => TypeOK
  BY InitTyped
<1>2. TypeOK /\ [Next]_vars => TypeOK'
  BY StepTyped
<1> QED
  BY <1>1, <1>2, PTL DEF Spec

-----------------------------------------------------------------------------
(* Controls and budgets.  ControlMatches is not inductive: a settlement    *)
(* leaves a resumed control one fence ahead, and the next claim must then  *)
(* find an attempt to consume.                                             *)

BudgetInv(o) ==
  /\ ControlMatches(o)
  /\ status[o] \in {"absent", "queued", "succeeded", "dead_letter"} =>
       control[o] \in {"none", "terminal"}
  /\ control[o] = "resumed" /\ controlFence[o] # fence[o] =>
       attempt[o] < maxAttempts[o]
  /\ status[o] = "absent" => attempt[o] = 0
  /\ attempt[o] <= maxAttempts[o]

BudgetInvariant == TypeOK /\ \A o \in Occurrences : BudgetInv(o)

\* Nothing is running or controlled at first.
LEMMA InitBudget == Init => BudgetInvariant
  BY InitTyped DEF Init, BudgetInvariant, BudgetInv, ControlMatches

\* Every action keeps each occurrence's control in step with its row.
LEMMA StepBudget == BudgetInvariant /\ [Next]_vars => BudgetInvariant'
<1> SUFFICES ASSUME BudgetInvariant, [Next]_vars, NEW p \in Occurrences
             PROVE  BudgetInv(p)'
  BY StepTyped DEF BudgetInvariant
<1> USE ConstantsAssumption
<1>t. /\ attempt[p] \in Nat /\ maxAttempts[p] \in Nat /\ fence[p] \in Nat
      /\ controlFence[p] \in Nat
      /\ controlFence \in [Occurrences -> Nat]
      /\ control \in [Occurrences -> ControlStates]
      /\ status \in [Occurrences -> Statuses]
      /\ attempt \in [Occurrences -> Nat]
      /\ maxAttempts \in [Occurrences -> Int]
      /\ fence \in [Occurrences -> 0..MaxFence]
  BY DEF BudgetInvariant, TypeOK, OccurrenceTypeOK, ControlTypeOK
<1>i. BudgetInv(p)
  BY DEF BudgetInvariant
<1>1. ASSUME NEW j \in Jobs, NEW e \in BOOLEAN, NEW m \in AttemptChoices,
             CreateJob(j, e, m) \/ UpdateJob(j, e, m)
      PROVE  BudgetInv(p)'
  BY <1>1, <1>i
  DEF CreateJob, UpdateJob, BudgetInv, ControlMatches, occurrenceVars,
      controlVars
<1>2. ASSUME NEW j \in Jobs, NEW t \in Triggers,
             NEW d \in (-MaxLag)..MaxDelay, EnqueueOccurrence(j, t, d)
      PROVE  BudgetInv(p)'
  <2> DEFINE o == <<j, revision[j], t>>
  <2>1. jobMaxAttempts[j] \in Nat
    BY DEF BudgetInvariant, TypeOK, JobTypeOK
  <2>2. CASE p = o
    BY <1>2, <1>i, <1>t, <2>1, <2>2
    DEF EnqueueOccurrence, BudgetInv, ControlMatches, controlVars
  <2>3. CASE p # o
    BY <1>2, <1>i, <1>t, <2>3
    DEF EnqueueOccurrence, BudgetInv, ControlMatches, controlVars
  <2> QED
    BY <2>2, <2>3
<1>3. ASSUME DeadLetterExpiredLeases
      PROVE  BudgetInv(p)'
  BY <1>3, <1>i, <1>t
  DEF DeadLetterExpiredLeases, Swept, Exhausted, BudgetInv, ControlMatches,
      controlVars, ControlStates
<1>4. ASSUME NEW w \in Owners, NEW o \in Occurrences, NEW l \in LeaseLengths,
             Eligible(o), Claim(w, o, l)
      PROVE  BudgetInv(p)'
  <2>1. CASE p = o
    BY <1>4, <1>i, <1>t, <2>1
    DEF Claim, Eligible, KeepsAttempt, RebindControl, Due, Swept, Exhausted,
        BudgetInv, ControlMatches, ControlStates
  <2>2. CASE p # o
    BY <1>4, <1>i, <1>t, <2>2
    DEF Claim, RebindControl, Swept, Exhausted, BudgetInv, ControlMatches,
        ControlStates
  <2> QED
    BY <2>1, <2>2
<1>5. ASSUME NEW w \in Owners, NEW o \in Occurrences, NEW f, NEW l \in Nat,
             Renew(w, o, f, l)
      PROVE  BudgetInv(p)'
  BY <1>5, <1>i DEF Renew, BudgetInv, ControlMatches, controlVars
<1>6. ASSUME NEW w \in Owners, NEW o \in Occurrences, NEW f,
             SettleSucceeded(w, o, f)
      PROVE  BudgetInv(p)'
  BY <1>6, <1>i, <1>t
  DEF SettleSucceeded, HoldsLease, ReleaseAs, TerminateControl, BudgetInv,
      ControlMatches, ControlStates
<1>7. ASSUME NEW w \in Owners, NEW o \in Occurrences,
             NEW d \in 0..MaxDelay, SettleRetry(w, o, fence[o], d)
      PROVE  BudgetInv(p)'
  BY <1>7, <1>i, <1>t
  DEF SettleRetry, HoldsLease, ReleaseAs, TerminateControl, BudgetInv,
      ControlMatches, ControlStates
<1>8. ASSUME NEW w \in Owners, NEW o \in Occurrences, NEW f,
             NEW r \in BOOLEAN, NEW e \in Failures,
             SettleDeadLetter(w, o, f, r, e)
      PROVE  BudgetInv(p)'
  BY <1>8, <1>i, <1>t
  DEF SettleDeadLetter, HoldsLease, ReleaseAs, TerminateControl, BudgetInv,
      ControlMatches, ControlStates
<1>9. ASSUME NEW w \in Owners, NEW o \in Occurrences, NEW f, NEW r,
             NEW c \in SafePoints, NEW g \in Lags,
             AckPause(w, o, f, r, c, g)
      PROVE  BudgetInv(p)'
  BY <1>9, <1>i, <1>t
  DEF AckPause, HoldsLease, ReleaseAs, BudgetInv, BudgetInvariant,
      ControlMatches, ControlStates, SafePoints, TypeOK, ControlTypeOK
<1>10. ASSUME NEW o \in Occurrences, NEW g \in Lags,
              NEW q \in PauseRequests, RequestPause(o, q, fence[o], g)
       PROVE  BudgetInv(p)'
  BY <1>10, <1>i, <1>t
  DEF RequestPause, BudgetInv, ControlMatches, ControlStates, occurrenceVars
<1>11. ASSUME NEW o \in Occurrences, NEW g \in Lags,
              NEW q \in ResumeRequests, Resume(o, q, controlRevision[o], g)
       PROVE  BudgetInv(p)'
  BY <1>11, <1>i, <1>t DEF Resume, BudgetInv, ControlMatches, ControlStates
<1>12. ASSUME NEW o \in Occurrences, NEW g \in Lags,
              NEW q \in RetryRequests, RequeueDeadLetter(o, q, fence[o], g)
       PROVE  BudgetInv(p)'
  BY <1>12, <1>i, <1>t
  DEF RequeueDeadLetter, BudgetInv, ControlMatches, ControlStates,
      controlVars
<1>13. ASSUME NEW o \in Occurrences, NEW g \in Lags, NEW d \in Decisions,
              Adjudicate(o, d, attempt[o], fence[o], g)
       PROVE  BudgetInv(p)'
  BY <1>13, <1>i, <1>t, GrantIsLater
  DEF Adjudicate, BudgetInv, ControlMatches, ControlStates, controlVars
<1>14. CASE Tick
  BY <1>14, <1>i DEF Tick, BudgetInv, ControlMatches, controlVars
<1>15. CASE UNCHANGED vars
  BY <1>15, <1>i
  DEF vars, BudgetInv, ControlMatches, occurrenceVars, controlVars
<1>16. CASE AdminStep
  BY <1>1, <1>2, <1>16 DEF AdminStep, EnqueueOncePerTrigger
<1>17. ASSUME NEW w \in Owners, ClaimStep(w)
       PROVE  BudgetInv(p)'
  BY <1>3, <1>4, <1>17 DEF ClaimStep, ClaimNext, ClaimOccurrence
<1>18. ASSUME NEW w \in Owners, OwnerStep(w)
       PROVE  BudgetInv(p)'
  BY <1>5, <1>6, <1>7, <1>8, <1>9, <1>18 DEF OwnerStep
<1>19. CASE OperatorStep
  BY <1>10, <1>11, <1>12, <1>13, <1>19 DEF OperatorStep
<1> QED
  BY <1>14, <1>15, <1>16, <1>17, <1>18, <1>19 DEF Next

\* Claims under pauses, resumes, requeues and grants stay within the attempt
\* budget, and every column keeps its values: the statement of claimNext never
\* trips the table's CHECK.
THEOREM SchemaIsMet == Spec => []SchemaHolds
<1>1. BudgetInvariant => SchemaHolds
  BY DEF BudgetInvariant, BudgetInv, AttemptsWithinBudget, SchemaHolds
<1> QED
  BY <1>1, InitBudget, StepBudget, PTL DEF Spec

\* Runtime controls always fit the occurrence they are attached to.
THEOREM ControlsMatch == Spec => []ControlMatchesOccurrence
<1>1. BudgetInvariant => ControlMatchesOccurrence
  BY DEF BudgetInvariant, BudgetInv, ControlMatchesOccurrence
<1> QED
  BY <1>1, InitBudget, StepBudget, PTL DEF Spec

-----------------------------------------------------------------------------
(* The store implements FencedLease, occurrence by occurrence.             *)

LeaseStep(p) == [Lease(p)!LeaseNext]_(Lease(p)!leaseVars)

\* The changes of a row that are steps of its lease.
RowStep(p) ==
  \/ UNCHANGED <<status[p], owner[p], fence[p], lease[p]>>
  \/ /\ status[p] = "absent" /\ status'[p] = "queued"
     /\ UNCHANGED <<owner[p], fence[p], lease[p]>>
  \/ /\ \/ status[p] \in {"queued", "retry_wait"}
        \/ status[p] = "running" /\ lease[p] <= 0
     /\ status'[p] = "running" /\ owner'[p] \in Owners
     /\ fence'[p] = fence[p] + 1 /\ ~ (lease'[p] <= 0)
  \/ /\ status[p] = "running" /\ status'[p] = "running"
     /\ UNCHANGED <<owner[p], fence[p]>>
     /\ ~ (lease[p] <= 0) \/ lease'[p] <= 0
  \/ /\ status[p] = "running"
     /\ \/ /\ ~ (lease[p] <= 0)
           /\ status'[p] \in {"succeeded", "retry_wait", "dead_letter"}
        \/ status'[p] = "retry_wait"
        \/ lease[p] <= 0 /\ status'[p] = "dead_letter"
     /\ owner'[p] = None /\ lease'[p] <= 0 /\ fence'[p] = fence[p]
  \/ /\ status[p] = "dead_letter" /\ status'[p] = "retry_wait"
     /\ UNCHANGED <<owner[p], fence[p], lease[p]>>

\* The refinement mapping takes each of them to a step of FencedLease.
LEMMA RowStepIsLeaseStep ==
  ASSUME NEW p \in Occurrences, RowStep(p)
  PROVE  LeaseStep(p)
<1> USE DEF LeaseStep, LeasePhase, Lease!LeaseNext, Lease!leaseVars
<1>1. CASE UNCHANGED <<status[p], owner[p], fence[p], lease[p]>>
  BY <1>1
<1>2. CASE /\ status[p] = "absent" /\ status'[p] = "queued"
           /\ UNCHANGED <<owner[p], fence[p], lease[p]>>
  BY <1>2 DEF Lease!Submit
<1>3. CASE /\ \/ status[p] \in {"queued", "retry_wait"}
              \/ status[p] = "running" /\ lease[p] <= 0
           /\ status'[p] = "running" /\ owner'[p] \in Owners
           /\ fence'[p] = fence[p] + 1 /\ ~ (lease'[p] <= 0)
  BY <1>3 DEF Lease!Acquire
<1>4. CASE /\ status[p] = "running" /\ status'[p] = "running"
           /\ UNCHANGED <<owner[p], fence[p]>>
           /\ ~ (lease[p] <= 0) \/ lease'[p] <= 0
  BY <1>4 DEF Lease!Expire
<1>5. CASE /\ status[p] = "running"
           /\ \/ /\ ~ (lease[p] <= 0)
                 /\ status'[p] \in {"succeeded", "retry_wait", "dead_letter"}
              \/ status'[p] = "retry_wait"
              \/ lease[p] <= 0 /\ status'[p] = "dead_letter"
           /\ owner'[p] = None /\ lease'[p] <= 0 /\ fence'[p] = fence[p]
  BY <1>5 DEF Lease!Finish, Lease!Yield, Lease!Abandon, Lease!Drop
<1>6. CASE /\ status[p] = "dead_letter" /\ status'[p] = "retry_wait"
           /\ UNCHANGED <<owner[p], fence[p], lease[p]>>
  BY <1>6 DEF Lease!Reopen
<1> QED
  BY <1>1, <1>2, <1>3, <1>4, <1>5, <1>6 DEF RowStep

\* Every action changes every row in one of those ways.
LEMMA StepIsRowStep ==
  ASSUME TypeOK, [Next]_vars, NEW p \in Occurrences
  PROVE  RowStep(p)
<1> USE ConstantsAssumption
<1>t. /\ lease[p] \in Int /\ owner \in [Occurrences -> Owners \cup {None}]
      /\ status \in [Occurrences -> Statuses]
      /\ fence \in [Occurrences -> 0..MaxFence]
      /\ lease \in [Occurrences -> Int]
      /\ status[p] = "running" => owner[p] \in Owners
  BY DEF TypeOK, OccurrenceTypeOK, LeaseColumnsOK
<1>1. ASSUME UNCHANGED <<status, owner, fence, lease>>
      PROVE  RowStep(p)
  BY <1>1 DEF RowStep
<1>2. ASSUME NEW j \in Jobs, NEW t \in Triggers,
             NEW d \in (-MaxLag)..MaxDelay, EnqueueOccurrence(j, t, d)
      PROVE  RowStep(p)
  BY <1>2, <1>t DEF EnqueueOccurrence, RowStep
<1>3. ASSUME DeadLetterExpiredLeases
      PROVE  RowStep(p)
  BY <1>3, <1>t DEF DeadLetterExpiredLeases, Swept, Exhausted, RowStep
<1>4. ASSUME NEW w \in Owners, NEW o \in Occurrences, NEW l \in LeaseLengths,
             Eligible(o), Claim(w, o, l)
      PROVE  RowStep(p)
  <2>1. CASE p = o
    BY <1>4, <1>t, <2>1 DEF Claim, Eligible, Due, Swept, RowStep
  <2>2. CASE p # o /\ p \in Exhausted
    <3>1. /\ status[p] = "running" /\ lease[p] <= 0
          /\ status'[p] = "dead_letter"
          /\ owner'[p] = None /\ lease'[p] = 0 /\ fence'[p] = fence[p]
      BY <1>4, <1>t, <2>2 DEF Claim, Swept, Exhausted
    <3> QED
      BY <3>1 DEF RowStep
  <2>3. CASE p # o /\ p \notin Exhausted
    BY <1>4, <1>t, <2>3 DEF Claim, Swept, RowStep
  <2> QED
    BY <2>1, <2>2, <2>3
<1>5. ASSUME NEW w \in Owners, NEW o \in Occurrences, NEW f,
             NEW l \in LeaseLengths, Renew(w, o, f, l)
      PROVE  RowStep(p)
  BY <1>5, <1>t DEF Renew, HoldsLease, RowStep
<1>6. ASSUME NEW w \in Owners, NEW o \in Occurrences, NEW f,
             SettleSucceeded(w, o, f)
      PROVE  RowStep(p)
  BY <1>6, <1>t DEF SettleSucceeded, HoldsLease, ReleaseAs, RowStep
<1>7. ASSUME NEW w \in Owners, NEW o \in Occurrences, NEW f,
             NEW d \in 0..MaxDelay, SettleRetry(w, o, f, d)
      PROVE  RowStep(p)
  BY <1>7, <1>t DEF SettleRetry, HoldsLease, ReleaseAs, RowStep
<1>8. ASSUME NEW w \in Owners, NEW o \in Occurrences, NEW f,
             NEW r \in BOOLEAN, NEW e \in Failures,
             SettleDeadLetter(w, o, f, r, e)
      PROVE  RowStep(p)
  BY <1>8, <1>t DEF SettleDeadLetter, HoldsLease, ReleaseAs, RowStep
<1>9. ASSUME NEW w \in Owners, NEW o \in Occurrences, NEW f, NEW r,
             NEW c \in SafePoints, NEW g \in Lags,
             AckPause(w, o, f, r, c, g)
      PROVE  RowStep(p)
  BY <1>9, <1>t DEF AckPause, HoldsLease, ReleaseAs, RowStep
<1>10. ASSUME NEW o \in Occurrences, NEW g \in Lags,
              NEW q \in ResumeRequests, Resume(o, q, controlRevision[o], g)
       PROVE  RowStep(p)
  BY <1>1, <1>10 DEF Resume
<1>11. ASSUME NEW o \in Occurrences, NEW g \in Lags,
              NEW q \in RetryRequests, RequeueDeadLetter(o, q, fence[o], g)
       PROVE  RowStep(p)
  BY <1>11, <1>t DEF RequeueDeadLetter, RowStep
<1>12. ASSUME NEW o \in Occurrences, NEW g \in Lags, NEW d \in Decisions,
              Adjudicate(o, d, attempt[o], fence[o], g)
       PROVE  RowStep(p)
  BY <1>12, <1>t DEF Adjudicate, RowStep
<1>13. CASE Tick
  BY <1>13, <1>t DEF Tick, RowStep
<1>14. CASE UNCHANGED vars
  BY <1>1, <1>14 DEF vars, occurrenceVars
<1>15. CASE AdminStep
  BY <1>1, <1>2, <1>15
  DEF AdminStep, CreateJob, UpdateJob, EnqueueOncePerTrigger, occurrenceVars
<1>16. ASSUME NEW w \in Owners, ClaimStep(w)
       PROVE  RowStep(p)
  BY <1>3, <1>4, <1>16 DEF ClaimStep, ClaimNext, ClaimOccurrence
<1>17. ASSUME NEW w \in Owners, OwnerStep(w)
       PROVE  RowStep(p)
  BY <1>5, <1>6, <1>7, <1>8, <1>9, <1>17 DEF OwnerStep
<1>18. CASE OperatorStep
  BY <1>1, <1>10, <1>11, <1>12, <1>18
  DEF OperatorStep, RequestPause, occurrenceVars
<1> QED
  BY <1>13, <1>14, <1>15, <1>16, <1>17, <1>18 DEF Next

\* Each occurrence, seen through its status, owner, fence and lease, behaves as
\* a FencedLease: one holder at a time and a fresh token for every claim.
THEOREM StoreImplementsFencedLease == Spec => ImplementsFencedLease
<1>1. Init => \A o \in Occurrences : Lease(o)!LeaseInit
  BY DEF Init, Lease!LeaseInit, LeasePhase
<1>2. TypeOK /\ [Next]_vars =>
        [\A o \in Occurrences :
           [Lease(o)!LeaseNext]_(Lease(o)!leaseVars)]_vars
  BY StepIsRowStep, RowStepIsLeaseStep DEF LeaseStep
<1> QED
  BY <1>1, <1>2, TypeCorrect, PTL DEF Spec, ImplementsFencedLease

\* No step touches an occurrence that succeeded.
THEOREM SuccessIsFinal == Spec => SucceededIsFinal
<1>1. TypeOK /\ [Next]_vars =>
        [\A o \in Occurrences :
           status[o] = "succeeded" =>
             status'[o] = "succeeded" /\ fence'[o] = fence[o]]_vars
  BY StepIsRowStep DEF RowStep
<1> QED
  BY <1>1, TypeCorrect, PTL DEF Spec, SucceededIsFinal
-----------------------------------------------------------------------------
(* Adjudications, requeues and the price of claims.                        *)

\* A requeue row names an occurrence and a fence it has had.
RetryInv(q) ==
  IF retryOf[q] = None THEN retryFence[q] = 0 /\ ~ retryClaimed[q]
  ELSE retryFence[q] \in 1..fence[retryOf[q]]

\* PendingAdjudicationBinds is not inductive: the claim that carries the
\* decision must be known to consume an attempt, hence to find neither a
\* requeue nor a control that pays for it.
DecisionInv(o) ==
  /\ adjudication[o] = "none" => decision[o] = "none"
  /\ adjudication[o] # "none" =>
       decision[o] \in Decisions /\ expectedAttempt[o] > 0
  /\ adjudication[o] = "applied" => attempt[o] > expectedAttempt[o]
  /\ adjudication[o] = "pending" =>
       /\ status[o] \in {"retry_wait", "running"}
       /\ maxAttempts[o] = GrantedAttempts(expectedAttempt[o], decision[o])
       /\ OpenRetries(o) = {}
       /\ \/ attempt[o] > expectedAttempt[o] /\ fence[o] > expectedFence[o]
          \/ /\ status[o] = "retry_wait"
             /\ attempt[o] = expectedAttempt[o]
             /\ fence[o] = expectedFence[o]
             /\ control[o] \in {"none", "terminal"}

GrantInv(o) ==
  /\ OpenRetries(o) # {} => status[o] = "retry_wait"
  /\ \A q, r \in OpenRetries(o) : q = r

SideInvariant ==
  /\ BudgetInvariant
  /\ \A q \in RetryRequests : RetryInv(q)
  /\ \A o \in Occurrences : DecisionInv(o) /\ GrantInv(o)

\* Jobs are written apart from occurrences; an enqueueing adds one row.
LEMMA AdminCases ==
  ASSUME AdminStep
  PROVE  \/ UNCHANGED <<occurrenceVars, controlVars, retryVars,
                        adjudicationVars>>
         \/ \E j \in Jobs, t \in Triggers, d \in (-MaxLag)..MaxDelay :
              EnqueueOccurrence(j, t, d)
<1>1. ASSUME NEW j \in Jobs, NEW e \in BOOLEAN, NEW m \in AttemptChoices,
             CreateJob(j, e, m) \/ UpdateJob(j, e, m)
      PROVE  UNCHANGED <<occurrenceVars, controlVars, retryVars,
                         adjudicationVars>>
  BY <1>1 DEF CreateJob, UpdateJob
<1> QED
  BY <1>1 DEF AdminStep, EnqueueOncePerTrigger

\* Requeue rows stay bound to a fence their occurrence has had.
LEMMA StepRetryRows ==
  ASSUME SideInvariant, [Next]_vars, NEW q \in RetryRequests
  PROVE  RetryInv(q)'
<1> USE ConstantsAssumption
<1>t. /\ retryOf \in [RetryRequests -> Occurrences \cup {None}]
      /\ retryFence \in [RetryRequests -> Nat]
      /\ retryClaimed \in [RetryRequests -> BOOLEAN]
      /\ fence \in [Occurrences -> 0..MaxFence]
      /\ \A r \in RetryRequests : RetryInv(r)
      /\ None \notin Occurrences
  BY DEF SideInvariant, BudgetInvariant, TypeOK, SideTypeOK, OccurrenceTypeOK,
         Occurrences
<1>1. ASSUME UNCHANGED <<retryOf, retryFence, retryClaimed, fence>>
      PROVE  RetryInv(q)'
  BY <1>1, <1>t DEF RetryInv
<1>2. ASSUME NEW w \in Owners, NEW o \in Occurrences, NEW l \in LeaseLengths,
             Claim(w, o, l)
      PROVE  RetryInv(q)'
  <2>1. /\ retryOf' = retryOf /\ retryFence' = retryFence
        /\ fence' = [fence EXCEPT ![o] = @ + 1]
        /\ retryClaimed'[q] # retryClaimed[q] => retryOf[q] = o
    BY <1>2, <1>t DEF Claim, ConsumeRetry, OpenRetries
  <2> QED
    BY <2>1, <1>t DEF RetryInv
<1>3. ASSUME NEW o \in Occurrences, NEW g \in Lags, NEW r \in RetryRequests,
             RequeueDeadLetter(o, r, fence[o], g)
      PROVE  RetryInv(q)'
  BY <1>3, <1>t DEF RequeueDeadLetter, RetryInv
<1>4. CASE Tick
  BY <1>1, <1>4 DEF Tick, retryVars
<1>5. CASE UNCHANGED vars
  BY <1>1, <1>5 DEF vars, retryVars, occurrenceVars
<1>6. CASE AdminStep
  BY <1>1, <1>6, AdminCases
  DEF EnqueueOccurrence, retryVars, occurrenceVars
<1>7. ASSUME NEW w \in Owners, ClaimStep(w)
      PROVE  RetryInv(q)'
  BY <1>1, <1>2, <1>7
  DEF ClaimStep, ClaimNext, ClaimOccurrence, DeadLetterExpiredLeases,
      retryVars
<1>8. ASSUME NEW w \in Owners, OwnerStep(w)
      PROVE  RetryInv(q)'
  BY <1>1, <1>8
  DEF OwnerStep, Renew, SettleSucceeded, SettleRetry, SettleDeadLetter,
      AckPause, retryVars
<1>9. CASE OperatorStep
  BY <1>1, <1>3, <1>9
  DEF OperatorStep, RequestPause, Resume, Adjudicate, retryVars,
      occurrenceVars
<1> QED
  BY <1>4, <1>5, <1>6, <1>7, <1>8, <1>9 DEF Next

\* A claim leaves no requeue that could pay for another one; a requeue opens
\* the only one.
LEMMA StepOpenRetries ==
  ASSUME SideInvariant, [Next]_vars, NEW p \in Occurrences
  PROVE  /\ GrantInv(p)'
         /\ \/ OpenRetries(p)' = OpenRetries(p)
            \/ OpenRetries(p)' = {} /\ fence'[p] # fence[p]
            \/ status[p] = "dead_letter" /\ UNCHANGED adjudication[p]
<1> USE ConstantsAssumption
<1> DEFINE Goal == /\ GrantInv(p)'
                   /\ \/ OpenRetries(p)' = OpenRetries(p)
                      \/ OpenRetries(p)' = {} /\ fence'[p] # fence[p]
                      \/ status[p] = "dead_letter" /\ UNCHANGED adjudication[p]
<1>t. /\ retryOf \in [RetryRequests -> Occurrences \cup {None}]
      /\ retryFence \in [RetryRequests -> Nat]
      /\ retryClaimed \in [RetryRequests -> BOOLEAN]
      /\ fence \in [Occurrences -> 0..MaxFence]
      /\ status \in [Occurrences -> Statuses]
      /\ adjudication \in [Occurrences -> {"none", "pending", "applied"}]
      /\ \A r \in RetryRequests : RetryInv(r)
      /\ None \notin Occurrences
      /\ GrantInv(p)
  BY DEF SideInvariant, BudgetInvariant, TypeOK, SideTypeOK, OccurrenceTypeOK,
         Occurrences
<1>u. OpenRetries(p) = {} \/ status[p] = "retry_wait"
  BY <1>t DEF GrantInv
<1>1. ASSUME UNCHANGED <<retryOf, retryFence, retryClaimed, fence[p]>>,
             status[p] = "retry_wait" => status'[p] = "retry_wait"
      PROVE  Goal
  <2>1. OpenRetries(p)' = OpenRetries(p)
    BY <1>1 DEF OpenRetries
  <2> QED
    BY <2>1, <1>1, <1>t DEF GrantInv
<1>2. ASSUME NEW w \in Owners, NEW o \in Occurrences, NEW l \in LeaseLengths,
             Claim(w, o, l)
      PROVE  Goal
  <2>1. CASE p = o
    <3>1. \A q \in RetryRequests : retryOf[q] = o => retryFence[q] <= fence[o]
      BY <1>t DEF RetryInv
    <3>2. fence'[o] = fence[o] + 1 /\ UNCHANGED <<retryOf, retryFence>>
      BY <1>2, <1>t DEF Claim
    <3>3. OpenRetries(o)' = {}
      BY <3>1, <3>2, <1>t DEF OpenRetries
    <3> QED
      BY <2>1, <3>2, <3>3, <1>t DEF GrantInv
  <2>2. CASE p # o
    <3>1. /\ UNCHANGED <<retryOf, retryFence, fence[p]>>
          /\ status[p] = "retry_wait" => status'[p] = "retry_wait"
      BY <1>2, <2>2, <1>t DEF Claim, Swept, Exhausted
    <3>2. \A q \in RetryRequests :
            retryOf[q] = p => retryClaimed'[q] = retryClaimed[q]
      BY <1>2, <2>2, <1>t DEF Claim, ConsumeRetry, OpenRetries
    <3>3. OpenRetries(p)' = OpenRetries(p)
      BY <3>1, <3>2 DEF OpenRetries
    <3> QED
      BY <3>1, <3>3, <1>t DEF GrantInv
  <2> QED
    BY <2>1, <2>2
<1>3. ASSUME NEW o \in Occurrences, NEW g \in Lags, NEW r \in RetryRequests,
             RequeueDeadLetter(o, r, fence[o], g)
      PROVE  Goal
  <2>1. retryOf[r] = None
    BY <1>3, <1>t DEF RequeueDeadLetter, RetryInv
  <2>2. CASE p = o
    <3>1. OpenRetries(p) = {}
      BY <1>3, <1>u, <2>2 DEF RequeueDeadLetter
    <3>2. \A q \in OpenRetries(p)' : q = r
      BY <1>3, <1>t, <2>2, <3>1 DEF RequeueDeadLetter, OpenRetries
    <3> QED
      BY <1>3, <1>t, <2>2, <3>2
      DEF RequeueDeadLetter, GrantInv, adjudicationVars
  <2>3. CASE p # o
    <3>1. OpenRetries(p)' = OpenRetries(p)
      BY <1>3, <1>t, <2>1, <2>3 DEF RequeueDeadLetter, OpenRetries
    <3> QED
      BY <1>3, <1>t, <2>3, <3>1 DEF RequeueDeadLetter, GrantInv
  <2> QED
    BY <2>2, <2>3
<1>4. CASE Tick
  BY <1>1, <1>4 DEF Tick, retryVars
<1>5. CASE UNCHANGED vars
  BY <1>1, <1>5 DEF vars, retryVars, occurrenceVars
<1>6. CASE AdminStep
  BY <1>1, <1>6, <1>t, AdminCases
  DEF EnqueueOccurrence, retryVars, occurrenceVars
<1>7. ASSUME NEW w \in Owners, ClaimStep(w)
      PROVE  Goal
  <2>1. ASSUME DeadLetterExpiredLeases
        PROVE  Goal
    BY <1>1, <2>1, <1>t
    DEF DeadLetterExpiredLeases, Swept, Exhausted, retryVars
  <2> QED
    BY <1>2, <1>7, <2>1 DEF ClaimStep, ClaimNext, ClaimOccurrence
<1>8. ASSUME NEW w \in Owners, OwnerStep(w)
      PROVE  Goal
  BY <1>1, <1>8, <1>t
  DEF OwnerStep, Renew, SettleSucceeded, SettleRetry, SettleDeadLetter,
      AckPause, HoldsLease, ReleaseAs, retryVars
<1>9. CASE OperatorStep
  BY <1>1, <1>3, <1>9, <1>t
  DEF OperatorStep, RequestPause, Resume, Adjudicate, retryVars,
      occurrenceVars
<1> QED
  BY <1>4, <1>5, <1>6, <1>7, <1>8, <1>9 DEF Next

\* A decision is carried by a claim that consumes an attempt, and is applied
\* or replaced by no other.
LEMMA StepDecision ==
  ASSUME SideInvariant, [Next]_vars, NEW p \in Occurrences
  PROVE  DecisionInv(p)'
<1> USE ConstantsAssumption
<1>t. /\ attempt[p] \in Nat /\ maxAttempts[p] \in Nat /\ fence[p] \in Nat
      /\ expectedAttempt[p] \in Nat /\ expectedFence[p] \in Nat
      /\ attempt \in [Occurrences -> Nat]
      /\ maxAttempts \in [Occurrences -> 0..AttemptLimit]
      /\ fence \in [Occurrences -> 0..MaxFence]
      /\ status \in [Occurrences -> Statuses]
      /\ control \in [Occurrences -> ControlStates]
      /\ adjudication \in [Occurrences -> {"none", "pending", "applied"}]
      /\ decision \in [Occurrences -> Decisions \cup {"none"}]
      /\ expectedAttempt \in [Occurrences -> Nat]
      /\ expectedFence \in [Occurrences -> Nat]
  BY DEF SideInvariant, BudgetInvariant, TypeOK, SideTypeOK, OccurrenceTypeOK,
         ControlTypeOK
<1>i. DecisionInv(p) /\ BudgetInv(p) /\ GrantInv(p)
  BY DEF SideInvariant, BudgetInvariant
<1>r. adjudication[p] = "pending" =>
        OpenRetries(p)' = OpenRetries(p) \/ OpenRetries(p)' = {}
  BY <1>i, StepOpenRetries DEF DecisionInv
<1>1. ASSUME UNCHANGED <<status[p], attempt[p], maxAttempts[p], fence[p],
                         control[p], adjudication[p], decision[p],
                         expectedAttempt[p], expectedFence[p]>>
      PROVE  DecisionInv(p)'
  BY <1>1, <1>i, <1>r DEF DecisionInv
<1>2. ASSUME NEW j \in Jobs, NEW t \in Triggers,
             NEW d \in (-MaxLag)..MaxDelay, EnqueueOccurrence(j, t, d)
      PROVE  DecisionInv(p)'
  <2> DEFINE o == <<j, revision[j], t>>
  <2>1. CASE p = o
    <3>1. adjudication[p] # "pending"
      BY <1>2, <1>i, <2>1 DEF EnqueueOccurrence, DecisionInv
    <3> QED
      BY <1>2, <1>i, <3>1 DEF EnqueueOccurrence, DecisionInv, adjudicationVars
  <2>2. CASE p # o
    BY <1>1, <1>2, <1>t, <2>2
    DEF EnqueueOccurrence, adjudicationVars, controlVars
  <2> QED
    BY <2>1, <2>2
<1>3. ASSUME DeadLetterExpiredLeases
      PROVE  DecisionInv(p)'
  <2>1. CASE p \in Exhausted
    BY <1>3, <1>i, <1>t, <2>1
    DEF DeadLetterExpiredLeases, SweepSideTables, Exhausted, DecisionInv
  <2>2. CASE p \notin Exhausted
    BY <1>1, <1>3, <1>t, <2>2
    DEF DeadLetterExpiredLeases, SweepSideTables, Swept, controlVars
  <2> QED
    BY <2>1, <2>2
<1>4. ASSUME NEW w \in Owners, NEW o \in Occurrences, NEW l \in LeaseLengths,
             Eligible(o), Claim(w, o, l)
      PROVE  DecisionInv(p)'
  <2>1. CASE p \in Exhausted
    <3>1. p # o
      BY <1>4, <2>1 DEF Eligible
    <3> QED
      BY <1>4, <1>i, <1>t, <2>1, <3>1
      DEF Claim, SweepSideTables, Exhausted, DecisionInv
  <2>2. CASE p # o /\ p \notin Exhausted
    BY <1>1, <1>4, <1>t, <2>2 DEF Claim, SweepSideTables, Swept
  <2>3. CASE p = o /\ p \notin Exhausted
    <3>1. /\ status'[p] = "running" /\ fence'[p] = fence[p] + 1
          /\ attempt'[p] = IF KeepsAttempt(p) THEN attempt[p]
                           ELSE attempt[p] + 1
          /\ UNCHANGED <<maxAttempts[p], adjudication[p], decision[p],
                         expectedAttempt[p], expectedFence[p]>>
      BY <1>4, <1>t, <2>3 DEF Claim, SweepSideTables, Swept
    <3>2. CASE adjudication[p] = "pending"
      <4>1. \/ attempt[p] > expectedAttempt[p] /\ fence[p] > expectedFence[p]
            \/ /\ ~ KeepsAttempt(p)
               /\ attempt[p] = expectedAttempt[p]
               /\ fence[p] = expectedFence[p]
        BY <1>i, <3>2 DEF DecisionInv, KeepsAttempt
      <4>2. attempt'[p] > expectedAttempt[p] /\ fence'[p] > expectedFence[p]
        BY <3>1, <4>1, <1>t
      <4> QED
        BY <1>i, <1>r, <3>1, <3>2, <4>2 DEF DecisionInv
    <3>3. CASE adjudication[p] # "pending"
      BY <1>i, <1>t, <3>1, <3>3 DEF DecisionInv
    <3> QED
      BY <3>2, <3>3
  <2> QED
    BY <2>1, <2>2, <2>3
<1>5. ASSUME NEW w \in Owners, NEW o \in Occurrences,
             \/ SettleSucceeded(w, o, fence[o])
             \/ \E r \in BOOLEAN, e \in Failures :
                  SettleDeadLetter(w, o, fence[o], r, e)
      PROVE  DecisionInv(p)'
  <2>1. CASE p = o
    BY <1>5, <1>i, <1>t, <2>1
    DEF SettleSucceeded, SettleDeadLetter, HoldsLease, CloseSideTables,
        DecisionInv
  <2>2. CASE p # o
    <3>1. UNCHANGED <<status[p], control[p], adjudication[p]>>
      BY <1>5, <1>t, <2>2
      DEF SettleSucceeded, SettleDeadLetter, ReleaseAs, TerminateControl,
          CloseSideTables
    <3>2. UNCHANGED <<attempt[p], maxAttempts[p], fence[p], decision[p],
                      expectedAttempt[p], expectedFence[p]>>
      BY <1>5 DEF SettleSucceeded, SettleDeadLetter
    <3> QED
      BY <1>1, <3>1, <3>2
  <2> QED
    BY <2>1, <2>2
<1>6. ASSUME NEW w \in Owners, NEW o \in Occurrences,
             \/ \E d \in 0..MaxDelay : SettleRetry(w, o, fence[o], d)
             \/ \E c \in SafePoints, g \in Lags :
                  AckPause(w, o, fence[o], controlRevision[o], c, g)
      PROVE  DecisionInv(p)'
  <2>1. UNCHANGED <<attempt[p], maxAttempts[p], fence[p], adjudication[p],
                    decision[p], expectedAttempt[p], expectedFence[p]>>
    BY <1>6 DEF SettleRetry, AckPause, adjudicationVars
  <2>2. CASE p = o
    <3>1. status[p] = "running" /\ status'[p] = "retry_wait"
      BY <1>6, <1>t, <2>2 DEF SettleRetry, AckPause, HoldsLease, ReleaseAs
    <3> QED
      BY <1>i, <1>r, <2>1, <3>1 DEF DecisionInv
  <2>3. CASE p # o
    <3>1. UNCHANGED <<status[p], control[p]>>
      BY <1>6, <1>t, <2>3
      DEF SettleRetry, AckPause, ReleaseAs, TerminateControl
    <3> QED
      BY <1>1, <2>1, <3>1
  <2> QED
    BY <2>2, <2>3
<1>7. ASSUME NEW o \in Occurrences, NEW g \in Lags,
             \/ \E q \in PauseRequests : RequestPause(o, q, fence[o], g)
             \/ \E q \in ResumeRequests : Resume(o, q, controlRevision[o], g)
      PROVE  DecisionInv(p)'
  <2>1. UNCHANGED <<status[p], attempt[p], maxAttempts[p], fence[p],
                    adjudication[p], decision[p], expectedAttempt[p],
                    expectedFence[p]>>
    BY <1>7 DEF RequestPause, Resume, occurrenceVars, adjudicationVars
  <2>2. \/ UNCHANGED control[p]
        \/ status[p] = "running"
        \/ control[p] = "paused"
    BY <1>7, <1>t DEF RequestPause, Resume
  <2> QED
    BY <1>i, <1>r, <2>1, <2>2 DEF DecisionInv
<1>8. ASSUME NEW o \in Occurrences, NEW g \in Lags, NEW q \in RetryRequests,
             RequeueDeadLetter(o, q, fence[o], g)
      PROVE  DecisionInv(p)'
  <2>1. UNCHANGED <<attempt[p], maxAttempts[p], fence[p], control[p],
                    adjudication[p], decision[p], expectedAttempt[p],
                    expectedFence[p]>>
    BY <1>8 DEF RequeueDeadLetter, controlVars, adjudicationVars
  <2>2. UNCHANGED status[p] \/ status[p] = "dead_letter"
    BY <1>8, <1>t DEF RequeueDeadLetter
  <2> QED
    BY <1>i, <1>r, <2>1, <2>2 DEF DecisionInv
<1>9. ASSUME NEW o \in Occurrences, NEW g \in Lags, NEW d \in Decisions,
             Adjudicate(o, d, attempt[o], fence[o], g)
      PROVE  DecisionInv(p)'
  <2>1. CASE p = o
    <3>1. /\ adjudication'[p] = "pending" /\ decision'[p] = d
          /\ expectedAttempt'[p] = attempt[p] /\ expectedFence'[p] = fence[p]
          /\ status[p] = "dead_letter" /\ status'[p] = "retry_wait"
          /\ attempt[p] > 0
          /\ maxAttempts'[p] = GrantedAttempts(attempt[p], d)
          /\ UNCHANGED <<attempt, fence, control, retryOf, retryFence,
                         retryClaimed>>
      BY <1>9, <1>t, <2>1 DEF Adjudicate, controlVars, retryVars
    <3>2. OpenRetries(p)' = {}
      BY <1>i, <3>1 DEF GrantInv, OpenRetries
    <3>3. control[p] \in {"none", "terminal"}
      BY <1>i, <3>1 DEF BudgetInv
    <3> QED
      BY <3>1, <3>2, <3>3 DEF DecisionInv, GrantedAttempts
  <2>2. CASE p # o
    BY <1>1, <1>9, <1>t, <2>2 DEF Adjudicate, controlVars
  <2> QED
    BY <2>1, <2>2
<1>10. CASE Tick
  BY <1>1, <1>10 DEF Tick, controlVars, adjudicationVars
<1>11. CASE UNCHANGED vars
  BY <1>1, <1>11 DEF vars, occurrenceVars, controlVars, adjudicationVars
<1>12. CASE AdminStep
  BY <1>1, <1>2, <1>12
  DEF AdminStep, CreateJob, UpdateJob, EnqueueOncePerTrigger, occurrenceVars,
      controlVars, adjudicationVars
<1>13. ASSUME NEW w \in Owners, ClaimStep(w)
       PROVE  DecisionInv(p)'
  BY <1>3, <1>4, <1>13 DEF ClaimStep, ClaimNext, ClaimOccurrence
<1>14. ASSUME NEW w \in Owners, OwnerStep(w)
       PROVE  DecisionInv(p)'
  <2>1. ASSUME NEW o \in Occurrences, NEW l \in LeaseLengths,
               Renew(w, o, fence[o], l)
        PROVE  DecisionInv(p)'
    BY <1>1, <2>1 DEF Renew, controlVars, adjudicationVars
  <2> QED
    BY <1>5, <1>6, <1>14, <2>1 DEF OwnerStep
<1>15. CASE OperatorStep
  BY <1>7, <1>8, <1>9, <1>15 DEF OperatorStep
<1> QED
  BY <1>10, <1>11, <1>12, <1>13, <1>14, <1>15 DEF Next

\* The three step lemmas together.
LEMMA SideInductive ==
  /\ Init => SideInvariant
  /\ SideInvariant /\ [Next]_vars => SideInvariant'
<1>1. Init => SideInvariant
  BY InitBudget, ConstantsAssumption
  DEF Init, SideInvariant, RetryInv, DecisionInv, GrantInv, OpenRetries,
      Occurrences
<1>2. SideInvariant /\ [Next]_vars => SideInvariant'
  BY StepBudget, StepRetryRows, StepOpenRetries, StepDecision
  DEF SideInvariant
<1> QED
  BY <1>1, <1>2

\* A decision always has a claim to come, which passes the binding check.
THEOREM PendingDecisionsBind == Spec => []PendingAdjudicationBinds
<1>1. SideInvariant => PendingAdjudicationBinds
  BY DEF SideInvariant, DecisionInv, PendingAdjudicationBinds
<1> QED
  BY <1>1, SideInductive, PTL DEF Spec

\* An operator's requeue pays for one claim.
THEOREM RequeuesGrantOneClaim == Spec => []RequeueGrantsOneClaim
<1>1. SideInvariant => RequeueGrantsOneClaim
  BY DEF SideInvariant, GrantInv, RequeueGrantsOneClaim
<1> QED
  BY <1>1, SideInductive, PTL DEF Spec

-----------------------------------------------------------------------------
(* What a claim costs.                                                     *)

Requeued(o) == {q \in RetryRequests : retryOf[q] = o /\ retryClaimed[q]}

PriceInv(o) ==
  /\ IsFiniteSet(Requeued(o))
  /\ fence[o] >= attempt[o]
  /\ fence[o] <= attempt[o] + Cardinality(Requeued(o)) + controlRevision[o]

PriceInvariant == SideInvariant /\ \A o \in Occurrences : PriceInv(o)

\* A step that is no claim of p gives nothing back.
LEMMA StepPrice ==
  ASSUME PriceInvariant, [Next]_vars, NEW p \in Occurrences
  PROVE  PriceInv(p)'
<1> USE ConstantsAssumption
<1>t. /\ attempt[p] \in Nat /\ fence[p] \in Nat /\ controlRevision[p] \in Nat
      /\ attempt \in [Occurrences -> Nat]
      /\ fence \in [Occurrences -> 0..MaxFence]
      /\ controlRevision \in [Occurrences -> Nat]
      /\ retryOf \in [RetryRequests -> Occurrences \cup {None}]
      /\ retryClaimed \in [RetryRequests -> BOOLEAN]
      /\ \A r \in RetryRequests : RetryInv(r)
      /\ None \notin Occurrences
  BY DEF PriceInvariant, SideInvariant, BudgetInvariant, TypeOK, SideTypeOK,
         OccurrenceTypeOK, ControlTypeOK, Occurrences
<1>i. PriceInv(p)
  BY DEF PriceInvariant
<1>c. Cardinality(Requeued(p)) \in Nat
  BY <1>i, FS_CardinalityType DEF PriceInv
<1>1. ASSUME UNCHANGED <<attempt[p], fence[p]>>,
             controlRevision'[p] \in {controlRevision[p],
                                      controlRevision[p] + 1},
             Requeued(p)' = Requeued(p)
      PROVE  PriceInv(p)'
  BY <1>1, <1>i, <1>t, <1>c DEF PriceInv
<1>2. ASSUME NEW w \in Owners, NEW o \in Occurrences, NEW l \in LeaseLengths,
             Claim(w, o, l)
      PROVE  PriceInv(p)'
  <2>1. CASE p # o
    <3>1. Requeued(p)' = Requeued(p)
      BY <1>2, <1>t, <2>1
      DEF Claim, ConsumeRetry, OpenRetries, Requeued
    <3> QED
      BY <1>1, <1>2, <1>t, <2>1, <3>1 DEF Claim, RebindControl
  <2>2. CASE p = o
    <3>1. /\ fence'[p] = fence[p] + 1
          /\ attempt'[p] = IF KeepsAttempt(p) THEN attempt[p]
                           ELSE attempt[p] + 1
          /\ controlRevision'[p] =
               IF control[p] \in {"pause_requested", "resumed"}
               THEN controlRevision[p] + 1 ELSE controlRevision[p]
      BY <1>2, <1>t, <2>2 DEF Claim, RebindControl
    <3>2. CASE OpenRetries(p) = {}
      <4>1. Requeued(p)' = Requeued(p)
        BY <1>2, <2>2, <3>2 DEF Claim, ConsumeRetry, Requeued
      <4>2. \/ attempt'[p] = attempt[p] + 1
            \/ /\ attempt'[p] = attempt[p]
               /\ controlRevision'[p] = controlRevision[p] + 1
        BY <3>1, <3>2 DEF KeepsAttempt
      <4>3. controlRevision'[p] \in {controlRevision[p],
                                     controlRevision[p] + 1}
        BY <3>1
      <4> QED
        BY <1>i, <1>t, <1>c, <3>1, <4>1, <4>2, <4>3 DEF PriceInv
    <3>3. CASE OpenRetries(p) # {}
      <4>1. PICK q \in OpenRetries(p) :
              retryClaimed' = [retryClaimed EXCEPT ![q] = TRUE]
        BY <1>2, <2>2, <3>3 DEF Claim, ConsumeRetry
      <4>2. /\ Requeued(p)' = Requeued(p) \cup {q}
            /\ q \notin Requeued(p)
        BY <1>2, <1>t, <4>1 DEF Claim, OpenRetries, Requeued
      <4>3. /\ IsFiniteSet(Requeued(p)')
            /\ Cardinality(Requeued(p)') = Cardinality(Requeued(p)) + 1
        BY <1>i, <4>2, FS_AddElement DEF PriceInv
      <4>4. attempt'[p] = attempt[p]
        BY <3>1, <3>3 DEF KeepsAttempt
      <4>5. controlRevision'[p] \in {controlRevision[p],
                                     controlRevision[p] + 1}
        BY <3>1
      <4> QED
        BY <1>i, <1>t, <1>c, <3>1, <4>3, <4>4, <4>5 DEF PriceInv
    <3> QED
      BY <3>2, <3>3
  <2> QED
    BY <2>1, <2>2
<1>3. ASSUME UNCHANGED <<attempt, fence, retryOf, retryClaimed>>,
             controlRevision'[p] \in {controlRevision[p],
                                      controlRevision[p] + 1}
      PROVE  PriceInv(p)'
  <2>1. Requeued(p)' = Requeued(p)
    BY <1>3 DEF Requeued
  <2> QED
    BY <1>1, <1>3, <2>1
<1>4. CASE Tick
  BY <1>3, <1>4 DEF Tick, controlVars, retryVars
<1>5. CASE UNCHANGED vars
  BY <1>3, <1>5 DEF vars, occurrenceVars, controlVars, retryVars
<1>6. CASE AdminStep
  BY <1>3, <1>6, AdminCases
  DEF EnqueueOccurrence, occurrenceVars, controlVars, retryVars
<1>7. ASSUME NEW w \in Owners, ClaimStep(w)
      PROVE  PriceInv(p)'
  <2>1. ASSUME DeadLetterExpiredLeases
        PROVE  PriceInv(p)'
    BY <1>3, <2>1 DEF DeadLetterExpiredLeases, controlVars, retryVars
  <2> QED
    BY <1>2, <1>7, <2>1 DEF ClaimStep, ClaimNext, ClaimOccurrence
<1>8. ASSUME NEW w \in Owners, OwnerStep(w)
      PROVE  PriceInv(p)'
  BY <1>3, <1>8, <1>t
  DEF OwnerStep, Renew, SettleSucceeded, SettleRetry, SettleDeadLetter,
      AckPause, TerminateControl, controlVars, retryVars
<1>9. CASE OperatorStep
  <2>1. ASSUME NEW o \in Occurrences, NEW g \in Lags,
               NEW r \in RetryRequests, RequeueDeadLetter(o, r, fence[o], g)
        PROVE  PriceInv(p)'
    <3>1. retryOf[r] = None /\ ~ retryClaimed[r]
      BY <2>1, <1>t DEF RequeueDeadLetter, RetryInv
    <3>2. Requeued(p)' = Requeued(p)
      BY <2>1, <1>t, <3>1 DEF RequeueDeadLetter, Requeued
    <3> QED
      BY <1>1, <2>1, <3>2 DEF RequeueDeadLetter, controlVars
  <2> QED
    BY <1>3, <1>9, <1>t, <2>1
    DEF OperatorStep, RequestPause, Resume, Adjudicate, occurrenceVars,
        controlVars, retryVars
<1> QED
  BY <1>4, <1>5, <1>6, <1>7, <1>8, <1>9 DEF Next

LEMMA InitPrice == Init => PriceInvariant
<1>1. Init => \A o \in Occurrences : Requeued(o) = {}
  BY DEF Init, Requeued
<1> QED
  BY <1>1, SideInductive, FS_EmptySet DEF Init, PriceInvariant, PriceInv

\* No claim is free: each is paid for by an attempt, a requeue or a step of
\* the occurrence's control.
THEOREM ClaimsArePaidFor == Spec => []ClaimsAccountedFor
<1>1. PriceInvariant /\ [Next]_vars => PriceInvariant'
  BY SideInductive, StepPrice DEF PriceInvariant
<1>2. PriceInvariant => ClaimsAccountedFor
  BY DEF PriceInvariant, PriceInv, Requeued, ClaimsAccountedFor
<1> QED
  BY InitPrice, <1>1, <1>2, PTL DEF Spec

-----------------------------------------------------------------------------

\* Rows appear one at a time, and a trigger that fires once finds no other.
LEMMA RowsAppearByEnqueueing ==
  ASSUME TypeOK, [Next]_vars, NEW p \in Occurrences,
         status[p] = "absent", status'[p] # "absent"
  PROVE  /\ \A o \in Occurrences :
              o # p => (status'[o] = "absent" <=> status[o] = "absent")
         /\ JobOf(p) \in OnceJobs =>
              \A r \in 1..MaxJobRevision :
                status[<<p[1], r, p[3]>>] = "absent"
<1> USE ConstantsAssumption
<1>t. /\ status \in [Occurrences -> Statuses]
      /\ revision \in [Jobs -> 0..MaxJobRevision]
  BY DEF TypeOK, OccurrenceTypeOK, JobTypeOK
<1>1. ASSUME NEW j \in Jobs, NEW t \in Triggers,
             NEW d \in (-MaxLag)..MaxDelay, EnqueueOccurrence(j, t, d)
      PROVE  /\ p = <<j, revision[j], t>>
             /\ \A o \in Occurrences :
                  o # p => status'[o] = status[o]
  BY <1>1, <1>t DEF EnqueueOccurrence
<1>2. ASSUME NEW w \in Owners, NEW o \in Occurrences, NEW l \in LeaseLengths,
             Eligible(o), Claim(w, o, l)
      PROVE  FALSE
  BY <1>2, <1>t DEF Claim, Eligible, Due, Swept, Exhausted
<1>3. ~ DeadLetterExpiredLeases
  BY <1>t DEF DeadLetterExpiredLeases, Swept, Exhausted
<1>4. ASSUME NEW w \in Owners
      PROVE  ~ ClaimStep(w)
  BY <1>2, <1>3 DEF ClaimStep, ClaimNext, ClaimOccurrence
<1>5. ASSUME NEW w \in Owners
      PROVE  ~ OwnerStep(w)
  BY <1>t
  DEF OwnerStep, Renew, SettleSucceeded, SettleRetry, SettleDeadLetter,
      AckPause, HoldsLease, ReleaseAs
<1>6. ~ OperatorStep
  BY <1>t
  DEF OperatorStep, RequestPause, Resume, RequeueDeadLetter, Adjudicate,
      occurrenceVars
<1>7. ~ Tick /\ ~ UNCHANGED vars
  BY DEF Tick, vars, occurrenceVars
<1>8. AdminStep
  BY <1>4, <1>5, <1>6, <1>7 DEF Next
<1>9. PICK j \in Jobs, t \in Triggers, d \in (-MaxLag)..MaxDelay :
        /\ EnqueueOccurrence(j, t, d)
        /\ j \in OnceJobs => EnqueueOncePerTrigger(j, t, d)
  BY <1>8
  DEF AdminStep, CreateJob, UpdateJob, EnqueueOncePerTrigger, occurrenceVars
<1> QED
  BY <1>1, <1>9 DEF EnqueueOncePerTrigger, JobOf

\* A trigger fires once across the revisions of its job.
THEOREM TriggersFireOnce == Spec => []OneOccurrencePerTrigger
<1>1. Init => OneOccurrencePerTrigger
  BY ConstantsAssumption DEF Init, OneOccurrencePerTrigger, Occurrences
<1>2. TypeOK /\ OneOccurrencePerTrigger /\ [Next]_vars =>
        OneOccurrencePerTrigger'
  <2> SUFFICES ASSUME TypeOK, OneOccurrencePerTrigger, [Next]_vars,
                      NEW j \in OnceJobs, NEW t \in Triggers,
                      NEW r \in 1..MaxJobRevision, NEW s \in 1..MaxJobRevision,
                      status'[<<j, r, t>>] # "absent",
                      status'[<<j, s, t>>] # "absent"
               PROVE  r = s
    BY DEF OneOccurrencePerTrigger
  <2>1. <<j, r, t>> \in Occurrences /\ <<j, s, t>> \in Occurrences
    BY ConstantsAssumption DEF Occurrences
  <2>2. CASE status[<<j, r, t>>] = "absent"
    BY <2>1, <2>2, RowsAppearByEnqueueing DEF JobOf
  <2>3. CASE status[<<j, s, t>>] = "absent"
    BY <2>1, <2>3, RowsAppearByEnqueueing DEF JobOf
  <2>4. CASE status[<<j, r, t>>] # "absent" /\ status[<<j, s, t>>] # "absent"
    BY <2>4 DEF OneOccurrencePerTrigger
  <2> QED
    BY <2>2, <2>3, <2>4
<1> QED
  BY <1>1, <1>2, TypeCorrect, PTL DEF Spec

-----------------------------------------------------------------------------

\* A paused occurrence is moved by its resume only.
THEOREM PauseHolds == Spec => PausedUntilResumed
<1>1. ASSUME BudgetInvariant, [Next]_vars, NEW p \in Occurrences,
             control[p] = "paused"
      PROVE  /\ control'[p] \in {"paused", "resumed"}
             /\ status'[p] = "retry_wait"
             /\ fence'[p] = fence[p] /\ attempt'[p] = attempt[p]
  <2> USE ConstantsAssumption
  <2> DEFINE Goal == /\ control'[p] \in {"paused", "resumed"}
                     /\ status'[p] = "retry_wait"
                     /\ fence'[p] = fence[p] /\ attempt'[p] = attempt[p]
  <2>t. /\ status \in [Occurrences -> Statuses]
        /\ control \in [Occurrences -> ControlStates]
        /\ fence \in [Occurrences -> 0..MaxFence]
        /\ attempt \in [Occurrences -> Nat]
        /\ status[p] = "retry_wait"
    BY <1>1
    DEF BudgetInvariant, BudgetInv, ControlMatches, TypeOK, OccurrenceTypeOK,
        ControlTypeOK
  <2>1. ASSUME UNCHANGED <<status[p], control[p], fence[p], attempt[p]>>
        PROVE  Goal
    BY <1>1, <2>1, <2>t
  <2>2. ASSUME DeadLetterExpiredLeases
        PROVE  Goal
    BY <2>1, <2>2, <2>t
    DEF DeadLetterExpiredLeases, Swept, Exhausted, controlVars
  <2>3. ASSUME NEW w \in Owners, NEW o \in Occurrences,
               NEW l \in LeaseLengths, Eligible(o), Claim(w, o, l)
        PROVE  Goal
    <3>1. p # o /\ p \notin Exhausted
      BY <1>1, <2>3, <2>t DEF Eligible, Exhausted
    <3> QED
      BY <2>1, <2>3, <2>t, <3>1 DEF Claim, Swept
  <2>4. ASSUME NEW w \in Owners, OwnerStep(w)
        PROVE  Goal
    BY <2>1, <2>4, <2>t
    DEF OwnerStep, Renew, SettleSucceeded, SettleRetry, SettleDeadLetter,
        AckPause, HoldsLease, ReleaseAs, TerminateControl, controlVars
  <2>5. CASE OperatorStep
    BY <1>1, <2>1, <2>5, <2>t
    DEF OperatorStep, RequestPause, Resume, RequeueDeadLetter, Adjudicate,
        occurrenceVars, controlVars
  <2>6. CASE AdminStep
    <3>1. ASSUME NEW j \in Jobs, NEW t \in Triggers,
                 NEW d \in (-MaxLag)..MaxDelay, EnqueueOccurrence(j, t, d)
          PROVE  Goal
      BY <2>1, <2>t, <3>1 DEF EnqueueOccurrence, controlVars
    <3> QED
      BY <2>1, <2>6, <3>1, AdminCases DEF occurrenceVars, controlVars
  <2>7. ASSUME NEW w \in Owners, ClaimStep(w)
        PROVE  Goal
    BY <2>2, <2>3, <2>7 DEF ClaimStep, ClaimNext, ClaimOccurrence
  <2>8. CASE Tick
    BY <2>1, <2>8 DEF Tick, controlVars
  <2>9. CASE UNCHANGED vars
    BY <2>1, <2>9 DEF vars, occurrenceVars, controlVars
  <2> QED
    BY <1>1, <2>4, <2>5, <2>6, <2>7, <2>8, <2>9 DEF Next
<1>2. BudgetInvariant /\ [Next]_vars =>
        [\A o \in Occurrences :
           control[o] = "paused" =>
             /\ control'[o] \in {"paused", "resumed"}
             /\ status'[o] = "retry_wait"
             /\ fence'[o] = fence[o] /\ attempt'[o] = attempt[o]]_vars
  BY <1>1
<1> QED
  BY <1>2, InitBudget, StepBudget, PTL DEF Spec, PausedUntilResumed
=============================================================================
