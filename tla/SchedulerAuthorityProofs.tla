---------------------- MODULE SchedulerAuthorityProofs ----------------------
(***************************************************************************)
(* Theorems about SchedulerAuthority: what a policy's budget and           *)
(* reservations are worth when executors, operators and administrators     *)
(* move between the steps of the resolver.                                 *)
(***************************************************************************)
EXTENDS SchedulerAuthority, SchedulerRuntimeProofs

AuthorityStep == [AuthorityNext]_<<runtimeVars, authorityVars>>

-----------------------------------------------------------------------------
(* What the store does to reservations.                                    *)

\* An absent row has no claim behind it and no reservation.
Present(o) ==
  status[o] = "absent" => fence[o] = 0 /\ reservation[o] = "none"

\* No store call makes or drops a reservation.
LEMMA ReservationsStand ==
  ASSUME TypeOK, [Next]_vars, NEW p \in Occurrences
  PROVE  reservation'[p] = "none" <=> reservation[p] = "none"
<1> USE ConstantsAssumption
<1>t. reservation \in
        [Occurrences -> {"none", "reserved", "succeeded", "failed"}]
  BY DEF TypeOK, SideTypeOK
<1>1. CASE AdminStep
  BY <1>1 DEF AdminStep, CreateJob, UpdateJob, EnqueueOncePerTrigger,
              EnqueueOccurrence
<1>2. ASSUME NEW w \in Owners, ClaimStep(w)
      PROVE  reservation'[p] = "none" <=> reservation[p] = "none"
  BY <1>2 DEF ClaimStep, ClaimNext, ClaimOccurrence, DeadLetterExpiredLeases,
              Claim, SweepSideTables
<1>3. ASSUME NEW w \in Owners, OwnerStep(w)
      PROVE  reservation'[p] = "none" <=> reservation[p] = "none"
  <2>1. ASSUME NEW o \in Occurrences, NEW s \in {"succeeded", "failed"},
               CloseSideTables(o, s)
        PROVE  reservation'[p] = "none" <=> reservation[p] = "none"
    BY <1>t, <2>1 DEF CloseSideTables
  <2> QED
    BY <1>3, <2>1 DEF OwnerStep, Renew, SettleSucceeded, SettleRetry,
                      SettleDeadLetter, AckPause
<1>4. CASE OperatorStep
  BY <1>4, <1>t
  DEF OperatorStep, RequestPause, Resume, RequeueDeadLetter, Adjudicate,
      ReopenReservation
<1>5. CASE Tick \/ UNCHANGED vars
  BY <1>5 DEF Tick, vars
<1> QED
  BY <1>1, <1>2, <1>3, <1>4, <1>5 DEF Next

\* A row that appears has never been claimed, and none disappears.
LEMMA StepPresent ==
  ASSUME TypeOK, TypeOK', [Next]_vars, NEW p \in Occurrences, Present(p)
  PROVE  /\ Present(p)'
         /\ status'[p] = "absent" => status[p] = "absent"
<1>1. status'[p] = "absent" => status[p] = "absent" /\ fence'[p] = fence[p]
  BY StepIsRowStep DEF RowStep
<1> QED
  BY <1>1, ReservationsStand DEF Present

\* A requeue is never forgotten.
LEMMA RequeuesStand ==
  ASSUME TypeOK, [Next]_vars, NEW q \in RetryRequests, retryFence[q] # 0
  PROVE  retryOf'[q] = retryOf[q] /\ retryFence'[q] = retryFence[q]
<1>t. /\ retryOf \in [RetryRequests -> Occurrences \cup {None}]
      /\ retryFence \in [RetryRequests -> Nat]
  BY DEF TypeOK, SideTypeOK
<1>1. ASSUME NEW o, NEW r, NEW f, NEW g, RequeueDeadLetter(o, r, f, g)
      PROVE  retryOf'[q] = retryOf[q] /\ retryFence'[q] = retryFence[q]
  BY <1>t, <1>1 DEF RequeueDeadLetter
<1>2. UNCHANGED retryVars => UNCHANGED <<retryOf, retryFence>>
  BY DEF retryVars
<1>3. AdminStep => UNCHANGED retryVars
  BY AdminCases DEF EnqueueOccurrence, retryVars
<1>4. ASSUME NEW w \in Owners, ClaimStep(w)
      PROVE  UNCHANGED <<retryOf, retryFence>>
  BY <1>4
  DEF ClaimStep, ClaimNext, ClaimOccurrence, DeadLetterExpiredLeases, Claim,
      ConsumeRetry, retryVars
<1>5. ASSUME NEW w \in Owners, OwnerStep(w)
      PROVE  UNCHANGED retryVars
  BY <1>5
  DEF OwnerStep, Renew, SettleSucceeded, SettleRetry, SettleDeadLetter,
      AckPause
<1>6. CASE OperatorStep
  BY <1>1, <1>2, <1>6 DEF OperatorStep, RequestPause, Resume, Adjudicate
<1>7. Tick \/ UNCHANGED vars => UNCHANGED retryVars
  BY DEF Tick, vars
<1> QED
  BY <1>2, <1>3, <1>4, <1>5, <1>6, <1>7 DEF Next

RequeuedOnce(o) == \E q \in RetryRequests : retryOf[q] = o /\ retryFence[q] # 0

OutcomeInv(o) ==
  /\ reservation[o] = "reserved" =>
       \/ status[o] \in {"running", "retry_wait"}
       \/ status[o] = "dead_letter" /\ lastError[o] = "lease_expired"
  /\ reservation[o] = "succeeded" => status[o] = "succeeded"
  /\ reservation[o] = "failed" => status[o] = "dead_letter" \/ RequeuedOnce(o)

\* A reservation is closed by the settlement that closes its occurrence.
LEMMA StepOutcome ==
  ASSUME TypeOK, [Next]_vars, NEW p \in Occurrences, OutcomeInv(p)
  PROVE  OutcomeInv(p)'
<1> USE ConstantsAssumption
<1>t. /\ reservation \in
           [Occurrences -> {"none", "reserved", "succeeded", "failed"}]
      /\ status \in [Occurrences -> Statuses]
      /\ lastError \in [Occurrences -> Failures \cup {"none", "lease_expired"}]
      /\ RequeuedOnce(p) => RequeuedOnce(p)'
  <2>1. RequeuedOnce(p) => RequeuedOnce(p)'
    BY RequeuesStand DEF RequeuedOnce
  <2> QED
    BY <2>1 DEF TypeOK, SideTypeOK, OccurrenceTypeOK
<1>1. ASSUME UNCHANGED <<status[p], lastError[p], reservation[p]>>
      PROVE  OutcomeInv(p)'
  BY <1>t, <1>1 DEF OutcomeInv
<1>2. ASSUME NEW j \in Jobs, NEW t \in Triggers,
             NEW d \in (-MaxLag)..MaxDelay, EnqueueOccurrence(j, t, d)
      PROVE  OutcomeInv(p)'
  BY <1>2, <1>t DEF EnqueueOccurrence, OutcomeInv
<1>3. CASE AdminStep
  BY <1>1, <1>2, <1>3
  DEF AdminStep, CreateJob, UpdateJob, EnqueueOncePerTrigger, occurrenceVars
<1>4. ASSUME DeadLetterExpiredLeases
      PROVE  OutcomeInv(p)'
  BY <1>4, <1>t
  DEF DeadLetterExpiredLeases, SweepSideTables, Swept, Exhausted, OutcomeInv
<1>5. ASSUME NEW w \in Owners, NEW o \in Occurrences, NEW l \in LeaseLengths,
             Eligible(o), Claim(w, o, l)
      PROVE  OutcomeInv(p)'
  <2>1. CASE p = o
    BY <1>5, <1>t, <2>1
    DEF Claim, Eligible, Due, SweepSideTables, Swept, OutcomeInv
  <2>2. CASE p # o
    BY <1>5, <1>t, <2>2
    DEF Claim, SweepSideTables, Swept, Exhausted, OutcomeInv
  <2> QED
    BY <2>1, <2>2
<1>6. ASSUME NEW w \in Owners, ClaimStep(w)
      PROVE  OutcomeInv(p)'
  BY <1>4, <1>5, <1>6 DEF ClaimStep, ClaimNext, ClaimOccurrence
<1>7. ASSUME NEW w \in Owners, NEW o \in Occurrences,
             SettleSucceeded(w, o, fence[o])
      PROVE  OutcomeInv(p)'
  BY <1>7, <1>t
  DEF SettleSucceeded, HoldsLease, ReleaseAs, CloseSideTables, OutcomeInv
<1>8. ASSUME NEW w \in Owners, NEW o \in Occurrences, NEW r \in BOOLEAN,
             NEW e \in Failures, SettleDeadLetter(w, o, fence[o], r, e)
      PROVE  OutcomeInv(p)'
  BY <1>8, <1>t
  DEF SettleDeadLetter, HoldsLease, ReleaseAs, CloseSideTables, OutcomeInv
<1>9. ASSUME NEW w \in Owners, OwnerStep(w)
      PROVE  OutcomeInv(p)'
  BY <1>1, <1>7, <1>8, <1>9, <1>t
  DEF OwnerStep, Renew, SettleRetry, AckPause, HoldsLease, ReleaseAs,
      OutcomeInv
<1>10. ASSUME NEW o \in Occurrences, NEW q \in RetryRequests, NEW g \in Lags,
              RequeueDeadLetter(o, q, fence[o], g)
       PROVE  OutcomeInv(p)'
  <2>1. p = o => RequeuedOnce(p)'
    <3>1. /\ retryOf \in [RetryRequests -> Occurrences \cup {None}]
          /\ retryFence \in [RetryRequests -> Nat]
          /\ fence \in [Occurrences -> Nat]
      BY DEF TypeOK, SideTypeOK, OccurrenceTypeOK
    <3>2. retryOf'[q] = o /\ retryFence'[q] # 0
      BY <1>10, <3>1 DEF RequeueDeadLetter
    <3> QED
      BY <3>2 DEF RequeuedOnce
  <2>2. reservation' = reservation /\ lastError' = lastError
        /\ status[o] = "dead_letter"
        /\ status' = [status EXCEPT ![o] = "retry_wait"]
    BY <1>10 DEF RequeueDeadLetter
  <2> QED
    BY <1>t, <2>1, <2>2 DEF OutcomeInv
<1>11. ASSUME NEW o \in Occurrences, NEW d \in Decisions, NEW g \in Lags,
              Adjudicate(o, d, attempt[o], fence[o], g)
       PROVE  OutcomeInv(p)'
  BY <1>11, <1>t DEF Adjudicate, ReopenReservation, OutcomeInv
<1>12. CASE OperatorStep
  BY <1>1, <1>10, <1>11, <1>12, <1>t
  DEF OperatorStep, RequestPause, Resume, occurrenceVars, OutcomeInv
<1>13. CASE Tick \/ UNCHANGED vars
  BY <1>1, <1>13 DEF Tick, vars, occurrenceVars
<1> QED
  BY <1>3, <1>6, <1>9, <1>12, <1>13 DEF Next

-----------------------------------------------------------------------------
(* The invariant.                                                          *)

Verdicts == {"none", "asked", "estimating", "granted", "denied"}
MayRun == Phases \ {"idle", "claimed", "authorizing"}

\* References to a policy revision are to one that has been in force.
AuthorityColumns ==
  /\ policyRevision \in 0..MaxPolicyRevision
  /\ policyEnabled \in BOOLEAN
  /\ policyEnabled => policyRevision > 0
  /\ policyRuns \in Nat
  /\ usage \in [PolicyRevisions -> [Windows -> Nat]]
  /\ reservedRevision \in [Occurrences -> 0..MaxPolicyRevision]
  /\ reservedWindow \in [Occurrences -> Windows]
  /\ boundTo \in [Jobs -> 0..policyRevision]
  /\ snapshot \in [Occurrences -> 0..policyRevision]
  /\ window \in Windows
  /\ verdict \in [Owners -> Verdicts]
  /\ claimedUnder \in [Owners -> 0..policyRevision]

\* A reservation is under the revision of its row, and precedes the runner.
ReservedRow(o) ==
  /\ IF reservation[o] = "none" THEN reservedRevision[o] = 0
     ELSE /\ reservedRevision[o] = snapshot[o]
          /\ reservedRevision[o] \in PolicyRevisions
  /\ effects[o] > 0 => reservation[o] # "none"

\* What the resolver has established for a busy worker.
Granted(w) ==
  pc[w] # "idle" =>
    /\ snapshot[claimed[w]] <= claimedUnder[w]
    /\ verdict[w] \in {"estimating", "granted"} \/ pc[w] \in MayRun =>
         claimedUnder[w] = snapshot[claimed[w]]
    /\ verdict[w] = "granted" \/ pc[w] \in MayRun =>
         reservation[claimed[w]] # "none"

ChargedTo(r, n) ==
  {o \in Occurrences : /\ reservation[o] # "none"
                       /\ reservedRevision[o] = r
                       /\ reservedWindow[o] = n}

UsageRow(r, n) ==
  /\ IsFiniteSet(ChargedTo(r, n))
  /\ Cardinality(ChargedTo(r, n)) = usage[r][n]
  /\ r > policyRevision => usage[r][n] = 0
  /\ r = policyRevision => usage[r][n] <= policyRuns

AuthorityInv ==
  /\ WorkerInv
  /\ AuthorityColumns
  /\ \A o \in Occurrences : Present(o) /\ OutcomeInv(o) /\ ReservedRow(o)
  /\ \A w \in Owners : Granted(w)
  /\ \A r \in PolicyRevisions, n \in Windows : UsageRow(r, n)

-----------------------------------------------------------------------------
(* The executors.                                                          *)

\* A worker comes to its adapter through the authorizer.
LEMMA WorkerPhases ==
  ASSUME WorkerInv, [RuntimeNext]_runtimeVars, NEW v \in Owners,
         pc'[v] # "idle"
  PROVE  \/ /\ pc[v] # "idle" /\ claimed'[v] = claimed[v]
            /\ pc'[v] \in MayRun => pc[v] \in MayRun \cup {"authorizing"}
         \/ /\ pc[v] = "idle" /\ pc'[v] = "claimed"
            /\ claimed'[v] \in Occurrences
<1> DEFINE Kept == /\ pc[v] # "idle" /\ claimed'[v] = claimed[v]
                   /\ pc'[v] \in MayRun =>
                        pc[v] \in MayRun \cup {"authorizing"}
           Taken == /\ pc[v] = "idle" /\ pc'[v] = "claimed"
                    /\ claimed'[v] \in Occurrences
<1>1. WorkerTypeOK /\ WorkerColumns
  BY WorkerInvTyped DEF WorkerInv
<1>2. CASE pc'[v] = pc[v] /\ claimed'[v] = claimed[v]
  BY <1>2
<1>3. ASSUME NEW w \in Owners, Polls(w)
      PROVE  Kept \/ Taken
  BY <1>1, <1>2, <1>3 DEF Polls, TakeClaim, WorkerColumns, workerVars
<1>4. ASSUME NEW w \in Owners, Works(w)
      PROVE  Kept \/ Taken
  <2>1. CASE Leave(w)
    BY <1>1, <1>2, <2>1 DEF Leave, WorkerColumns
  <2>2. CASE Moves(w)
    <3>1. CASE pc[w] = "claimed"
      BY <1>1, <1>2, <2>2, <3>1 DEF Moves, Goto, WorkerColumns, MayRun
    <3>2. CASE pc[w] # "claimed"
      <4>1. PICK x : Goto(w, x)
        BY <2>2 DEF Moves, ReadAdjudication, StartRunner
      <4> QED
        BY <1>1, <1>2, <2>2, <3>2, <4>1
        DEF Moves, BeforeStart, Goto, WorkerColumns, MayRun, Phases
    <3> QED
      BY <3>1, <3>2
  <2>3. CASE UNCHANGED workerVars
    BY <1>2, <2>3 DEF workerVars
  <2> QED
    BY <1>4, <2>1, <2>2, <2>3 DEF Works
<1> QED
  BY <1>1, <1>2, <1>3, <1>4, RuntimeCases DEF runtimeVars, workerVars

LEMMA StepExecutors ==
  ASSUME AuthorityInv, RuntimeStep
  PROVE  AuthorityInv'
<1> USE ConstantsAssumption
<1>1. /\ WorkerInv /\ WorkerInv' /\ [RuntimeNext]_runtimeVars /\ [Next]_vars
      /\ TypeOK /\ TypeOK' /\ WorkerTypeOK
  <2>1. WorkerInv /\ RuntimeNext
    BY DEF AuthorityInv, RuntimeStep
  <2>2. WorkerInv'
    BY <2>1, StepWorker
  <2> QED
    BY <2>1, <2>2, StoreStep, WorkerInvTyped DEF WorkerInv
<1>2. /\ UNCHANGED <<policyRevision, policyEnabled, policyRuns, usage,
                     reservedRevision, reservedWindow, window>>
      /\ BindJobs /\ BindOccurrences /\ FollowClaims
      /\ \A w \in Owners : Obeys(w)
  BY DEF RuntimeStep, policyVars, chargeVars
<1>t. /\ AuthorityColumns /\ WorkerColumns /\ WorkerColumns'
      /\ \A o \in Occurrences : JobOf(o) \in Jobs
  BY <1>1 DEF AuthorityInv, WorkerInv, Occurrences, JobOf
<1>3. ASSUME NEW o \in Occurrences
      PROVE  /\ Present(o)' /\ OutcomeInv(o)'
             /\ reservation'[o] = "none" <=> reservation[o] = "none"
             /\ status[o] # "absent" => snapshot'[o] = snapshot[o]
  BY <1>1, <1>2, StepPresent, StepOutcome, ReservationsStand
  DEF AuthorityInv, BindOccurrences
<1>4. AuthorityColumns'
  <2>1. boundTo' \in [Jobs -> 0..policyRevision]
    BY <1>2, <1>t DEF BindJobs, AuthorityColumns
  <2>2. snapshot' \in [Occurrences -> 0..policyRevision]
    BY <1>2, <1>t DEF BindOccurrences, AuthorityColumns
  <2>3. /\ verdict' \in [Owners -> Verdicts]
        /\ claimedUnder' \in [Owners -> 0..policyRevision]
    BY <1>2, <1>t DEF FollowClaims, AuthorityColumns, Verdicts
  <2> QED
    BY <1>2, <1>t, <2>1, <2>2, <2>3 DEF AuthorityColumns
<1>5. ASSUME NEW o \in Occurrences
      PROVE  ReservedRow(o)'
  <2>1. reservation[o] # "none" => snapshot'[o] = snapshot[o]
    BY <1>3 DEF AuthorityInv, Present
  <2>2. effects'[o] > 0 => effects[o] > 0 \/ reservation[o] # "none"
    <3>1. ASSUME NEW w \in Owners, StartRunner(w), claimed[w] = o
          PROVE  reservation[o] # "none"
      BY <3>1 DEF StartRunner, AuthorityInv, Granted, MayRun, Phases
    <3>2. ASSUME NEW w \in Owners, StartRunner(w), claimed[w] # o
          PROVE  effects'[o] = effects[o]
      BY <1>t, <3>2 DEF StartRunner, WorkerColumns
    <3>3. (\E w \in Owners : StartRunner(w)) \/ UNCHANGED effects
      BY <1>1, RuntimeCases DEF Polls, Works, RuntimeStep
    <3> QED
      BY <3>1, <3>2, <3>3
  <2>3. ReservedRow(o)
    BY DEF AuthorityInv
  <2> QED
    BY <1>2, <1>3, <2>1, <2>2, <2>3 DEF ReservedRow
<1>6. ASSUME NEW v \in Owners, pc'[v] # "idle"
      PROVE  Granted(v)'
  <2>1. /\ verdict'[v] = IF pc'[v] # "authorizing" THEN "none"
                         ELSE IF pc[v] = "claimed" THEN "asked"
                         ELSE verdict[v]
        /\ claimedUnder'[v] = IF pc'[v] = "claimed" /\ pc[v] = "idle"
                              THEN policyRevision ELSE claimedUnder[v]
    BY <1>2, <1>6 DEF FollowClaims
  <2>2. CASE /\ pc[v] # "idle" /\ claimed'[v] = claimed[v]
             /\ pc'[v] \in MayRun => pc[v] \in MayRun \cup {"authorizing"}
    <3> DEFINE o == claimed[v]
    <3>1. o \in Occurrences /\ fence[o] # 0
      BY <1>1, <2>2 DEF WorkerInv, WorkerRow
    <3>2. status[o] # "absent"
      BY <3>1 DEF AuthorityInv, Present
    <3>3. /\ snapshot'[o] = snapshot[o]
          /\ reservation'[o] = "none" <=> reservation[o] = "none"
      BY <1>3, <3>1, <3>2
    <3>4. pc[v] = "authorizing" /\ pc'[v] \in MayRun => verdict[v] = "granted"
      BY <1>2 DEF Obeys, MayRun
    <3>5. Granted(v)
      BY DEF AuthorityInv
    <3> QED
      BY <2>1, <2>2, <3>3, <3>4, <3>5 DEF Granted
  <2>3. CASE /\ pc[v] = "idle" /\ pc'[v] = "claimed"
             /\ claimed'[v] \in Occurrences
    <3>1. snapshot'[claimed'[v]] \in 0..policyRevision
      BY <1>2, <1>4, <2>3 DEF AuthorityColumns
    <3>2. verdict'[v] = "none" /\ claimedUnder'[v] = policyRevision
      BY <2>1, <2>3
    <3>3. snapshot'[claimed'[v]] <= claimedUnder'[v]
      BY <1>t, <3>1, <3>2 DEF AuthorityColumns
    <3> QED
      BY <2>3, <3>2, <3>3 DEF Granted, MayRun
  <2> QED
    BY <1>1, <1>6, <2>2, <2>3, WorkerPhases
<1>7. ASSUME NEW r \in PolicyRevisions, NEW n \in Windows
      PROVE  UsageRow(r, n)'
  <2>1. ChargedTo(r, n)' = ChargedTo(r, n)
    BY <1>2, <1>3 DEF ChargedTo
  <2>2. UsageRow(r, n)
    BY DEF AuthorityInv
  <2> QED
    BY <1>2, <2>1, <2>2 DEF UsageRow
<1>8. \A v \in Owners : Granted(v)'
  BY <1>6 DEF Granted
<1> QED
  BY <1>1, <1>3, <1>4, <1>5, <1>7, <1>8 DEF AuthorityInv

-----------------------------------------------------------------------------
(* Administrators, the clock and the resolver.                             *)

\* Rows and workers that nobody touched, under policies that only advance.
LEMMA StepPolicy ==
  ASSUME AuthorityInv,
         \/ \E e \in BOOLEAN, b \in Nat : SetAuthorityPolicy(e, b)
         \/ NextWindow
         \/ UNCHANGED <<runtimeVars, authorityVars>>
  PROVE  AuthorityInv'
<1> USE AuthorityAssumption
<1>1. /\ UNCHANGED <<runtimeVars, chargeVars, boundTo, snapshot, verdict,
                     claimedUnder>>
      /\ \/ UNCHANGED policyVars
         \/ /\ policyRevision' = policyRevision + 1
            /\ policyRevision < MaxPolicyRevision
            /\ policyEnabled' \in BOOLEAN /\ policyRuns' \in Nat
      /\ \/ window' = window
         \/ window' = window + 1 /\ window < MaxWindow
  BY DEF SetAuthorityPolicy, NextWindow, authorityVars
<1>2. UNCHANGED <<status, fence, reservation, lastError, effects, usage,
                  reservedRevision, reservedWindow, pc, claimed, retryOf,
                  retryFence>>
  BY <1>1 DEF runtimeVars, vars, workerVars, occurrenceVars, chargeVars,
              retryVars
<1>3. WorkerInv'
  <2>1. WorkerInv /\ UNCHANGED runtimeVars
    BY <1>1 DEF AuthorityInv
  <2> QED
    BY <2>1, StepWorker
<1>t. AuthorityColumns
  BY DEF AuthorityInv
<1>4. AuthorityColumns'
  <2>1. /\ policyRevision' \in 0..MaxPolicyRevision
        /\ 0..policyRevision \subseteq 0..policyRevision'
        /\ policyEnabled' \in BOOLEAN /\ policyRuns' \in Nat
        /\ policyEnabled' => policyRevision' > 0
    BY <1>1, <1>t DEF AuthorityColumns, policyVars
  <2>2. window' \in Windows
    BY <1>1, <1>t DEF AuthorityColumns, Windows
  <2> QED
    BY <1>1, <1>2, <1>t, <2>1, <2>2 DEF AuthorityColumns
<1>5. ASSUME NEW o \in Occurrences
      PROVE  Present(o)' /\ OutcomeInv(o)' /\ ReservedRow(o)'
  BY <1>1, <1>2
  DEF AuthorityInv, Present, OutcomeInv, RequeuedOnce, ReservedRow
<1>6. ASSUME NEW w \in Owners
      PROVE  Granted(w)'
  BY <1>1, <1>2 DEF AuthorityInv, Granted
<1>7. ASSUME NEW r \in PolicyRevisions, NEW n \in Windows
      PROVE  UsageRow(r, n)'
  <2>1. ChargedTo(r, n)' = ChargedTo(r, n)
    BY <1>2 DEF ChargedTo
  <2>2. UsageRow(r, n) /\ usage[r][n] \in Nat /\ r \in Nat
    BY <1>t DEF AuthorityInv, AuthorityColumns, PolicyRevisions
  <2> QED
    BY <1>1, <1>2, <1>t, <2>1, <2>2
    DEF UsageRow, AuthorityColumns, policyVars
<1> QED
  BY <1>3, <1>4, <1>5, <1>6, <1>7 DEF AuthorityInv

\* The policy in force is the one the occurrence was enqueued under, and no
\* newer than the claim: they are the same.
LEMMA StepReadPolicy ==
  ASSUME AuthorityInv, NEW w \in Owners, ReadPolicy(w)
  PROVE  AuthorityInv'
<1>1. /\ UNCHANGED <<runtimeVars, policyVars, chargeVars, boundTo, snapshot,
                     window, claimedUnder>>
      /\ pc[w] = "authorizing"
      /\ \/ verdict' = [verdict EXCEPT ![w] = "denied"]
         \/ /\ verdict' = [verdict EXCEPT ![w] = "estimating"]
            /\ snapshot[claimed[w]] = policyRevision
  BY DEF ReadPolicy
<1>2. UNCHANGED <<status, fence, reservation, lastError, effects, usage,
                  reservedRevision, reservedWindow, pc, claimed, retryOf,
                  retryFence, policyRevision, policyEnabled, policyRuns>>
  BY <1>1 DEF runtimeVars, vars, workerVars, occurrenceVars, chargeVars,
              policyVars, retryVars
<1>3. WorkerInv'
  BY <1>1, StepWorker DEF AuthorityInv
<1>t. AuthorityColumns /\ \A v \in Owners : Granted(v)
  BY DEF AuthorityInv
<1>4. AuthorityColumns'
  BY <1>1, <1>2, <1>t DEF AuthorityColumns, Verdicts
<1>5. ASSUME NEW o \in Occurrences
      PROVE  Present(o)' /\ OutcomeInv(o)' /\ ReservedRow(o)'
  BY <1>1, <1>2
  DEF AuthorityInv, Present, OutcomeInv, RequeuedOnce, ReservedRow
<1>6. ASSUME NEW v \in Owners
      PROVE  Granted(v)'
  <2>1. CASE v # w
    BY <1>1, <1>2, <1>t, <2>1 DEF Granted, AuthorityColumns
  <2>2. CASE v = w
    <3>1. claimedUnder[w] \in Int /\ claimedUnder[w] <= policyRevision
          /\ policyRevision \in Int
      BY <1>t, AuthorityAssumption DEF AuthorityColumns
    <3>2. snapshot[claimed[w]] = policyRevision =>
            claimedUnder[w] = snapshot[claimed[w]]
      BY <1>1, <1>t, <3>1 DEF Granted
    <3>3. verdict'[w] \in {"denied", "estimating"}
          /\ (verdict'[w] = "estimating" =>
                snapshot[claimed[w]] = policyRevision)
      BY <1>1, <1>t DEF AuthorityColumns
    <3> QED
      BY <1>1, <1>2, <1>t, <2>2, <3>2, <3>3 DEF Granted, MayRun
  <2> QED
    BY <2>1, <2>2
<1>7. ASSUME NEW r \in PolicyRevisions, NEW n \in Windows
      PROVE  UsageRow(r, n)'
  <2>1. ChargedTo(r, n)' = ChargedTo(r, n)
    BY <1>2 DEF ChargedTo
  <2> QED
    BY <1>2, <2>1 DEF AuthorityInv, UsageRow
<1> QED
  BY <1>3, <1>4, <1>5, <1>6, <1>7 DEF AuthorityInv

\* What a reservation leaves as it is.
LEMMA ReserveFrame ==
  ASSUME AuthorityInv, NEW w \in Owners, ReserveAuthority(w)
  PROVE  /\ UNCHANGED <<jobVars, occurrenceVars, controlVars, retryVars,
                        adjudicationVars, workerVars, effects, policyVars,
                        boundTo, snapshot, window, claimedUnder>>
         /\ pc[w] = "authorizing" /\ verdict[w] = "estimating"
         /\ claimed[w] \in Occurrences
         /\ snapshot[claimed[w]] = claimedUnder[w]
         /\ \E n \in Windows :
              Reserve(w, claimed[w], snapshot[claimed[w]], n)
<1>1. /\ pc[w] = "authorizing" /\ verdict[w] = "estimating"
      /\ \E n \in {window} \cup ({window - 1} \cap Windows) :
           Reserve(w, claimed[w], snapshot[claimed[w]], n)
  BY DEF ReserveAuthority
<1>2. window \in Windows /\ claimed[w] \in Occurrences
  BY <1>1 DEF AuthorityInv, AuthorityColumns, WorkerInv, WorkerRow
<1>3. snapshot[claimed[w]] = claimedUnder[w]
  BY <1>1 DEF AuthorityInv, Granted
<1> QED
  BY <1>1, <1>2, <1>3 DEF ReserveAuthority

\* The three answers of reserveAuthority.
LEMMA ReserveCases ==
  ASSUME AuthorityInv, NEW w \in Owners, NEW o \in Occurrences,
         NEW n \in Windows, Reserve(w, o, snapshot[o], n)
  PROVE  \/ /\ UNCHANGED <<reservation, chargeVars>>
            /\ \/ verdict' = [verdict EXCEPT ![w] = "denied"]
               \/ /\ verdict' = [verdict EXCEPT ![w] = "granted"]
                  /\ reservation[o] # "none"
         \/ /\ status[o] = "running" /\ reservation[o] = "none"
            /\ snapshot[o] = policyRevision /\ snapshot[o] \in PolicyRevisions
            /\ usage[snapshot[o]][n] < policyRuns
            /\ Grant(w, o, snapshot[o], n)
<1>1. snapshot[o] = policyRevision /\ policyEnabled =>
        snapshot[o] \in PolicyRevisions
  BY AuthorityAssumption DEF AuthorityInv, AuthorityColumns, PolicyRevisions
<1> QED
  BY <1>1 DEF Reserve, Deduplicate, Answer, WithinBudget

\* Columns and rows after a charge.
LEMMA GrantCharges ==
  ASSUME AuthorityInv, NEW w \in Owners, NEW o \in Occurrences,
         NEW n \in Windows, NEW r \in PolicyRevisions,
         reservation[o] = "none", r = policyRevision,
         usage[r][n] < policyRuns, Grant(w, o, r, n),
         UNCHANGED <<policyRevision, policyRuns>>
  PROVE  \A s \in PolicyRevisions, k \in Windows : UsageRow(s, k)'
<1> SUFFICES ASSUME NEW s \in PolicyRevisions, NEW k \in Windows
             PROVE  UsageRow(s, k)'
  OBVIOUS
<1>t. AuthorityColumns /\ TypeOK
  BY WorkerInvTyped DEF AuthorityInv
<1>1. UsageRow(s, k)
  BY DEF AuthorityInv
<1>2. \A p \in Occurrences :
        IF p = o
        THEN /\ reservation'[p] = "reserved"
             /\ reservedRevision'[p] = r /\ reservedWindow'[p] = n
        ELSE /\ reservation'[p] = reservation[p]
             /\ reservedRevision'[p] = reservedRevision[p]
             /\ reservedWindow'[p] = reservedWindow[p]
  BY <1>t DEF Grant, AuthorityColumns, TypeOK, SideTypeOK
<1>3. CASE s = r /\ k = n
  <2>1. /\ ChargedTo(s, k)' = ChargedTo(s, k) \cup {o}
        /\ o \notin ChargedTo(s, k)
    BY <1>2, <1>3 DEF ChargedTo
  <2>2. /\ IsFiniteSet(ChargedTo(s, k)')
        /\ Cardinality(ChargedTo(s, k)') = Cardinality(ChargedTo(s, k)) + 1
    BY <1>1, <2>1, FS_AddElement DEF UsageRow
  <2>3. usage'[s][k] = usage[s][k] + 1 /\ usage[s][k] \in Nat
    BY <1>t, <1>3 DEF Grant, AuthorityColumns
  <2>4. policyRuns \in Nat /\ policyRevision \in Nat
    BY <1>t, AuthorityAssumption DEF AuthorityColumns
  <2> QED
    BY <1>1, <1>3, <2>2, <2>3, <2>4 DEF UsageRow
<1>4. CASE ~ (s = r /\ k = n)
  <2>1. ChargedTo(s, k)' = ChargedTo(s, k)
    BY <1>2, <1>4 DEF ChargedTo
  <2>2. usage'[s][k] = usage[s][k]
    BY <1>t, <1>4 DEF Grant, AuthorityColumns
  <2> QED
    BY <1>1, <2>1, <2>2 DEF UsageRow
<1> QED
  BY <1>3, <1>4

LEMMA StepReserve ==
  ASSUME AuthorityInv, NEW w \in Owners, ReserveAuthority(w)
  PROVE  AuthorityInv'
<1> DEFINE o == claimed[w]
<1>1. /\ pc[w] = "authorizing" /\ verdict[w] = "estimating"
      /\ o \in Occurrences /\ snapshot[o] = claimedUnder[w]
      /\ UNCHANGED <<status, fence, lastError, effects, pc, claimed, token,
                     tried, retryOf, retryFence, policyRevision,
                     policyEnabled, policyRuns, boundTo, snapshot, window,
                     claimedUnder>>
  BY ReserveFrame DEF occurrenceVars, workerVars, policyVars, retryVars
<1>2. PICK n \in Windows : Reserve(w, o, snapshot[o], n)
  BY ReserveFrame
<1>t. /\ AuthorityColumns /\ WorkerInv /\ TypeOK
      /\ \A v \in Owners : Granted(v)
      /\ \A p \in Occurrences : Present(p) /\ OutcomeInv(p) /\ ReservedRow(p)
      /\ \A r \in PolicyRevisions, k \in Windows : UsageRow(r, k)
  BY WorkerInvTyped DEF AuthorityInv
<1>3. ASSUME reservation' \in
               [Occurrences -> {"none", "reserved", "succeeded", "failed"}]
      PROVE  WorkerInv'
  <2>1. TypeOK'
    BY <1>3, <1>t, ReserveFrame
    DEF TypeOK, JobTypeOK, OccurrenceTypeOK, ControlTypeOK, SideTypeOK,
        LeaseColumnsOK, jobVars, occurrenceVars, controlVars, retryVars,
        adjudicationVars
  <2> QED
    BY <1>1, <1>t, <2>1 DEF WorkerInv, WorkerColumns, WorkerRow
<1>4. ASSUME UNCHANGED <<reservation, chargeVars>>,
             NEW x \in {"denied", "granted"},
             verdict' = [verdict EXCEPT ![w] = x],
             x = "granted" => reservation[o] # "none"
      PROVE  AuthorityInv'
  <2>1. WorkerInv'
    BY <1>3, <1>4, <1>t DEF TypeOK, SideTypeOK
  <2>2. AuthorityColumns'
    BY <1>1, <1>4, <1>t DEF AuthorityColumns, chargeVars, Verdicts
  <2>3. ASSUME NEW p \in Occurrences
        PROVE  Present(p)' /\ OutcomeInv(p)' /\ ReservedRow(p)'
    BY <1>1, <1>4, <1>t
    DEF Present, OutcomeInv, RequeuedOnce, ReservedRow, chargeVars
  <2>4. ASSUME NEW v \in Owners
        PROVE  Granted(v)'
    <3>1. verdict'[v] = IF v = w THEN x ELSE verdict[v]
      BY <1>4, <1>t DEF AuthorityColumns
    <3> QED
      BY <1>1, <1>4, <1>t, <3>1 DEF Granted
  <2>5. ASSUME NEW r \in PolicyRevisions, NEW k \in Windows
        PROVE  UsageRow(r, k)'
    <3>1. ChargedTo(r, k)' = ChargedTo(r, k)
      BY <1>4 DEF ChargedTo, chargeVars
    <3> QED
      BY <1>1, <1>4, <1>t, <3>1 DEF UsageRow, chargeVars
  <2> QED
    BY <2>1, <2>2, <2>3, <2>4, <2>5 DEF AuthorityInv
<1>5. ASSUME status[o] = "running", reservation[o] = "none",
             snapshot[o] = policyRevision, snapshot[o] \in PolicyRevisions,
             usage[snapshot[o]][n] < policyRuns, Grant(w, o, snapshot[o], n)
      PROVE  AuthorityInv'
  <2> DEFINE r == snapshot[o]
  <2>1. /\ usage' = [usage EXCEPT ![r][n] = @ + 1]
        /\ reservation' = [reservation EXCEPT ![o] = "reserved"]
        /\ reservedRevision' = [reservedRevision EXCEPT ![o] = r]
        /\ reservedWindow' = [reservedWindow EXCEPT ![o] = n]
        /\ verdict' = [verdict EXCEPT ![w] = "granted"]
    BY <1>5 DEF Grant, Answer
  <2>2. WorkerInv'
    BY <1>3, <1>t, <2>1 DEF TypeOK, SideTypeOK
  <2>3. AuthorityColumns'
    <3>1. usage' \in [PolicyRevisions -> [Windows -> Nat]]
      BY <1>t, <1>5, <2>1 DEF AuthorityColumns
    <3>2. r \in 0..MaxPolicyRevision
      BY <1>5 DEF PolicyRevisions
    <3> QED
      BY <1>1, <1>t, <2>1, <3>1, <3>2 DEF AuthorityColumns, Verdicts
  <2>4. ASSUME NEW p \in Occurrences
        PROVE  Present(p)' /\ OutcomeInv(p)' /\ ReservedRow(p)'
    <3>1. CASE p = o
      BY <1>1, <1>5, <1>t, <2>1, <3>1
      DEF Present, OutcomeInv, RequeuedOnce, ReservedRow, AuthorityColumns,
          TypeOK, SideTypeOK
    <3>2. CASE p # o
      BY <1>1, <1>t, <2>1, <3>2
      DEF Present, OutcomeInv, RequeuedOnce, ReservedRow, AuthorityColumns,
          TypeOK, SideTypeOK
    <3> QED
      BY <3>1, <3>2
  <2>5. ASSUME NEW v \in Owners
        PROVE  Granted(v)'
    <3>1. /\ verdict'[v] = IF v = w THEN "granted" ELSE verdict[v]
          /\ \A p \in Occurrences :
               reservation'[p] = IF p = o THEN "reserved" ELSE reservation[p]
          /\ pc[v] # "idle" => claimed[v] \in Occurrences
      BY <1>t, <2>1
      DEF AuthorityColumns, TypeOK, SideTypeOK, WorkerInv, WorkerRow
    <3> QED
      BY <1>1, <1>t, <3>1 DEF Granted
  <2>6. \A s \in PolicyRevisions, k \in Windows : UsageRow(s, k)'
    BY <1>1, <1>5, GrantCharges
  <2> QED
    BY <2>2, <2>3, <2>4, <2>5, <2>6 DEF AuthorityInv
<1> QED
  BY <1>1, <1>2, <1>4, <1>5, ReserveCases

-----------------------------------------------------------------------------
(* The theorems.                                                           *)

LEMMA AuthorityInductive ==
  /\ AuthorityInit => AuthorityInv
  /\ AuthorityInv /\ AuthorityStep => AuthorityInv'
<1> USE AuthorityAssumption
<1>1. ASSUME AuthorityInit
      PROVE  AuthorityInv
  <2>1. WorkerInv
    BY <1>1, InitWorker DEF AuthorityInit
  <2>2. AuthorityColumns
    <3>1. usage \in [PolicyRevisions -> [Windows -> Nat]]
      BY <1>1 DEF AuthorityInit
    <3>2. /\ 0 \in 0..MaxPolicyRevision /\ 0 \in Windows /\ 0 \in Nat
          /\ policyRevision = 0 /\ 0 \in 0..policyRevision
      BY <1>1 DEF AuthorityInit, Windows
    <3> QED
      BY <1>1, <3>1, <3>2 DEF AuthorityInit, AuthorityColumns, Verdicts
  <2>3. \A o \in Occurrences : Present(o) /\ OutcomeInv(o) /\ ReservedRow(o)
    BY <1>1 DEF AuthorityInit, RuntimeInit, Init, Present, OutcomeInv,
                ReservedRow
  <2>4. \A w \in Owners : Granted(w)
    BY <1>1 DEF AuthorityInit, RuntimeInit, Granted
  <2>5. ASSUME NEW r \in PolicyRevisions, NEW n \in Windows
        PROVE  UsageRow(r, n)
    <3>1. ChargedTo(r, n) = {}
      BY <1>1 DEF AuthorityInit, RuntimeInit, Init, ChargedTo
    <3> QED
      BY <1>1, <3>1, FS_EmptySet DEF AuthorityInit, UsageRow
  <2> QED
    BY <2>1, <2>2, <2>3, <2>4, <2>5 DEF AuthorityInv
<1>2. ASSUME AuthorityInv, AuthorityStep
      PROVE  AuthorityInv'
  <2>1. CASE RuntimeStep
    BY <1>2, <2>1, StepExecutors
  <2>2. CASE \/ \E e \in BOOLEAN, b \in Nat : SetAuthorityPolicy(e, b)
             \/ NextWindow
             \/ UNCHANGED <<runtimeVars, authorityVars>>
    BY <1>2, <2>2, StepPolicy
  <2>3. ASSUME NEW w \in Owners, ReadPolicy(w) \/ ReserveAuthority(w)
        PROVE  AuthorityInv'
    BY <1>2, <2>3, StepReadPolicy, StepReserve
  <2>4. AuthorityNext => \/ RuntimeStep \/ NextWindow
                         \/ \E e \in BOOLEAN, b \in Nat :
                              SetAuthorityPolicy(e, b)
                         \/ \E w \in Owners :
                              ReadPolicy(w) \/ ReserveAuthority(w)
    BY DEF AuthorityNext, EnsureAuthorityPolicy
  <2> QED
    BY <1>2, <2>1, <2>2, <2>3, <2>4 DEF AuthorityStep
<1> QED
  BY <1>1, <1>2

LEMMA AuthorityHolds == AuthoritySpec => []AuthorityInv
  BY AuthorityInductive, PTL DEF AuthoritySpec, AuthorityStep

\* Policies, reservations and resolvers hold the values they are declared for.
THEOREM AuthorityTyped == AuthoritySpec => []AuthorityTypeOK
<1>1. AuthorityInv => AuthorityTypeOK
  <2> SUFFICES ASSUME AuthorityInv PROVE AuthorityTypeOK
    OBVIOUS
  <2>1. AuthorityColumns /\ \A o \in Occurrences : ReservedRow(o)
    BY DEF AuthorityInv
  <2>2. 0..policyRevision \subseteq 0..MaxPolicyRevision
    BY <2>1, AuthorityAssumption DEF AuthorityColumns
  <2> QED
    BY <2>1, <2>2
    DEF AuthorityColumns, ReservedRow, AuthorityTypeOK, Verdicts
<1> QED
  BY <1>1, AuthorityHolds, PTL

\* Usage and reservation rows agree, so no principal is locked out by
\* BUDGET_STATE_INVALID.
THEOREM UsageIsAccounted == AuthoritySpec => []UsageMatchesReservations
<1>1. AuthorityInv => UsageMatchesReservations
  BY DEF AuthorityInv, UsageRow, ChargedTo, UsageMatchesReservations, Charged
<1> QED
  BY <1>1, AuthorityHolds, PTL

\* No window sees more occurrences started than the policy in force allows.
THEOREM BudgetBoundsStarts == AuthoritySpec => []StartsWithinBudget
<1>1. ASSUME AuthorityInv, NEW n \in Windows
      PROVE  Cardinality({o \in Occurrences :
                            /\ effects[o] > 0
                            /\ reservedRevision[o] = policyRevision
                            /\ reservedWindow[o] = n}) <= policyRuns
  <2> DEFINE S == {o \in Occurrences : /\ effects[o] > 0
                                       /\ reservedRevision[o] = policyRevision
                                       /\ reservedWindow[o] = n}
  <2>1. AuthorityColumns /\ \A o \in Occurrences : ReservedRow(o)
    BY <1>1 DEF AuthorityInv
  <2>2. CASE policyRevision \in PolicyRevisions
    <3>1. S \subseteq ChargedTo(policyRevision, n)
      BY <2>1 DEF ReservedRow, ChargedTo
    <3>2. UsageRow(policyRevision, n)
      BY <1>1, <2>2 DEF AuthorityInv
    <3>3. /\ Cardinality(S) <= Cardinality(ChargedTo(policyRevision, n))
          /\ Cardinality(S) \in Nat
      BY <3>1, <3>2, FS_Subset, FS_CardinalityType DEF UsageRow
    <3>4. /\ Cardinality(ChargedTo(policyRevision, n)) <= policyRuns
          /\ Cardinality(ChargedTo(policyRevision, n)) \in Nat
          /\ policyRuns \in Nat
      BY <2>1, <2>2, <3>2 DEF UsageRow, AuthorityColumns
    <3> QED
      BY <3>3, <3>4
  <2>3. CASE policyRevision \notin PolicyRevisions
    <3>1. policyRevision = 0
      BY <2>1, <2>3, AuthorityAssumption
      DEF AuthorityColumns, PolicyRevisions
    <3>2. S = {}
      BY <2>1, <3>1 DEF ReservedRow, PolicyRevisions
    <3>3. Cardinality(S) = 0
      BY <3>2, FS_EmptySet
    <3>4. policyRuns \in Nat
      BY <2>1 DEF AuthorityColumns
    <3> QED
      BY <3>3, <3>4
  <2> QED
    BY <2>2, <2>3
<1>2. AuthorityInv => StartsWithinBudget
  BY <1>1 DEF StartsWithinBudget
<1> QED
  BY <1>2, AuthorityHolds, PTL

\* A claim made after its policy was replaced or disabled reaches no adapter.
THEOREM ReplacedPoliciesStop == AuthoritySpec => []ReplacedPolicyNeverRuns
<1>1. AuthorityInv => ReplacedPolicyNeverRuns
  BY DEF AuthorityInv, WorkerInv, WorkerColumns, Granted, MayRun,
         ReplacedPolicyNeverRuns
<1> QED
  BY <1>1, AuthorityHolds, PTL

\* A reservation is open only while its occurrence is, and succeeds with it.
THEOREM ReservationsFollow == AuthoritySpec => []ReservationFollowsOutcome
<1>1. AuthorityInv => ReservationFollowsOutcome
  BY DEF AuthorityInv, OutcomeInv, RequeuedOnce, ReservationFollowsOutcome
<1> QED
  BY <1>1, AuthorityHolds, PTL

-----------------------------------------------------------------------------
(* The authority narrows the runtime.                                      *)

\* No guard reads a reservation.
LEMMA SameGuards ==
  /\ Unreserved!Occurrences = Occurrences
  /\ Unreserved!Lags = Lags
  /\ Unreserved!Decisions = Decisions
  /\ Unreserved!SafePoints = SafePoints
  /\ \A o : Unreserved!JobOf(o) = JobOf(o)
  /\ Unreserved!Exhausted = Exhausted
  /\ \A o : Unreserved!OpenRetries(o) = OpenRetries(o)
  /\ \A o : Unreserved!KeepsAttempt(o) <=> KeepsAttempt(o)
  /\ \A o : Unreserved!Eligible(o) <=> Eligible(o)
  /\ \A o : Unreserved!DueSince(o) = DueSince(o)
  /\ \A c, v : Unreserved!Swept(c, v) = Swept(c, v)
  /\ \A w, o, f, g : Unreserved!HoldsLease(w, o, f, g) <=> HoldsLease(w, o, f, g)
  BY DEF Occurrences, Unreserved!Occurrences, JobOf, Unreserved!JobOf,
         Lags, Unreserved!Lags, Decisions, Unreserved!Decisions,
         SafePoints, Unreserved!SafePoints,
         Exhausted, Unreserved!Exhausted, OpenRetries, Unreserved!OpenRetries,
         KeepsAttempt, Unreserved!KeepsAttempt, Eligible, Unreserved!Eligible,
         Due, Unreserved!Due, DueSince, Unreserved!DueSince,
         Swept, Unreserved!Swept, HoldsLease, Unreserved!HoldsLease

\* None of the frames below mentions the reservations.
LEMMA SameFrames ==
  /\ UNCHANGED Unreserved!jobVars <=> UNCHANGED jobVars
  /\ UNCHANGED Unreserved!occurrenceVars <=> UNCHANGED occurrenceVars
  /\ UNCHANGED Unreserved!controlVars <=> UNCHANGED controlVars
  /\ UNCHANGED Unreserved!retryVars <=> UNCHANGED retryVars
  /\ UNCHANGED Unreserved!adjudicationVars <=> UNCHANGED adjudicationVars
  BY DEF jobVars, Unreserved!jobVars, occurrenceVars,
         Unreserved!occurrenceVars, controlVars, Unreserved!controlVars,
         retryVars, Unreserved!retryVars, adjudicationVars,
         Unreserved!adjudicationVars

\* Calls of the store, one by one.
LEMMA JobCallsMap ==
  ASSUME NEW j, NEW e, NEW m, NEW t, NEW d
  PROVE  /\ CreateJob(j, e, m) => Unreserved!CreateJob(j, e, m)
         /\ UpdateJob(j, e, m) => Unreserved!UpdateJob(j, e, m)
         /\ EnqueueOccurrence(j, t, d) => Unreserved!EnqueueOccurrence(j, t, d)
         /\ EnqueueOncePerTrigger(j, t, d) => Unreserved!EnqueueOncePerTrigger(j, t, d)
         /\ Tick => Unreserved!Tick
<1>1. CreateJob(j, e, m) => Unreserved!CreateJob(j, e, m)
  BY SameGuards, SameFrames DEF CreateJob, Unreserved!CreateJob
<1>2. UpdateJob(j, e, m) => Unreserved!UpdateJob(j, e, m)
  BY SameGuards, SameFrames DEF UpdateJob, Unreserved!UpdateJob
<1>3. EnqueueOccurrence(j, t, d) => Unreserved!EnqueueOccurrence(j, t, d)
  BY SameGuards, SameFrames
  DEF EnqueueOccurrence, Unreserved!EnqueueOccurrence
<1>4. EnqueueOncePerTrigger(j, t, d) => Unreserved!EnqueueOncePerTrigger(j, t, d)
  BY SameGuards, SameFrames
  DEF EnqueueOncePerTrigger, Unreserved!EnqueueOncePerTrigger,
      EnqueueOccurrence, Unreserved!EnqueueOccurrence
<1>5. Tick => Unreserved!Tick
  BY SameGuards, SameFrames DEF Tick, Unreserved!Tick
<1> QED
  BY <1>1, <1>2, <1>3, <1>4, <1>5

\* A sweep fails the reservations of the rows it ends; no claim reads them.
LEMMA ClaimsMap ==
  ASSUME NEW w, NEW l
  PROVE  /\ \A K : ClaimNext(w, K, l) => Unreserved!ClaimNext(w, K, l)
         /\ \A o : ClaimOccurrence(w, o, l) => Unreserved!ClaimOccurrence(w, o, l)
<1>1. ASSUME NEW o
      PROVE  Claim(w, o, l) => Unreserved!Claim(w, o, l)
  BY SameGuards, SameFrames
  DEF Claim, Unreserved!Claim, SweepSideTables, Unreserved!SweepSideTables,
      RebindControl, Unreserved!RebindControl, ConsumeRetry,
      Unreserved!ConsumeRetry
<1>2. DeadLetterExpiredLeases => Unreserved!DeadLetterExpiredLeases
  BY SameGuards, SameFrames
  DEF DeadLetterExpiredLeases, Unreserved!DeadLetterExpiredLeases,
      SweepSideTables, Unreserved!SweepSideTables
<1>3. ASSUME NEW K, ClaimNext(w, K, l)
      PROVE  Unreserved!ClaimNext(w, K, l)
  BY <1>1, <1>2, <1>3, SameGuards DEF ClaimNext, Unreserved!ClaimNext
<1>4. ASSUME NEW o, ClaimOccurrence(w, o, l)
      PROVE  Unreserved!ClaimOccurrence(w, o, l)
  BY <1>1, <1>2, <1>4, SameGuards
  DEF ClaimOccurrence, Unreserved!ClaimOccurrence
<1> QED
  BY <1>3, <1>4

\* Settlements close the reservation, but do not read it.
LEMMA OwnerCallsMap ==
  ASSUME NEW w, NEW o, NEW f, NEW l, NEW d, NEW r, NEW e, NEW p, NEW g
  PROVE  /\ Renew(w, o, f, l) => Unreserved!Renew(w, o, f, l)
         /\ SettleSucceeded(w, o, f) => Unreserved!SettleSucceeded(w, o, f)
         /\ SettleRetry(w, o, f, d) => Unreserved!SettleRetry(w, o, f, d)
         /\ SettleDeadLetter(w, o, f, r, e) => Unreserved!SettleDeadLetter(w, o, f, r, e)
         /\ AckPause(w, o, f, r, p, g) => Unreserved!AckPause(w, o, f, r, p, g)
<1>1. Renew(w, o, f, l) => Unreserved!Renew(w, o, f, l)
  BY SameGuards, SameFrames DEF Renew, Unreserved!Renew
<1>2. SettleSucceeded(w, o, f) => Unreserved!SettleSucceeded(w, o, f)
  BY SameGuards, SameFrames
  DEF SettleSucceeded, Unreserved!SettleSucceeded, ReleaseAs,
      Unreserved!ReleaseAs, TerminateControl, Unreserved!TerminateControl,
      CloseSideTables, Unreserved!CloseSideTables
<1>3. SettleRetry(w, o, f, d) => Unreserved!SettleRetry(w, o, f, d)
  BY SameGuards, SameFrames
  DEF SettleRetry, Unreserved!SettleRetry, ReleaseAs, Unreserved!ReleaseAs,
      TerminateControl, Unreserved!TerminateControl
<1>4. SettleDeadLetter(w, o, f, r, e) => Unreserved!SettleDeadLetter(w, o, f, r, e)
  BY SameGuards, SameFrames
  DEF SettleDeadLetter, Unreserved!SettleDeadLetter, ReleaseAs,
      Unreserved!ReleaseAs, TerminateControl, Unreserved!TerminateControl,
      CloseSideTables, Unreserved!CloseSideTables
<1>5. AckPause(w, o, f, r, p, g) => Unreserved!AckPause(w, o, f, r, p, g)
  BY SameGuards, SameFrames
  DEF AckPause, Unreserved!AckPause, ReleaseAs, Unreserved!ReleaseAs
<1> QED
  BY <1>1, <1>2, <1>3, <1>4, <1>5

\* An adjudication reopens the reservation, whatever it was.
LEMMA OperatorCallsMap ==
  ASSUME NEW o, NEW q, NEW f, NEW g, NEW r, NEW d, NEW a
  PROVE  /\ RequestPause(o, q, f, g) => Unreserved!RequestPause(o, q, f, g)
         /\ Resume(o, q, r, g) => Unreserved!Resume(o, q, r, g)
         /\ RequeueDeadLetter(o, q, f, g) => Unreserved!RequeueDeadLetter(o, q, f, g)
         /\ Adjudicate(o, d, a, f, g) => Unreserved!Adjudicate(o, d, a, f, g)
<1>1. RequestPause(o, q, f, g) => Unreserved!RequestPause(o, q, f, g)
  BY SameGuards, SameFrames DEF RequestPause, Unreserved!RequestPause
<1>2. Resume(o, q, r, g) => Unreserved!Resume(o, q, r, g)
  BY SameGuards, SameFrames DEF Resume, Unreserved!Resume
<1>3. RequeueDeadLetter(o, q, f, g) => Unreserved!RequeueDeadLetter(o, q, f, g)
  BY SameGuards, SameFrames
  DEF RequeueDeadLetter, Unreserved!RequeueDeadLetter
<1>4. Adjudicate(o, d, a, f, g) => Unreserved!Adjudicate(o, d, a, f, g)
  BY SameGuards, SameFrames
  DEF Adjudicate, Unreserved!Adjudicate, ReopenReservation,
      Unreserved!ReopenReservation, GrantedAttempts,
      Unreserved!GrantedAttempts
<1> QED
  BY <1>1, <1>2, <1>3, <1>4

\* What is to be done with a claim is the same with and without reservations.
LEMMA PlanMaps == \A w : Unreserved!Plan(w) = Plan(w)
  BY DEF Plan, Unreserved!Plan, BoundAdjudication, Unreserved!BoundAdjudication,
         AuthorizedRetry, Unreserved!AuthorizedRetry, GrantedAttempts,
         Unreserved!GrantedAttempts

\* An executor keeps nothing of a reservation.
LEMMA WorkerFrames ==
  /\ UNCHANGED Unreserved!workerVars <=> UNCHANGED workerVars
  /\ \A w : Leave(w) <=> Unreserved!Leave(w)
  /\ \A w, x : Goto(w, x) <=> Unreserved!Goto(w, x)
  /\ \A w : TakeClaim(w) <=> Unreserved!TakeClaim(w)
  /\ \A w : Unreserved!HoldsClaim(w) <=> HoldsClaim(w)
  /\ UNCHANGED vars => UNCHANGED Unreserved!vars
  BY SameGuards, SameFrames
  DEF workerVars, Unreserved!workerVars, Leave, Unreserved!Leave, Goto,
      Unreserved!Goto, TakeClaim, Unreserved!TakeClaim, HoldsClaim, Unreserved!HoldsClaim, vars,
      Unreserved!vars

\* A failed run is settled the same way, whatever was reserved for it.
LEMMA SettleFailedMaps ==
  ASSUME NEW w, NEW r, SettleFailed(w, r)
  PROVE  Unreserved!SettleFailed(w, r)
  BY OwnerCallsMap DEF SettleFailed, Unreserved!SettleFailed

\* The steps of an executor with a claim, one by one.
LEMMA ProceedMaps ==
  ASSUME NEW w, Proceed(w)
  PROVE  Unreserved!Proceed(w)
<1>1. CurrentRevision(w) => Unreserved!CurrentRevision(w)
  BY SameGuards, WorkerFrames DEF CurrentRevision, Unreserved!CurrentRevision
<1>2. StaleRevision(w) => Unreserved!StaleRevision(w)
  BY SameGuards, WorkerFrames, SettleFailedMaps
  DEF StaleRevision, Unreserved!StaleRevision
<1>3. NotAuthorized(w) => Unreserved!NotAuthorized(w)
  BY WorkerFrames, SettleFailedMaps DEF NotAuthorized, Unreserved!NotAuthorized
<1>4. ASSUME NEW l, Revalidate(w, l)
      PROVE  Unreserved!Revalidate(w, l)
  BY <1>4, WorkerFrames, OwnerCallsMap DEF Revalidate, Unreserved!Revalidate
<1>5. ASSUME NEW p, NEW g, PauseAt(w, p, g)
      PROVE  Unreserved!PauseAt(w, p, g)
  BY <1>5, WorkerFrames, OwnerCallsMap DEF PauseAt, Unreserved!PauseAt
<1>6. StartRunner(w) => Unreserved!StartRunner(w)
  BY WorkerFrames DEF StartRunner, Unreserved!StartRunner
<1>7. FinishRunner(w) => Unreserved!FinishRunner(w)
  BY WorkerFrames, OwnerCallsMap, SettleFailedMaps
  DEF FinishRunner, Unreserved!FinishRunner
<1>8. ApplyAdjudication(w) => Unreserved!ApplyAdjudication(w)
  BY WorkerFrames, OwnerCallsMap
  DEF ApplyAdjudication, Unreserved!ApplyAdjudication
<1>9. SettleUnexecuted(w) => Unreserved!SettleUnexecuted(w)
  BY WorkerFrames, OwnerCallsMap
  DEF SettleUnexecuted, Unreserved!SettleUnexecuted
<1>10. LoseLease(w) => Unreserved!LoseLease(w)
  BY SameGuards, WorkerFrames DEF LoseLease, Unreserved!LoseLease
<1>11. Aborted(w) => Unreserved!Aborted(w)
  BY WorkerFrames, SettleFailedMaps DEF Aborted, Unreserved!Aborted
<1>12. ReadPause(w) => Unreserved!ReadPause(w)
  BY WorkerFrames DEF ReadPause, Unreserved!ReadPause
<1>13. ReadResume(w) => Unreserved!ReadResume(w)
  BY WorkerFrames DEF ReadResume, Unreserved!ReadResume
<1>14. ReadAdjudication(w) => Unreserved!ReadAdjudication(w)
  BY PlanMaps, WorkerFrames DEF ReadAdjudication, Unreserved!ReadAdjudication
<1>15. Checkpoint(w) => Unreserved!Checkpoint(w)
  BY WorkerFrames DEF Checkpoint, Unreserved!Checkpoint
<1> QED
  BY <1>1, <1>2, <1>3, <1>4, <1>5, <1>6, <1>7, <1>8, <1>9, <1>10, <1>11,
     <1>12, <1>13, <1>14, <1>15, SameGuards
  DEF Proceed, Unreserved!Proceed

\* The steps of an executor without a claim.
LEMMA PollMaps ==
  ASSUME NEW w, Poll(w)
  PROVE  Unreserved!Poll(w)
  BY ClaimsMap, WorkerFrames, SameGuards
  DEF Poll, Unreserved!Poll, RunNext, Unreserved!RunNext, RunOccurrence,
      Unreserved!RunOccurrence

\* Each step of the runtime is that step of the runtime without reservations.
LEMMA RuntimeMaps == RuntimeNext => Unreserved!RuntimeNext
<1>1. ASSUME AdminStep
      PROVE  Unreserved!AdminStep
  BY <1>1, JobCallsMap DEF AdminStep, Unreserved!AdminStep
<1>2. ASSUME OperatorStep
      PROVE  Unreserved!OperatorStep
  <2>1. PICK o \in Occurrences, g \in Lags :
          \/ \E q \in PauseRequests : RequestPause(o, q, fence[o], g)
          \/ \E q \in ResumeRequests : Resume(o, q, controlRevision[o], g)
          \/ \E q \in RetryRequests : RequeueDeadLetter(o, q, fence[o], g)
          \/ \E d \in Decisions : Adjudicate(o, d, attempt[o], fence[o], g)
    BY <1>2 DEF OperatorStep
  <2>2. \/ \E q \in PauseRequests : Unreserved!RequestPause(o, q, fence[o], g)
        \/ \E q \in ResumeRequests :
             Unreserved!Resume(o, q, controlRevision[o], g)
        \/ \E q \in RetryRequests :
             Unreserved!RequeueDeadLetter(o, q, fence[o], g)
        \/ \E d \in Decisions :
             Unreserved!Adjudicate(o, d, attempt[o], fence[o], g)
    BY <2>1, OperatorCallsMap
  <2> QED
    BY <2>2, SameGuards DEF Unreserved!OperatorStep
<1>3. Drained => Unreserved!Drained
  BY SameGuards DEF Drained, Unreserved!Drained
<1>4. ASSUME NEW w, NEW l, RenewTimer(w, l)
      PROVE  Unreserved!RenewTimer(w, l)
  BY <1>4, OwnerCallsMap, WorkerFrames
  DEF RenewTimer, Unreserved!RenewTimer
<1>5. ASSUME NEW w, Crash(w)
      PROVE  Unreserved!Crash(w)
  BY <1>5, WorkerFrames DEF Crash, Unreserved!Crash
<1>6. Tick => Unreserved!Tick
  BY JobCallsMap
<1> QED
  BY <1>1, <1>2, <1>3, <1>4, <1>5, <1>6, PollMaps, ProceedMaps, WorkerFrames
  DEF RuntimeNext, Unreserved!RuntimeNext

\* The authority is a narrowing of what executors do: who is granted a run, and
\* who is not, does with occurrences only what the runtime without it could do.
THEOREM AuthorityImplementsRuntime == AuthoritySpec => ImplementsRuntime
<1>1. AuthorityInit => Unreserved!RuntimeInit
  BY SameGuards
  DEF AuthorityInit, RuntimeInit, Init, Unreserved!RuntimeInit,
      Unreserved!Init
<1>2. AuthorityNext => [Unreserved!RuntimeNext]_Unreserved!runtimeVars
  <2>1. RuntimeStep => Unreserved!RuntimeNext
    BY RuntimeMaps DEF RuntimeStep
  <2>2. ASSUME UNCHANGED runtimeVars
        PROVE  UNCHANGED Unreserved!runtimeVars
    BY <2>2, WorkerFrames DEF runtimeVars, Unreserved!runtimeVars
  <2>3. ASSUME NEW w \in Owners, ReserveAuthority(w)
        PROVE  UNCHANGED Unreserved!runtimeVars
    BY <2>3, SameFrames, WorkerFrames, SameGuards
    DEF ReserveAuthority, Unreserved!runtimeVars, Unreserved!vars
  <2> QED
    BY <2>1, <2>2, <2>3
    DEF AuthorityNext, EnsureAuthorityPolicy, SetAuthorityPolicy, NextWindow,
        ReadPolicy
<1>3. UNCHANGED <<runtimeVars, authorityVars>> => UNCHANGED Unreserved!runtimeVars
  BY WorkerFrames DEF runtimeVars, Unreserved!runtimeVars
<1> QED
  BY <1>1, <1>2, <1>3, PTL
  DEF AuthoritySpec, ImplementsRuntime, Unreserved!RuntimeSpec

=============================================================================
