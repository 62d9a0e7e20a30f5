------------------------- MODULE SchedulerAuthority -------------------------
(***************************************************************************)
(* Who may run, and how often: the authority policy of a principal, the    *)
(* run budget it grants per window, and the reservations that occurrences  *)
(* take from it (authority-resolver.js and the authority tables of         *)
(* store.js), composed with the executors of SchedulerRuntime.             *)
(*                                                                         *)
(* The tables are keyed by principal; one principal is modelled, shared by *)
(* all jobs, so that its occurrences compete.  A reservation costs one     *)
(* unit, the default estimate, so maxUnits repeats maxRuns and is left     *)
(* out, as are capability lists (a denial by NotAuthorized).               *)
(*                                                                         *)
(* The resolver is asynchronous.  It reads the policy after the domain     *)
(* validator answered and reserves after the unit estimate did; the policy *)
(* may be replaced, and the lease lost, in each gap.                       *)
(***************************************************************************)
EXTENDS SchedulerRuntime

CONSTANTS
  DefaultRuns,        \* maxRuns of the policy that binding a job creates
  RunBudgets,         \* the maxRuns values operators set
  MaxPolicyRevision,  \* bound: setAuthorityPolicy stops here
  MaxWindow           \* bound: budget windows that begin

ASSUME AuthorityAssumption ==
  /\ DefaultRuns \in Nat \ {0}
  /\ RunBudgets \subseteq Nat \ {0}
  /\ MaxPolicyRevision \in Nat \ {0}
  /\ MaxWindow \in Nat

VARIABLES
  policyRevision, policyEnabled, policyRuns,  \* revision 0 is no policy
  usage,             \* runs charged, by policy revision and window
  reservedRevision, reservedWindow,           \* columns next to reservation
  boundTo,           \* policy revision in the job's authorizationRefs
  snapshot,          \* the same of an occurrence, copied at its enqueueing
  window,            \* index of the current budget window
  verdict,           \* where the resolver of a worker stands
  claimedUnder       \* policy revision at a worker's claim; kept by no code

policyVars == <<policyRevision, policyEnabled, policyRuns>>
chargeVars == <<usage, reservedRevision, reservedWindow>>
authorityVars == <<policyVars, chargeVars, boundTo, snapshot, window, verdict,
                   claimedUnder>>

PolicyRevisions == 1..MaxPolicyRevision

Windows == 0..MaxWindow

AuthorityInit ==
  /\ RuntimeInit
  /\ policyRevision = 0
  /\ policyEnabled = FALSE
  /\ policyRuns = 0
  /\ usage = [r \in PolicyRevisions |-> [n \in Windows |-> 0]]
  /\ reservedRevision = [o \in Occurrences |-> 0]
  /\ reservedWindow = [o \in Occurrences |-> 0]
  /\ boundTo = [j \in Jobs |-> 0]
  /\ snapshot = [o \in Occurrences |-> 0]
  /\ window = 0
  /\ verdict = [w \in Owners |-> "none"]
  /\ claimedUnder = [w \in Owners |-> 0]

-----------------------------------------------------------------------------

SetAuthorityPolicy(e, b) ==
  /\ policyRevision < MaxPolicyRevision
  /\ policyRevision' = policyRevision + 1
  /\ policyEnabled' = e
  /\ policyRuns' = b
  /\ UNCHANGED <<runtimeVars, chargeVars, boundTo, snapshot, window, verdict,
                 claimedUnder>>

\* ensureAuthorityPolicy, when a job is bound and no policy exists.
EnsureAuthorityPolicy ==
  /\ policyRevision = 0
  /\ SetAuthorityPolicy(TRUE, DefaultRuns)

NextWindow ==
  /\ window < MaxWindow
  /\ window' = window + 1
  /\ UNCHANGED <<runtimeVars, policyVars, chargeVars, boundTo, snapshot,
                 verdict, claimedUnder>>

\* Faulty variant: the reference in the occurrence is not compared.
ReadPolicyUnbound(w) ==
  /\ pc[w] = "authorizing" /\ verdict[w] = "asked"
  /\ verdict' = [verdict EXCEPT ![w] =
                   IF policyEnabled THEN "estimating" ELSE "denied"]
  /\ UNCHANGED <<runtimeVars, policyVars, chargeVars, boundTo, snapshot,
                 window, claimedUnder>>

\* The resolver after validate(): policy present, enabled, and the revision
\* the occurrence is bound to.
ReadPolicy(w) ==
  /\ pc[w] = "authorizing" /\ verdict[w] = "asked"
  /\ verdict' = [verdict EXCEPT ![w] =
                   IF /\ policyEnabled
                      /\ snapshot[claimed[w]] = policyRevision
                   THEN "estimating" ELSE "denied"]
  /\ UNCHANGED <<runtimeVars, policyVars, chargeVars, boundTo, snapshot,
                 window, claimedUnder>>

Answer(w, v) == verdict' = [verdict EXCEPT ![w] = v]

\* Faulty variant: the run that reaches the budget is let through once more.
WithinBudgetInclusive(r, n) == usage[r][n] <= policyRuns

WithinBudget(r, n) == usage[r][n] < policyRuns

\* The row sum that reserveAuthority compares with the usage row.
Charged(r, n) ==
  Cardinality({o \in Occurrences : /\ reservation[o] # "none"
                                   /\ reservedRevision[o] = r
                                   /\ reservedWindow[o] = n})

Grant(w, o, r, n) ==
  /\ usage' = [usage EXCEPT ![r][n] = @ + 1]
  /\ reservation' = [reservation EXCEPT ![o] = "reserved"]
  /\ reservedRevision' = [reservedRevision EXCEPT ![o] = r]
  /\ reservedWindow' = [reservedWindow EXCEPT ![o] = n]
  /\ Answer(w, "granted")

\* Faulty variant: the charge is counted but the row is not deduplicated.
ChargeAgain(w, o, r) ==
  /\ reservation[o] # "none"
  /\ usage' = [usage EXCEPT ![r][reservedWindow[o]] = @ + 1]
  /\ Answer(w, "granted")
  /\ UNCHANGED <<reservation, reservedRevision, reservedWindow>>

\* The reservation of an earlier claim of the occurrence stands.
Deduplicate(w, o, r) ==
  /\ reservation[o] # "none"
  /\ Answer(w, IF reservedRevision[o] = r THEN "granted" ELSE "denied")
  /\ UNCHANGED <<reservation, chargeVars>>

\* reserveAuthority for the revision r the resolver read, in window n.
Reserve(w, o, r, n) ==
  \/ /\ status[o] = "running"
     /\ Deduplicate(w, o, r)
  \/ /\ status[o] = "running" /\ reservation[o] = "none"
     /\ policyEnabled /\ policyRevision = r
     /\ Charged(r, n) = usage[r][n]
     /\ WithinBudget(r, n)
     /\ Grant(w, o, r, n)
  \/ /\ \/ status[o] # "running"
        \/ /\ reservation[o] = "none"
           /\ \/ ~ policyEnabled \/ policyRevision # r
              \/ Charged(r, n) # usage[r][n]
              \/ ~ WithinBudget(r, n)
     /\ Answer(w, "denied")
     /\ UNCHANGED <<reservation, chargeVars>>

\* The clock may have been read just before the window turned.
ReserveAuthority(w) ==
  LET o == claimed[w] IN
  /\ pc[w] = "authorizing" /\ verdict[w] = "estimating"
  /\ \E n \in {window} \cup ({window - 1} \cap Windows) :
       Reserve(w, o, snapshot[o], n)
  /\ UNCHANGED <<jobVars, occurrenceVars, controlVars, retryVars,
                 adjudicationVars, workerVars, effects, policyVars, boundTo,
                 snapshot, window, claimedUnder>>

-----------------------------------------------------------------------------
(* Executors and administrators, with the authority in place.              *)

\* A job is written with the policy revision its adapter read before.
BindJobs ==
  \/ revision' = revision /\ UNCHANGED boundTo
  \/ \E j \in Jobs, r \in 1..policyRevision :
       /\ revision'[j] # revision[j]
       /\ boundTo' = [boundTo EXCEPT ![j] = r]

\* Faulty variant: the occurrence refers to its job instead of copying it.
ReferToJobs == snapshot' = [o \in Occurrences |-> boundTo[JobOf(o)]]

BindOccurrences ==
  snapshot' = [o \in Occurrences |->
                 IF status[o] = "absent" /\ status'[o] = "queued"
                 THEN boundTo[JobOf(o)] ELSE snapshot[o]]

FollowClaims ==
  /\ verdict' = [w \in Owners |->
                   IF pc'[w] # "authorizing" THEN "none"
                   ELSE IF pc[w] = "claimed" THEN "asked" ELSE verdict[w]]
  /\ claimedUnder' = [w \in Owners |->
                        IF pc'[w] = "claimed" /\ pc[w] = "idle"
                        THEN policyRevision
                        ELSE IF pc'[w] = "idle" THEN 0 ELSE claimedUnder[w]]

\* What an executor does after authorize() depends on its answer: without a
\* grant it does not go on, and a denial is final.
Obeys(w) ==
  pc[w] = "authorizing" =>
    /\ pc'[w] \notin {"idle", "authorizing"} => verdict[w] = "granted"
    /\ status'[claimed[w]] = "retry_wait" /\ pc'[w] = "idle" =>
         verdict[w] # "denied"

RuntimeStep ==
  /\ RuntimeNext
  /\ BindJobs
  /\ BindOccurrences
  /\ FollowClaims
  /\ \A w \in Owners : Obeys(w)
  /\ UNCHANGED <<policyVars, chargeVars, window>>

AuthorityNext ==
  \/ RuntimeStep
  \/ EnsureAuthorityPolicy
  \/ \E e \in BOOLEAN, b \in RunBudgets : SetAuthorityPolicy(e, b)
  \/ NextWindow
  \/ \E w \in Owners : ReadPolicy(w) \/ ReserveAuthority(w)

AuthoritySpec ==
  AuthorityInit /\ [][AuthorityNext]_<<runtimeVars, authorityVars>>

-----------------------------------------------------------------------------
(* Properties.                                                             *)

\* The authority columns keep to their values; a reservation stands under the
\* revision its occurrence was enqueued with.
AuthorityTypeOK ==
  /\ policyRevision \in 0..MaxPolicyRevision
  /\ policyEnabled \in BOOLEAN
  /\ policyRuns \in Nat
  /\ usage \in [PolicyRevisions -> [Windows -> Nat]]
  /\ \A o \in Occurrences :
       /\ reservedWindow[o] \in Windows
       /\ IF reservation[o] = "none" THEN reservedRevision[o] = 0
          ELSE reservedRevision[o] = snapshot[o]
  /\ boundTo \in [Jobs -> 0..MaxPolicyRevision]
  /\ snapshot \in [Occurrences -> 0..MaxPolicyRevision]
  /\ window \in Windows
  /\ verdict \in [Owners ->
                    {"none", "asked", "estimating", "granted", "denied"}]
  /\ claimedUnder \in [Owners -> 0..MaxPolicyRevision]

\* Usage rows and reservation rows agree after every call, retry, requeue and
\* adjudication, so BUDGET_STATE_INVALID, which would deny the principal for
\* the rest of the window, is never raised.
UsageMatchesReservations ==
  \A r \in PolicyRevisions, n \in Windows : Charged(r, n) = usage[r][n]

\* However executors race for the last run of a window, runners start for no
\* more occurrences than the policy in force grants.
StartsWithinBudget ==
  \A n \in Windows :
    Cardinality({o \in Occurrences : /\ effects[o] > 0
                                     /\ reservedRevision[o] = policyRevision
                                     /\ reservedWindow[o] = n}) <= policyRuns

\* An occurrence claimed after its policy was replaced (or disabled) neither
\* reaches its adapter nor has a pause acknowledged, although its reservation
\* may date from before.
ReplacedPolicyNeverRuns ==
  \A w \in Owners :
    pc[w] \notin {"idle", "claimed", "authorizing"} =>
      claimedUnder[w] = snapshot[claimed[w]]

\* A reservation ends with its occurrence: it is open only while the
\* occurrence may still be claimed, or if a sweep ended it; it counts as
\* succeeded only for a success, and as failed only for a dead letter: a
\* decision opens it again, a requeue alone does not.
ReservationFollowsOutcome ==
  \A o \in Occurrences :
    /\ reservation[o] = "reserved" =>
         \/ status[o] \in {"running", "retry_wait"}
         \/ status[o] = "dead_letter" /\ lastError[o] = "lease_expired"
    /\ reservation[o] = "succeeded" => status[o] = "succeeded"
    /\ reservation[o] = "failed" =>
         \/ status[o] = "dead_letter"
         \/ \E q \in RetryRequests : retryOf[q] = o

\* What executors do with reservations in place they could do without: policies,
\* budgets and reservations decide which occurrences are settled as denied, and
\* change nothing in when an occurrence is due, what a claim costs, who holds it
\* and what an executor does with it.
Unreserved ==
  INSTANCE SchedulerRuntime
    WITH reservation <- [o \in Occurrences |-> "none"]

ImplementsRuntime == Unreserved!RuntimeSpec
=============================================================================
