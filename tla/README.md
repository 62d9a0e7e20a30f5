# A verification of ChainlessChain: scheduler kernel, locks, leases, signaling

This directory holds TLA+ specifications of four parts of ChainlessChain, the
TLC configurations that model-check them and proofs that TLAPS checks:

* the scheduler kernel of the command line
  (`src/packages/cli/src/lib/scheduler-kernel/`),
* the lock in front of its state files (`with-file-lock.js`),
* the host lease of a session (`session-host-lease.js`),
* the signaling server (`src/signaling-server/`).

All is written from the code; where a comment says something else, that is
recorded (see "Findings").

## 1. The system

ChainlessChain is a monorepo: a desktop application, mobile clients, backend
services, a signaling server, editor plugins, and a command line whose agents
run routines, loops, agendas and cron jobs. Most of it is user interface,
calls to language models and I/O. The parts whose correctness is hardest to
test are those where several processes share state: the scheduler kernel of the
CLI, where they share one SQLite file and take work from it under leases and
fencing tokens, with crashes, timeouts and operators in between; the file lock
and the host lease, by which they share files; and the signaling server, one
process in front of sockets that come, go, stall and vanish. The project is
about those.

| Component | State | Operations | Modelled by |
| --- | --- | --- | --- |
| Store (`store.js`, `contract.js`) | tables jobs, occurrences, controls, retries, adjudications | create and update job, enqueue, claim, renew, settle, pause, acknowledge, resume, requeue, adjudicate | `SchedulerStore` |
| Runtime (`runtime.js`) | the local variables of one `_executeClaim` per process | claim, authorize, revalidate, execute, renew by timer, settle | `SchedulerRuntime` |
| Saved-loop adapter (`loop-adapter.js`) | none of its own; the runner's effects outside | execute, adjudicate, resume | `SchedulerRuntime` |
| Authority (`authority-resolver.js`, store.js 5603-5908) | policies, usage, reservations | set policy, ensure policy, resolve, reserve | `SchedulerAuthority` |
| Domain migration (store.js 2551-3773, `migration-*.js`, the loop's part of `loop-adapter.js`) | migrations and their entries, the source file | prepare, apply, verify, retire, confirm, roll back, restore | `SchedulerMigration` |
| Service (`service.js`) | tick promise, closed flag | runOnce, run, close | `SchedulerService` |
| State file lock (`with-file-lock.js`) | a directory, an owner record, marker files | acquire, take over, hand off, release | `FileLock` |
| Session host lease (`session-host-lease.js`, `durable-security-store.js`) | one file per session, a record per host | acquire, renew, release, revoke, write, delegate | `SessionHostLease` |
| Signaling server (`index.js`, `offline-message-store.js`, `boundaries.js`) | sockets, registrations, offline queues and their counters | connect, register, relay, store, deliver, heartbeat, clean up, stop | `SignalingServer` |
| Domain adapters (routine, agenda, automation, cowork cron) | evidence files of each domain | enqueue, execute, recover | plan |
| Everything else in the repository | | | not modelled |

Interactions. The processes of the scheduler never talk to each other; they
share the database. Each public method of the store runs its writes in one
`BEGIN IMMEDIATE` transaction (`_write`, store.js 2332-2405). A runtime calls
claim, then awaits its authorizer, then renews, then calls the adapter while a
timer renews the lease, then settles. Operators call pause, resume, requeue and
adjudicate from other processes at any time. A migration writes the store and a
session file in turns, without a common transaction. The service calls the
drivers of the domains, each of which enqueues and runs claims. Hosts of a
session share its lease file, which they replace under the file lock, and tell
each other nothing: a revocation is noticed at the next heartbeat or write. The
signaling server is one event loop; only its sockets and timers interleave.

What is hard here, and what makes each component correct:

* Store: an owner that lost its lease must not move the occurrence any more;
  attempts stay within the budget although several kinds of claim are free;
  pauses, resumes, requeues and adjudications are bound to a fence and must
  stay consistent with an occurrence that goes on moving; an occurrence that
  succeeded is final; a trigger fires once.
* Runtime and loop adapter: the runner has effects nobody can take back. It may
  be started again only when somebody who knows the outcome said so.
* Authority: what is charged is what was reserved, once per occurrence, within
  the budget of the policy revision and window.
* Migration: at every crash point a definition runs from exactly one place.
* Service: a tick does not overlap itself; close does not pull the store away
  from a running driver.
* File lock: every file operation is addressed by a path, and the directory at
  that path may have been replaced since it was looked at. The lock excludes,
  and a lock whose owner died is freed, wherever contenders die too.
* Host lease: one host per epoch, whatever a process believes after a store
  operation that threw; revocations are applied once and obeyed; nothing is
  written under a lease that was succeeded.
* Signaling server: registrations and sockets agree although close events come
  late; stored messages are counted right, delivered in order and once; a
  message is lost only together with the connection it was for.

`PROJECT.json` lists the components and the hazards with their source lines.

## 2. The modules

`FencedLease` is the abstract promise about one piece of work: open, held,
closed or done, one holder at a time, a new token for every claim, no way out
of done.

`SchedulerStore` is the store. Each variable is a column, a function of the
occurrence (job, job revision, trigger), of the job or of the request id. Each
action is one method, with the whole transaction in it: a claim first sweeps
the expired occurrences whose attempts are used up, then picks a candidate,
consumes an attempt or not, binds the control to the new fence and consumes the
requeue. Methods the code rejects change nothing and are stuttering steps.

| Action | Method |
| --- | --- |
| `CreateJob`, `UpdateJob` | `createJob`, `updateJob` |
| `EnqueueOccurrence`, `EnqueueOncePerTrigger` | `enqueueOccurrence`, `enqueueOccurrenceOncePerTrigger` |
| `DeadLetterExpiredLeases`, `ClaimNext`, `ClaimOccurrence` | `_deadLetterExpiredLeases`, `claimNext`, `claimOccurrence` |
| `Renew`, `SettleSucceeded`, `SettleRetry`, `SettleDeadLetter` | `renew`, `settle` with its three outcomes |
| `RequestPause`, `AckPause`, `Resume` | `requestOccurrencePause`, `ackOccurrencePause`, `resumeOccurrence` |
| `RequeueDeadLetter`, `Adjudicate` | `requeueDeadLetter`, `adjudicateOccurrence` |
| `Tick` | the clock |

`SchedulerRuntime` extends it with the processes that execute claims and the
saved-loop adapter. `pc[w]` says where `_executeClaim` of process `w` stands;
each of its calls to the store is a step of its own. Between any two of them
other processes and the clock move, and the process may crash. `effects[o]`
counts starts of the runner; no code holds it.

| Action | From | Code (runtime.js) |
| --- | --- | --- |
| `RunNext`, `RunOccurrence` | `idle` | `runNext`, `runOccurrence`: the claim |
| `CurrentRevision`, `StaleRevision` | `claimed` | the job is read and its revision compared |
| `NotAuthorized`, `Revalidate` | `authorizing` | the authorizer's answer; the renewal after it |
| `Aborted`, `ReadPause` | `renewed` | the caller's abort; `readPendingPause` |
| `ReadResume` | `unpaused` | `readResumingControl` |
| `ReadAdjudication` | `prepared` | the adapter's context; `Plan` is what the runtime and the adapter make of it: `execute`, `apply` (confirmed_applied), `refuse` (no replay) or `reject` (an adjudication of another claim) |
| `Checkpoint`, `StartRunner` | `execute` | the adapter's `checkpoint()`, which finds a pause or none, and its runner |
| `PauseAt` | `pausing`, `stopping` | `acknowledgePause` at the one and the other safe point |
| `RenewTimer`, `FinishRunner` | `running` | the renewal timer; the settlement |
| `ApplyAdjudication`, `SettleUnexecuted` | `apply`, `refuse`, `reject` | settlements without the runner |
| `LoseLease`, `Crash` | | a store call throws for a lost lease; the process dies |

A control is read three times, and each read may find one that was bound to a
successor's fence meanwhile (`reject`).

`SchedulerAuthority` extends the runtime with the authority tables and the
resolver that the runtime awaits in `authorizing`. `verdict[w]` says where the
resolver stands: `asked`, `estimating` (it has read the policy and awaits the
unit estimate), `granted`, `denied`. A step of the runtime is joined with what
the authority adds to it (`RuntimeStep`): an update binds the job to the policy
revision its adapter read, an enqueueing copies that reference, and an executor
goes on only with a grant (`Obeys`). `ReserveAuthority` is one transaction:
deduplicate, compare usage with the reservations, check the budget, charge.

`SchedulerMigration` stands alone: a saved loop moves from its session file
into the store and back. `pc[p]` is the next call of a process, `saw[p]` the
state of the migration its last store call answered with, on which
`migrateSavedLoopSession` decides. `lock` is the transaction that
`restoreDomainMigrationEntrySource` keeps open while it writes the file; a
crash rolls it back and leaves the file as it is.

| Action | Code |
| --- | --- |
| `Find`, `Prepare`, `Apply`, `Verify`, `BeginRetirement` | `getActiveDomainMigrationBySource` and the calls of the same names |
| `AppendFence`, `AppendMarker` | `appendLoopConfig`, `appendLoopMigrationMarker` |
| `ConfirmRetired` with `Activate` | `confirmDomainMigrationEntryRetired` |
| `StartRollback` | `rollbackSchedulerMigration` up to the confirmed challenge: `Eligible`, `SourceEvidence` |
| `BeginRollback`, `RollbackTargets` | the two store calls that disable the target |
| `OpenRestore`, `RestoreConfig`, `RestoreMarker`, `CommitRestore` | `restoreDomainMigrationEntrySource` and its callback |
| `ChangeTarget`, `Execute` | `updateJob` and occurrences of the target by other clients |
| `Refused`, `Crash` | a call that throws; the process dies |

`SchedulerService` is the host of the drivers: who began the tick under way,
who waits for it, where it is, and how far `close()` has come.

`FileLock` is the strict mode of `withFileLock`. One action is one file
operation, or a read and the liveness probe next to it; `pc[c]` says which
operation call `c` does next. The directory at the lock path is its `owner` and
the `markers` inside it; an operation on a path reaches whichever directory is
there. A process may die at the places named by `KillPoints`.

| Action | Code (with-file-lock.js) |
| --- | --- |
| `Acquire`, `Contend`, `Look`, `Retry`, `GiveUp` | the acquisition loop |
| `CheckMarker` | a published release is looked for, in `completePublishedRelease` |
| `FindClaim`, `WriteClaim`, `Recheck`, `Detach`, `DetachFails` | the claim protocol of `completePublishedRelease` and `reclaimOwnedDirectory`, which differ in the claim's name |
| `Reread`, `Unlink` | `removeOwnMarker` |
| `Publish`, `EndBody` | `publishReleaseAfterPathRemoved`, the body |
| `ReleaseCheck`, `ReleaseRename`, `ReleaseRenameFails`, `ReleaseMarker`, `ReleaseRecheck` | the release, and its fallback to a marker |
| `Die`, `DieWritingClaim` | the process ends, also between creating a claim file and writing it |

`SessionHostLease` is one session. `file` is the lease file, `synced` what a
power failure would leave of it, `local[p]` the record a host keeps, `fenced`
the processes that know they lost the session. A mutation runs under the file
lock and is one action, whose outcome is part of it (`Mutate`): done, refused
before anything changed, thrown after the file was replaced and synced, thrown
after it was replaced and before the directory was synced.

| Action | Code |
| --- | --- |
| `Acquire`, `Renew`, `Release` | the methods of these names; `Renew` is the heartbeat |
| `Revoke` (`Replay`, `Record`, `Refuse`), `Readback` | `revoke` and what it does after a throw |
| `FindNoFile` and `WriteUnlocked`, `Write`, `DelegatedWrite` | the fenced write: beside the lock when there is no lease file, under the lock, with a delegation |
| `Expire`, `Start`, `Die`, `PowerFailure` | the world |

`SignalingServer` has one action per handler of the event loop. `limits` is the
configuration the server was started with, any that `resolveLimits` accepts
(`LegalLimits`). A message is `plain`, `long` (twice the bytes), `bulky` (fits a
frame when it is relayed, but not inside an offline-message) or `oversized`
(fits neither way). A socket is
`open`, `closing` (a close was started, frames may still arrive) or `closed`;
`clients`, `connections` and `peerOf` are the fields of the same names, `queues`
and the two totals are the offline store. `SendTo` is what any send does to
sockets that do not drain: it closes them.

| Action | Code |
| --- | --- |
| `HandleConnection`, `HandleDisconnection`, `HandleRegister` | the handlers of these names, with the delivery of stored messages and the status broadcast |
| `HandleMessage` (`Forward`, `Enqueue`) | `forwardOrQueue`, the admission of the offline store |
| `Heartbeat`, `Pong`, `Cleanup`, `Stop`, `Start` | the timers, shutdown and restart |
| `StartClosing`, `Congest`, `Drain`, `FallSilent` | what the other end of a socket does |

Eight modules hold theorems: `SchedulerStoreProofs`, `SchedulerRuntimeProofs`,
`SchedulerAuthorityProofs`, `SchedulerMigrationProofs`, `SchedulerServiceProofs`,
`FileLockProofs`, `SessionHostProofs` and `SignalingProofs`. The `MC` modules
add symmetry and sets of places for TLC. Operators marked "Faulty variant" or
"Mutant" are used by no specification: each is a plausible mistake in the
definition after it, and putting it in that definition's place makes TLC report
the property named in `PROJECT.json`.

### Abstractions

* Time is relative. `lease` and `wait` are distances to the clock; they stop at
  `-MaxLag`, below which the code cannot tell values apart. Methods that read
  the clock before they wait for the write lock (pause, acknowledge, resume,
  requeue, adjudicate) act on a value up to `MaxLag` old.
* Occurrence ids are SHA-256 digests; they are taken to be injective, so an
  occurrence is its job, revision and trigger.
* Payloads, results, evidence digests and error texts are dropped; of an error
  only what the code branches on remains (outcome unknown or not).
* The sweep's `LIMIT 100` is dropped: the instances have fewer rows.
* Ties in the order of claims are left open; the code breaks them by
  `scheduled_for` and id.
* Of the reservations the store keeps only the status column, because settle
  and the sweep write it; `SchedulerAuthority` adds the others and creates
  them.
* The event log is append-only; the kernel reads it only to see whether a
  migration's target executed anything, which `executions` stands for.
* The runtime's graph authority is in its legacy mode.
* Authority: one principal shared by all jobs, so that they compete. A
  reservation costs one unit, the resolver's default estimate; `maxUnits` then
  repeats `maxRuns`. The agenda and automation adapters pass estimators of
  their own, which this does not cover. The window index is advanced by
  `NextWindow` at any time, and a reservation may still fall into the window
  before, because the clock is read before the write lock. `claimedUnder` is
  kept by no code and used by a property only.
* Migration: one source, one target, one entry per migration and the strategy
  `disable`; every adapter makes these, and the rollback command accepts one
  entry only. Plan digests, the binding of source locators and edits of the
  loop's configuration during a migration (which the code refuses) are left
  out. An append to the session file is a compare-and-append on the head that
  was read, so reading and appending are one step.
* Service: drivers are opaque, they return or throw. `run()` is repeated
  `runOnce()`; the sleep between ticks is any time between two calls.
* File lock: the filesystem has an atomic rename, and an owner record is read
  whole or not at all. Deadlines are a choice (`GiveUp`). The best-effort mode,
  directories without an owner record and process ids that are used again are
  left out.
* Host lease: a fencing token stands for the lease id made with it. Requests
  carry no reason code: a request id repeated with another reason, which the
  code refuses, may be refused at any time once its record is there (`Refuse`).
  The file stays as it is, but a host that asked gives up its own lease, as after
  any throw. The read-back after a throw may itself fail (`Readback`). The epoch
  of the legacy format, which the code takes over, is 0.
* Signaling server: a message is its number and its size class. A socket that
  is closed stands for the next one that connects. Messages are numbered in the
  order of their arrival and the clock does not go back, so what a cleanup finds
  expired is the front of each queue. The health endpoint and the statistics only
  read.


## 3. The runs

| Run | Question | Bounds |
| --- | --- | --- |
| `store_controls` | all operations on one occurrence | two owners, two pauses, two resumes, two requeues, one or two attempts, two job revisions, five claims |
| `runtime_replay` | does the runner start again only when permitted, one at a time, and does every occurrence end | two processes that crash without bound, a requeue and an adjudication, one to three attempts |
| `runtime_controls` | controls, adjudications and job revisions under an executor, and what pays for its starts | two processes, a pause, a resume, a requeue, two job revisions, five claims |
| `runtime_pause` | the first finding below | one pause, one resume |
| `authority` | budget under competition; retried and adjudicated reservations, either way; replaced policies | two triggers of one job, one run per window, two policy revisions, two windows, two attempts, three claims of each |
| `migration` | the loop is run from one place; what is interrupted is carried on | two processes, two migrations, a change of the target, an execution, a crash |
| `service` | ticks and close | three callers, two drivers, no other bound |
| `lock_crashes` | does the lock exclude, and does a removal hit what it was claimed for | four calls that die in bodies and while writing a claim, a transient failure of a rename |
| `lock_liveness` | is an abandoned lock freed | three calls that die in bodies and holding claims, with handoffs |
| `lock_handoff_mutex` | the second finding below | three calls, with handoffs, nobody dies |
| `signaling` | registrations, order, accounting, loss, vanished peers | two sockets, two peers, two messages of one or two bytes, four configurations of the offline store, restarts without bound |
| `host_lease` | one host per epoch, revocations, fenced writes | two processes, two requests, a journal of one record, three tokens, a fault of the store, a power failure |

Bounds. `MaxFence` stops the claims of an occurrence; in `runtime_replay` it is
above what the attempts, the requeue and the adjudication can pay for, so it is
never met. `store_controls` meets it: a claim for a pending pause or a resumed
control is free, so the code has no bound of its own. Five claims are enough for
the first claim, the takeover of a pausing one, the resumed claim and an
adjudicated or requeued one with its retry in one behaviour, or for the requeues
of two operators one after the other. In `authority` the third claim is the one
an adjudication grants after two attempts; nobody requeues there, so what
requeues do to reservations rests on the theorems. `MaxJobRevision` stops updates.
One occurrence is enough for the properties of controls, since no column of one
occurrence depends on another except through the sweep and the order of claims,
which the theorems cover for any number. Two windows and two policy revisions
are enough to hold a reservation of another one; two occurrences and a budget
of one meet the limit. In `migration`, two processes and two migrations are the
least in which one of them holds the stale answer of a store call, and in which
a source carries the marker of an earlier migration.

In the lock runs a fourth call is what it takes for a delayed contender to meet
a replacement: the dead owner, the contender that stalls, the one that removes
the directory, and the one that publishes the next. No call of `lock_crashes`
dies holding a claim others can read: there `DetachesWhatItClaimed` fails (see
"Findings"), and `lock_liveness` asks only whether the lock comes free. With handoffs, where the
owner removes its own directory, three do. In `signaling` two sockets are an old
and a new one of the same peer, or two peers. No configuration of two messages
meets all five limits of the store, since `resolveLimits` wants the totals above
the limits of one queue; the four of `TightLimits` meet the number of queues,
the bytes of a queue and in all, the length of a queue, and the number of
messages, and with any one of the five comparisons left out TLC violates
`StoreCountsRight`. `sent` bounds the messages only, since sockets are used
again. In `host_lease` three tokens are a
host, its successor and the successor's successor, and a journal of one record
is full after the first of two requests.

Fairness.

* `FairRuntimeSpec`: the clock ticks; every process keeps polling (`runNext` is
  called by service ticks and loop drivers); a step a process has before it is
  eventually taken. The last includes that the runner returns: the code sets no
  limit on it, so this is an assumption about loops. Nothing is assumed of
  crashes, renewals and operators: a worker may crash on every claim, and
  `EveryOccurrenceSettles` still holds because attempts run out and the sweep
  ends the occurrence.
* `FairSpec` of `SchedulerMigration`: a command that was started goes on until
  it ends, is refused or dies; the loop is resumed by somebody again and again
  (`cc loop` with the saved session calls `migrateSavedLoopSession` every
  time), and an operator repeats a rollback that was interrupted. These are
  strong fairness on `StartMigrating` and `StartRollback`, for between commands
  they are not always possible, together with the assumption that again and
  again there is a moment when no command runs: the operator who repeats a
  rollback stops the workers first. Only rollbacks already begun are assumed to
  be repeated.
* `FairSpec` of `SchedulerService`: a driver returns in the end (the code sets
  no limit on it) and settled promises are awaited; nobody is assumed to call
  or to abort.
* `FairSpec` of `FileLock`: a process that is alive runs (`Step(c)`). Giving up
  and dying are never owed.
* `FairSpec` of `SignalingServer`: the heartbeat timer fires, and a socket the
  server closes or terminates gets its close event, which the websocket library
  sees to. Sockets are not assumed to drain or to answer.
* `FairSpec` of `SessionHostLease`: the heartbeat of a host fires and a
  synchronous call that is running ends. Nobody is assumed to acquire, release,
  revoke or write.

Runs with symmetry check no liveness.

Draining. `Drained` of the runtime restricts adjudications to moments when no
process works on the occurrence. The operating instructions demand it
(docs-site/docs/chainlesschain/cli-runtime-current.md:102: stop every host and
drain dispatched work first) and it is necessary: without it a worker that
stalls between its revalidation and the start of the runner starts it after the
decision confirmed_applied was taken, because the code checks no lease between
the two. Requeues need no draining by the instructions, and then two runners of
one occurrence may be in flight, which is why `OneRunnerAtATime` excepts
runners whose claims a requeue lies between. `Drained` of the migration keeps
migrating and rolling back apart: the rollback command asks the operator to
stop the workers of the source before it goes on
(migration-rollback-admin.js:255). It is necessary too: a process that stalls
before `AppendFence` would fence the file after the rollback restored it, and
TLC then violates `RolledBackMeansLive`. Several migrating processes, and
several rollbacks, do interleave.

## 4. The properties

Those that a run checks; "proved" marks the ones that are also theorems.

* `SchemaHolds` (proved): the columns the model has keep their values (`TypeOK`)
  and the CHECK `attempt <= max_attempts` is never tripped. The type invariants
  of the other modules are theorems (`WorkersTyped`, `AuthorityTyped`,
  `LockTypeCorrect`) or parts of the inductive invariants.
* `ImplementsFencedLease` (proved): the store refines `FencedLease`, occurrence
  by occurrence (phase from status, holder from owner, token from fence, expired
  from lease). The row does not show who settles; that the settlement of a stale
  worker is refused after a takeover shows in `ClaimsKeepTheirBindings`, which
  TLC violates when the store compares neither owner nor fence.
* `ControlMatchesOccurrence` (proved): controls fit fence and status of their
  row.
* `PendingAdjudicationBinds` (proved): a pending decision has a claim to come,
  and that claim passes the runtime's binding check.
* `ClaimsAccountedFor` (proved): every claim is paid for by an attempt, a
  requeue or a step of the control.
* `PausedUntilResumed` (proved): nothing but its resume moves a paused
  occurrence.
* `OneOccurrencePerTrigger` (proved): a trigger fires once across job revisions.
* `ReplayOnlyWhenPermitted` (proved where nobody pauses): the runner starts again
  only after a decision or a requeue that permits it.
* `StartsAccountedFor` (proved): pauses or not, every start but the first and the
  one an adjudication granted was in a claim that consumed no attempt.
* `ConfirmedAppliedNeverReplays` (proved): not at all after confirmed_applied.
* `OneRunnerAtATime` (proved where nobody pauses): one runner in flight, but
  across a requeue.
* `ClaimsKeepTheirBindings` (proved): an executor that holds its lease never
  meets a control or an adjudication of another claim. One that stalled does, for
  instance at `checkpoint()` when its successor's claim rebound a pending pause;
  it then tries to settle the occurrence as failed, and the store refuses that,
  so no occurrence is dead-lettered by these checks.
* `EveryOccurrenceSettles`: liveness.
* `UsageMatchesReservations`, `StartsWithinBudget` (proved): what is charged is
  what is reserved, and runners start for no more occurrences than the budget.
* `ReplacedPolicyNeverRuns` (proved): an occurrence claimed after its policy was
  replaced does not reach its adapter. The claim is the reference point: a
  policy replaced after the reservation was made does not stop that claim.
* `ReservationFollowsOutcome` (proved): no reservation stays open under an
  occurrence that ended, but for those the sweep ended, whose reservation the
  code leaves as it is; and none stays failed under an occurrence that may run
  again, unless by a requeue: a decision on an unknown outcome reserves it again.
* `RetiredMeansFenced`, `RolledBackMeansLive` (proved): the journal's two final
  states agree with the session file.
* `TargetStopsFirst` (proved): the file is handed back only when the target is
  disabled, although other clients may change it between the two calls.
* `MigrationSettles`, `RollbackCompletes`: liveness across crashes.
* `NoDriverAfterClose`, `TicksAreComplete` (proved): no driver runs once the
  store is given up, and a tick that nobody aborts runs every driver. `CloseEnds`,
  `WaitersAreAnswered`: liveness.
* `MutualExclusion`, `DetachesWhatItClaimed` (proved under `Benign`),
  `AbandonedLockIsFreed`: the lock.
* `OverlapOnlyAfterRevocation` (proved): two hosts at once are of different
  epochs. `LiveLeaseIsHosted` (proved): a live process in the file hosts the
  session unless one of its store operations threw. `RequestRevokesOnce`,
  `LeasedWritesGoForward` (proved): until the power fails, a repeated request
  revokes no second lease, and nothing is written under a lease that was
  succeeded. `RevokedHostStops`: liveness.
* `RegistrationMatchesSockets`, `LossClosesTarget` (proved): registrations and
  sockets agree; a message that fits in a frame is lost only with its target's
  connection. `StoreCountsRight` (proved): the offline store's totals are what it
  holds, within each of its limits. `NoBacklogWhileOnline`, `WrittenInOrder`
  (proved where every message fits a frame when it is wrapped for delivery, and
  checked with such messages only): delivery is complete, in order and once. With
  other messages the first does not hold (see "Findings").
  `SilentConnectionsLeave`: liveness.

## 5. The proofs

All theorems hold for every value of the constants that satisfies the named
assumption of their module (`ConstantsAssumption`, `AuthorityAssumption` and so
on, which TLC evaluates on every run). What needs a further condition has it in
its statement.

`SchedulerStoreProofs`. `TypeOK` is inductive (`TypeCorrect`).
`SchemaIsMet` and `ControlsMatch` come from `BudgetInvariant`: the match of
controls alone is not inductive, because a retryable failure moves a resumed
control one fence ahead; the invariant adds that an attempt is then left, that
rows nobody can claim have no live control, and that rows not yet enqueued have
used no attempt. `StoreImplementsFencedLease`: every action changes each row in
one of the ways of `RowStep` (`StepIsRowStep`), each of which is a step of the
lease (`RowStepIsLeaseStep`); `SuccessIsFinal` is a corollary of the first.
`PendingDecisionsBind` and `RequeuesGrantOneClaim` come from `SideInvariant`:
the claim that carries a decision must be known to consume an attempt, hence to
find neither a requeue nor a control that pays for it (`DecisionInv`), and an
occurrence has at most one open requeue (`GrantInv`). `ClaimsArePaidFor` counts:
`PriceInvariant` bounds the fence by attempts, requeues and control steps.
`TriggersFireOnce` and `PauseHolds` follow each action's effect on one row.

`SchedulerRuntimeProofs`. Every step of the executors is a step of the store or
leaves it alone (`RuntimeImplementsStore`), so the store's invariants hold under
them. `PlanInv` says of each executor's copy of its row that its attempt and
fence lie past what was decided (`CopyFits`), and of its phase that it rejects
only once its lease is lost and runs only what may be executed (`PlanFits`). It
needs that decisions about a claimed occurrence stand still
(`ClaimedDecisionStays`), that a control bound to another fence is met only
without the lease (`ForeignIsLost`, from `ControlMatches` of the store), and
that a lease once lost under a token stays lost (`LostIsLost`).
`ClaimsMeetTheirOwn` and `AppliedIsNotReplayed` follow. `RunnersDoNotOverlap`
needs the price of claims once more: since the claim with some token every later
claim was paid by an attempt of its own or by a requeue (`PaidSince`, and
`PaidBetween` for the copies of two executors), so a second executor that
reaches its runner has been claimed across a requeue. It assumes that nobody
pauses: with a pause the first finding refutes it. `StartsArePaidFor` holds with
pauses too. `StartInv` counts the starts that are still to come with those that
were: the claims that may still start (`Starting`, a set of tokens, of which
`ClaimsDiffer` gives each to one worker). Both together are bounded by
`Allowance`, the claims that consumed no attempt, the first and the granted one,
which every executable claim raises (`AllowanceGrows`). `ReplaysArePermitted`
follows where nobody pauses, since there only requeues pay for claims that
consume no attempt (`UnpausedInv`). So the finding about pauses has no other
cause than the claims that serve a pause or a resume.

`SchedulerAuthorityProofs`. `AuthorityInv` says for each row which reservation
its outcome allows (`OutcomeInv`), for each executor what a grant it holds rests
on (`Granted`), and for each policy revision and window that usage counts its
reservations (`UsageRow`). `UsageIsAccounted`, `BudgetBoundsStarts`,
`ReplacedPoliciesStop`, `ReservationsFollow` and `AuthorityTyped` follow.
`AuthorityImplementsRuntime` needs no invariant: no guard and no new value of
another column reads a reservation (`SameGuards`, `PlanMaps`), so each step of an
executor, an operator or an administrator is the same step where every reservation is
"none" (`JobCallsMap` to `RuntimeMaps`), and policies and reservations change
nothing else. The resolver may deny what the runtime alone leaves open, so the
authority only narrows: what `SchedulerRuntimeProofs` shows of occurrences, claims
and starts holds with the authority in place. No run repeats this: to follow both
next-state relations side by side takes TLC longer than everything `authority`
asks, and on one occurrence it shows less than the proof.

`SchedulerMigrationProofs`. `MigrationInvariant` says what a process that
migrates, or rolls back, still knows of the journal when it takes its next step
(`MigratorInv`, `RestorerInv`), and that a fence belongs to a migration that may
need it (`FenceFits`): `RetiredSourcesAreFenced`, `RolledBackSourcesAreLive`,
`TargetsStopFirst`, `NothingRunsBeforeRestore`.

`SchedulerServiceProofs`. Whoever is in a tick holds the tick promise, and there
is no promise after the wait: `DriversDoNotOverlap`, `NoDriverOutlivesTheStore`,
`StoreIsDisposedLast`. `TicksRunEveryDriver` needs the order of a tick
(`TickIsInOrder`): those that ran in it are the ones up to its position.

`FileLockProofs`. The theorems assume `Benign`: no body publishes a handoff, no
process dies while it holds a claim, and renames fail transiently only where
nobody dies. Each of the three is needed (see "Findings"). A call owns the
directory once in its life, so a directory is told by its owner; whoever is
about to rename it away has its own claim inside (`ClaimInPlace`); one claim of
a kind exists, and the two kinds exclude each other, because one needs a dead
owner and the other a marker that only a live one publishes. `LockExcludes`,
`OwnershipIsKept`, `ContenderSparesReplacement`, `ReleaserSparesReplacement`.

`SessionHostProofs`. `HostInv`: a local record is the file's lease or of an epoch
that was revoked, for the file and for what a power failure leaves of it; so no
host is succeeded in silence (`HostsAreKnown`) and hosts at once are of different
epochs (`HostsAreFenced`). `LeasesAreHosted` needs besides that a process whose
call threw is known. Until the power fails,
tokens and the journal only grow (`ForwardInv`): `ReplaySparesSuccessors`,
`OldLeasesDoNotWrite`.

`SignalingProofs`. `SocketInv` relates the three tables and the socket states;
every send only closes sockets (`SendToOnlyCloses`). `RegistrationsCorrect`,
`LossIsNoticed`. For the totals, an entry of the store is a peer and a place in
its queue (`Slots`), so that a total is the size of one set of pairs: taking
messages from the front of queues shifts the places of the others
(`ShiftCounts`, `FrontsCount`, `Remainder`), for one peer when it is delivered to
and for all of them when the cleanup timer fires, and storing adds one place.
`StoreInv` adds that queues are in order of arrival, without which what expires
is no front, and that the set of places is finite, although the set of peers need
not be. `StoreIsCounted` follows. `NothingWaitsOnline` and
`MessagesArriveInOrder` come from `PlainInv`: what was written to a peer is older
than what waits for it, what waits is older than the next message, and nothing
waits for a peer that is online. A peer comes online by registering only
(`OnlineByRegistration`), which delivers from the front (`RegisterDelivers`), and
stays online only if everything was delivered. The hypothesis that every message fits a frame
when it is wrapped is needed:
`SignalingBulky.cfg` refutes the first of them without it.

Only model-checked: liveness and everything that needs `ENABLED`, which are out
of the prover's reach.

## 6. Findings

Listed with a run each:

`runtime_pause`: the comment on `maxAttempts` (loop-adapter.js:648) says that a
reclaimed first attempt is not replayed. It is, when a pause is involved: the
claims that take over a pausing occurrence and that continue a resumed one
leave `attempt` alone (store.js 4680-4694), while the adapter tells a replay
from a first start by `attempt > 1` (loop-adapter.js:825). TLC's behaviour: a
worker starts the runner, an operator requests a pause, the worker's lease
expires, another worker claims and acknowledges the pause, the operator
resumes, and the next claim starts the runner a second time as attempt 1.

`lock_handoff_mutex`: exactly one process holds the lock (with-file-lock.js:8).
With a handoff two may: the body published its release and removed its staging
file, so a contender claims the directory and checks its owner record
(with-file-lock.js:564); then the owner's own release renames that directory
away, a third call publishes the next, and the contender's rename
(with-file-lock.js:576) takes that one away and lets it in beside the third.

Configurations without a run, each of which makes TLC show a disagreement of the
same kind; they are kept for whoever changes this code.

* `MigrationSecondAttempt.cfg` (`RollbackCanBeginWhileRetiring`): the comment at
  migration-rollback-admin.js:296 says that a rollback can begin after the
  retirement token was allocated but before the legacy source was fenced. When
  the session was migrated and rolled back once before, it cannot:
  `summarizeLoopEvents` (loop.js:130) keeps the last migration marker of the
  session, whichever migration it names, and `assertSourceEvidence` takes a
  marker of another migration for a mismatch. `show` reports the second
  migration as eligible and the command refuses it until it has been completed.
* `LockHandoff.cfg` (`ReleasesItsOwn`): the first half of `lock_handoff_mutex`
  the other way round; a contender completes the handoff and acquires, and the
  releaser, which had checked before, renames the new lock away.
* `LockClaimTakeover.cfg` (`DetachesWhatItClaimed`): a contender dies between
  its check and its rename; two others find its claim dead, one replaces it by
  its own, the other's delayed unlink of the path removes that one and it writes
  its own in turn; both rename, and the second hits a replacement.
  The header says that a delayed contender cannot delete a replacement lock
  (with-file-lock.js:19-20).
* `LockExit.cfg` (`DetachesWhatItClaimed`): a rename fails transiently, the
  owner falls back to the release marker, returns, and its process exits; one
  contender then claims the release, another the reclaim of a dead owner, and
  the two claims do not exclude each other.
* `LockLost.cfg` (`OwnershipNeverLost`): a contender completes the release the
  owner fell back to, and the owner, not finding its directory, reports
  STATE_LOCK_OWNERSHIP_LOST for a body it ran alone.
* `LockTornClaim.cfg` (`AbandonedLockIsFreed`): a contender dies after it created
  its claim file and before it wrote it. The file can be neither read nor
  created again, and every later contender waits until its deadline.
* `HostReplay.cfg` (`ReplayIsExact`): a revocation whose directory was not synced
  is undone by a power failure; repeated, it revokes the lease that is active by
  then, though a replay never revokes a successor (session-host-lease.js:695).
* `HostBareWrite.cfg` (`NoWriteBesideHost`): a process without a lease looks for
  the lease file before it takes any lock (session-host-lease.js:828) and writes
  after a host has acquired the session.
* `SignalingBulky.cfg` (`NoBacklogWhileOnline`): a message that fits in a frame
  as it is relayed but not inside an `offline-message` is stored, is never
  delivered, and blocks what was stored behind it until it expires.
* `SignalingReplaced.cfg` (`ReplacementIsKept`): a `register` frame that still
  arrives on a socket that is being closed takes the registration back from the
  socket that replaced it, and closes that one.

## 7. Not modelled, and the plan

Not modelled, and why:

* The event log, the evidence digests and the hash chain of the store: they are
  written and, but for the migration's count of executions, not read by the code
  modelled here.
* Liveness of resumed occurrences, whose reclaims are free and need no attempt:
  it needs fences up to renaming, so that claims need no bound.
* Migrations of several entries, the strategy `restore` and the sources of the
  other domains with their prepared and retired markers.
* Process ids that are used again: the lock and the host lease compare the id
  only (session-host-lease.js:279).
* The agent loop, commands, session transcripts, sandboxes and plugins of the
  CLI, the desktop and mobile applications, the backend services and the web
  panels: calls to language models, user interface and I/O, the greatest part of
  the repository by far.

Candidates, most important first:

1. The event runtime of the CLI: its `claim()` does not look at `maxAttempts`,
   a failed read of its state is taken for an empty one and written back, the
   leases of a batch run while the first handler works, and a tick in flight
   writes over `stopHost`. It shares the scheduler's questions with other
   answers.
2. The domain adapters (routine, agenda, automation, cowork cron) as clients of
   the store, with repeated calls whose outcome was unknown.
3. The graph authority adapter in its enforcing modes.
4. Task leases of background agents, and the composition of the host lease with
   the file lock it runs under.
5. The multisig, settlement and Merkle-tree packages.
