------------------------- MODULE SchedulerMigration -------------------------
(***************************************************************************)
(* A saved loop moves from its session file into the scheduler store, and  *)
(* back: the domain migration journal of store.js, migrateSavedLoopSession *)
(* and rollbackSavedLoopMigration of loop-adapter.js, and the operator's   *)
(* rollback of migration-rollback-admin.js.                                *)
(*                                                                         *)
(* The store (journal and target job) and the session file are two places  *)
(* with no common transaction.  A process calls the store, appends to the  *)
(* file, calls the store again, and may die or be refused after any step;  *)
(* another one picks up what it left.                                      *)
(*                                                                         *)
(* One source and its target, one entry per migration (all callers make    *)
(* these; the rollback command accepts no other), rollback strategy        *)
(* "disable" (all adapters use it).  A retirement token is allocated once  *)
(* per migration and stands for its number.  An append to the file is a    *)
(* compare-and-append on the head that was read, so reading and appending  *)
(* are one step; an append that lost the race is read again or refused.    *)
(***************************************************************************)
EXTENDS Naturals, FiniteSets

CONSTANTS
  Procs,          \* processes: loop commands and operators' rollbacks
  None,
  MaxMigrations,  \* bound: attempts to migrate the source
  MaxChanges,     \* bound: changes other clients make to the target
  MaxExecutions,  \* bound: occurrences and execution events of the target
  MaxCrashes      \* bound: processes that die

ASSUME MigrationAssumption ==
  /\ None \notin Procs
  /\ MaxMigrations \in Nat \ {0}
  /\ MaxChanges \in Nat
  /\ MaxExecutions \in Nat
  /\ MaxCrashes \in Nat

VARIABLES
  state,            \* of each migration: table scheduler_domain_migrations
  entry,            \* of its entry: table scheduler_domain_migration_entries
  appliedRevision, rollbackRevision, countBefore,  \* columns of the entry
  confirmed,        \* source_retirement_digest is set
  revision,         \* the target job; revision 0: there is none
  enabled,
  intended,         \* its definition is the one the migration made
  executions,       \* its occurrences and execution events
  fence,            \* last loop_config: 0 if live, else retired by migration
  marker,           \* last word on migration in the file: <<state, migration>>
  lock,             \* the process that keeps a store transaction open
  pc, migration, saw,  \* where a process stands, its migration, its state
  changes, crashes

journalVars == <<state, entry, appliedRevision, rollbackRevision, countBefore,
                 confirmed>>
targetVars == <<revision, enabled, intended, executions>>
sourceVars == <<fence, marker>>
procVars == <<pc, migration, saw>>
boundVars == <<changes, crashes>>
vars == <<journalVars, targetVars, sourceVars, lock, procVars, boundVars>>

Migrations == 1..MaxMigrations

NoMarker == <<"none", 0>>

Init ==
  /\ state = [m \in Migrations |-> "absent"]
  /\ entry = [m \in Migrations |-> "absent"]
  /\ appliedRevision = [m \in Migrations |-> 0]
  /\ rollbackRevision = [m \in Migrations |-> 0]
  /\ countBefore = [m \in Migrations |-> 0]
  /\ confirmed = [m \in Migrations |-> FALSE]
  /\ revision \in {0, 1}
  /\ enabled \in IF revision = 0 THEN {FALSE} ELSE BOOLEAN
  /\ intended \in IF revision = 0 THEN {FALSE} ELSE BOOLEAN
  /\ executions \in IF revision = 0 THEN {0} ELSE 0..MaxExecutions
  /\ fence = 0
  /\ marker = NoMarker
  /\ lock = None
  /\ pc = [p \in Procs |-> "idle"]
  /\ migration = [p \in Procs |-> 0]
  /\ saw = [p \in Procs |-> "none"]
  /\ changes = 0
  /\ crashes = 0

-----------------------------------------------------------------------------

Staged == revision > 0 /\ intended /\ ~ enabled

Active == {m \in Migrations : entry[m] \notin {"absent", "rolled_back"}}

StoreIsFree == lock = None

Go(p, step) == pc' = [pc EXCEPT ![p] = step]

\* Store calls answer with the migration, whose state decides the next one.
See(p, m) == saw' = [saw EXCEPT ![p] = state'[m]]

Leave(p) ==
  /\ Go(p, "idle")
  /\ migration' = [migration EXCEPT ![p] = 0]
  /\ saw' = [saw EXCEPT ![p] = "none"]

Both(m, s) ==
  /\ state' = [state EXCEPT ![m] = s]
  /\ entry' = [entry EXCEPT ![m] = s]

Migrating == {"find", "prepare", "advance", "mark", "confirm"}
RollingBack == {"begin", "targets", "open", "config", "marker", "commit"}

\* The rollback command makes the operator stop the workers of the source.
Drained(phases) == \A p \in Procs : pc[p] \notin phases

-----------------------------------------------------------------------------
(* migrateSavedLoopSession.                                                *)

StartMigrating(p) ==
  /\ pc[p] = "idle" /\ Drained(RollingBack)
  /\ Go(p, "find")
  /\ UNCHANGED <<journalVars, targetVars, sourceVars, lock, migration, saw,
                 boundVars>>

\* getActiveDomainMigrationBySource; a migration that rolls back is refused.
Find(p) ==
  /\ pc[p] = "find" /\ StoreIsFree
  /\ \/ /\ Active = {}
        /\ Go(p, "prepare")
        /\ UNCHANGED <<migration, saw>>
     \/ \E m \in Active :
          /\ state[m] # "rolling_back"
          /\ Go(p, "advance")
          /\ migration' = [migration EXCEPT ![p] = m]
          /\ saw' = [saw EXCEPT ![p] = state[m]]
  /\ UNCHANGED <<journalVars, targetVars, sourceVars, lock, boundVars>>

\* Faulty variant: the journal is not searched for an active migration.
PrepareAnyway(p) ==
  /\ pc[p] = "prepare" /\ StoreIsFree
  /\ \E m \in Migrations :
       /\ entry[m] = "absent"
       /\ \A n \in 1..(m - 1) : entry[n] # "absent"
       /\ Both(m, "prepared")
       /\ migration' = [migration EXCEPT ![p] = m]
       /\ See(p, m)
  /\ Go(p, "advance")
  /\ UNCHANGED <<appliedRevision, rollbackRevision, countBefore, confirmed,
                 targetVars, sourceVars, lock, boundVars>>

\* prepareDomainMigration: a new migration, or the one that came first.
Prepare(p) ==
  /\ pc[p] = "prepare" /\ StoreIsFree
  /\ \E m \in Migrations :
       /\ \/ /\ m \in Active /\ state[m] # "rolling_back"
             /\ UNCHANGED <<state, entry>>
          \/ /\ Active = {}
             /\ entry[m] = "absent"
             /\ \A n \in 1..(m - 1) : entry[n] # "absent"
             /\ Both(m, "prepared")
       /\ migration' = [migration EXCEPT ![p] = m]
       /\ See(p, m)
  /\ Go(p, "advance")
  /\ UNCHANGED <<appliedRevision, rollbackRevision, countBefore, confirmed,
                 targetVars, sourceVars, lock, boundVars>>

\* applyDomainMigration stages the target: the intended job, disabled.
Stage(m) ==
  /\ IF Staged THEN UNCHANGED <<revision, enabled, intended>>
     ELSE /\ revision' = revision + 1
          /\ enabled' = FALSE
          /\ intended' = TRUE
  /\ appliedRevision' = [appliedRevision EXCEPT ![m] = revision']
  /\ countBefore' = [countBefore EXCEPT ![m] = executions]
  /\ Both(m, "applied")

Apply(p) ==
  LET m == migration[p] IN
  /\ pc[p] = "advance" /\ saw[p] = "prepared" /\ StoreIsFree
  /\ \/ state[m] = "prepared" /\ Stage(m)
     \/ /\ state[m] \in {"applied", "verified", "retiring", "retired"}
        /\ UNCHANGED <<state, entry, appliedRevision, countBefore, revision,
                       enabled, intended>>
  /\ See(p, m)
  /\ UNCHANGED <<rollbackRevision, confirmed, executions, sourceVars, lock,
                 pc, migration, boundVars>>

Verify(p) ==
  LET m == migration[p] IN
  /\ pc[p] = "advance" /\ saw[p] = "applied" /\ StoreIsFree
  /\ \/ state[m] = "verified" /\ UNCHANGED <<state, entry>>
     \/ /\ state[m] = "applied"
        /\ Staged /\ revision = appliedRevision[m]
        /\ Both(m, "verified")
  /\ See(p, m)
  /\ UNCHANGED <<appliedRevision, rollbackRevision, countBefore, confirmed,
                 targetVars, sourceVars, lock, pc, migration, boundVars>>

BeginRetirement(p) ==
  LET m == migration[p] IN
  /\ pc[p] = "advance" /\ saw[p] = "verified" /\ StoreIsFree
  /\ \/ state[m] = "retiring" /\ UNCHANGED <<state, entry>>
     \/ state[m] = "verified" /\ Both(m, "retiring")
  /\ See(p, m)
  /\ UNCHANGED <<appliedRevision, rollbackRevision, countBefore, confirmed,
                 targetVars, sourceVars, lock, pc, migration, boundVars>>

\* Faulty variant: only the marker is written, no config that stops clients.
AppendMarkerOnly(p) ==
  LET m == migration[p] IN
  /\ pc[p] = "advance" /\ saw[p] \in {"retiring", "retired"}
  /\ fence \in {0, m}
  /\ marker' = <<"retired", m>>
  /\ Go(p, "mark")
  /\ UNCHANGED <<journalVars, targetVars, fence, lock, migration, saw,
                 boundVars>>

\* Faulty variant: a fence that is there already is taken for a conflict.
AppendFenceOnce(p) ==
  LET m == migration[p] IN
  /\ pc[p] = "advance" /\ saw[p] \in {"retiring", "retired"}
  /\ fence = 0
  /\ fence' = m
  /\ marker' = <<"retired", m>>
  /\ Go(p, "mark")
  /\ UNCHANGED <<journalVars, targetVars, lock, migration, saw, boundVars>>

\* appendLoopConfig with the retirement config, unless it is there.
AppendFence(p) ==
  LET m == migration[p] IN
  /\ pc[p] = "advance" /\ saw[p] \in {"retiring", "retired"}
  /\ \/ fence = m /\ UNCHANGED sourceVars
     \/ fence = 0 /\ fence' = m /\ marker' = <<"retired", m>>
  /\ Go(p, "mark")
  /\ UNCHANGED <<journalVars, targetVars, lock, migration, saw, boundVars>>

AppendMarker(p) ==
  /\ pc[p] = "mark"
  /\ marker' = <<"retired", migration[p]>>
  /\ Go(p, "confirm")
  /\ UNCHANGED <<journalVars, targetVars, fence, lock, migration, saw,
                 boundVars>>

\* The last entry is retired: the target is enabled in the same transaction.
Activate(m) ==
  /\ \/ /\ revision > 0 /\ intended /\ enabled
        /\ UNCHANGED <<revision, enabled>>
     \/ /\ Staged /\ revision = appliedRevision[m]
        /\ revision' = revision + 1
        /\ enabled' = TRUE
  /\ appliedRevision' = [appliedRevision EXCEPT ![m] = revision']

ConfirmRetired(p) ==
  LET m == migration[p] IN
  /\ pc[p] = "confirm" /\ StoreIsFree
  /\ \/ /\ entry[m] = "retired"
        /\ UNCHANGED <<state, entry, appliedRevision, confirmed, revision,
                       enabled>>
     \/ /\ entry[m] = "retiring"
        /\ Activate(m)
        /\ Both(m, "retired")
        /\ confirmed' = [confirmed EXCEPT ![m] = TRUE]
  /\ Leave(p)
  /\ UNCHANGED <<rollbackRevision, countBefore, intended, executions,
                 sourceVars, lock, boundVars>>

-----------------------------------------------------------------------------
(* The operator's rollback.                                                *)

\* The target is as the rollback left it, and nothing ran.
TargetRolledBack(m) ==
  /\ Staged /\ revision = rollbackRevision[m]
  /\ executions = countBefore[m]

\* rollbackBlockers finds nothing.
Eligible(m) ==
  /\ state[m] \notin {"absent", "rolled_back"}
  /\ \/ entry[m] = "prepared"
     \/ entry[m] = "rollback_target_disabled" /\ TargetRolledBack(m)
     \/ /\ entry[m] \in {"applied", "verified", "retiring", "retired"}
        /\ revision = appliedRevision[m]
        /\ executions = countBefore[m]

SourceAlreadyRestored(m) ==
  /\ state[m] = "rolling_back"
  /\ entry[m] \in {"prepared", "rollback_target_disabled"}
  /\ fence = 0
  /\ marker = NoMarker \/ marker[2] = m

\* assertSourceEvidence for a loop.
SourceEvidence(m) ==
  \/ SourceAlreadyRestored(m)
  \/ /\ marker = NoMarker => ~ confirmed[m]
     /\ marker # NoMarker =>
          /\ marker = <<"retired", m>> /\ fence = m
          /\ entry[m] \in {"retiring", "retired", "rollback_target_disabled"}

StartRollback(p, m) ==
  /\ pc[p] = "idle" /\ Drained(Migrating)
  /\ Eligible(m) /\ SourceEvidence(m)
  /\ Go(p, "begin")
  /\ migration' = [migration EXCEPT ![p] = m]
  /\ UNCHANGED <<journalVars, targetVars, sourceVars, lock, saw, boundVars>>

\* The target is what the migration made of it and nothing ran: disable it.
DisableTarget(m) ==
  /\ revision = appliedRevision[m] /\ intended
  /\ enabled = (state[m] = "retired")
  /\ executions = countBefore[m]
  /\ revision' = IF enabled THEN revision + 1 ELSE revision
  /\ enabled' = FALSE
  /\ entry' = [entry EXCEPT ![m] = "rollback_target_disabled"]
  /\ rollbackRevision' = [rollbackRevision EXCEPT ![m] = revision']

RollbackTarget(m) ==
  \/ /\ entry[m] = "prepared"
     /\ UNCHANGED <<entry, rollbackRevision, revision, enabled>>
  \/ /\ entry[m] = "rollback_target_disabled" /\ TargetRolledBack(m)
     /\ UNCHANGED <<entry, rollbackRevision, revision, enabled>>
  \/ /\ entry[m] \in {"applied", "verified", "retiring", "retired"}
     /\ DisableTarget(m)

BeginRollback(p) ==
  LET m == migration[p] IN
  /\ pc[p] = "begin" /\ StoreIsFree
  /\ \/ /\ state[m] = "rolled_back"
        /\ Leave(p)
        /\ UNCHANGED <<state, entry, rollbackRevision, revision, enabled>>
     \/ /\ state[m] # "rolled_back"
        /\ RollbackTarget(m)
        /\ state' = [state EXCEPT ![m] = "rolling_back"]
        /\ Go(p, "targets")
        /\ UNCHANGED <<migration, saw>>
  /\ UNCHANGED <<appliedRevision, countBefore, confirmed, intended,
                 executions, sourceVars, lock, boundVars>>

\* rollbackDomainMigrationTargets, once more in a transaction of its own.
RollbackTargets(p) ==
  LET m == migration[p] IN
  /\ pc[p] = "targets" /\ StoreIsFree
  /\ \/ /\ state[m] = "rolled_back"
        /\ UNCHANGED <<entry, rollbackRevision, revision, enabled>>
     \/ state[m] = "rolling_back" /\ RollbackTarget(m)
  /\ Go(p, "open")
  /\ UNCHANGED <<state, appliedRevision, countBefore, confirmed, intended,
                 executions, sourceVars, lock, migration, saw, boundVars>>

\* Faulty variant: the target is not looked at again before the restore.
OpenRestoreUnchecked(p) ==
  LET m == migration[p] IN
  /\ pc[p] = "open" /\ StoreIsFree
  /\ \/ entry[m] = "rolled_back" /\ Leave(p) /\ UNCHANGED lock
     \/ /\ entry[m] \in {"prepared", "rollback_target_disabled"}
        /\ lock' = p
        /\ Go(p, "config")
        /\ UNCHANGED <<migration, saw>>
  /\ UNCHANGED <<journalVars, targetVars, sourceVars, boundVars>>

\* restoreDomainMigrationEntrySource writes the file inside its transaction.
OpenRestore(p) ==
  LET m == migration[p] IN
  /\ pc[p] = "open" /\ StoreIsFree
  /\ \/ entry[m] = "rolled_back" /\ Leave(p) /\ UNCHANGED lock
     \/ /\ \/ entry[m] = "prepared"
           \/ entry[m] = "rollback_target_disabled" /\ TargetRolledBack(m)
        /\ lock' = p
        /\ Go(p, "config")
        /\ UNCHANGED <<migration, saw>>
  /\ UNCHANGED <<journalVars, targetVars, sourceVars, boundVars>>

\* Faulty variant: only a fenced config is replaced, a live one is a conflict.
RestoreFencedConfig(p) ==
  /\ pc[p] = "config"
  /\ fence = migration[p]
  /\ fence' = 0
  /\ Go(p, "marker")
  /\ UNCHANGED <<journalVars, targetVars, marker, lock, migration, saw,
                 boundVars>>

\* Faulty variant: the marker alone is taken for the restored source.
KeepConfig(p) ==
  /\ pc[p] = "config"
  /\ Go(p, "marker")
  /\ UNCHANGED <<journalVars, targetVars, sourceVars, lock, migration, saw,
                 boundVars>>

RestoreConfig(p) ==
  /\ pc[p] = "config"
  /\ fence \in {0, migration[p]}
  /\ fence' = 0
  /\ Go(p, "marker")
  /\ UNCHANGED <<journalVars, targetVars, marker, lock, migration, saw,
                 boundVars>>

RestoreMarker(p) ==
  /\ pc[p] = "marker"
  /\ marker' = <<"rolled_back", migration[p]>>
  /\ Go(p, "commit")
  /\ UNCHANGED <<journalVars, targetVars, fence, lock, migration, saw,
                 boundVars>>

CommitRestore(p) ==
  /\ pc[p] = "commit"
  /\ Both(migration[p], "rolled_back")
  /\ lock' = None
  /\ Leave(p)
  /\ UNCHANGED <<appliedRevision, rollbackRevision, countBefore, confirmed,
                 targetVars, sourceVars, boundVars>>

-----------------------------------------------------------------------------
(* Failure, and the other clients of the store.                            *)

Proceed(p) ==
  \/ Find(p) \/ Prepare(p) \/ Apply(p) \/ Verify(p) \/ BeginRetirement(p)
  \/ AppendFence(p) \/ AppendMarker(p) \/ ConfirmRetired(p)
  \/ BeginRollback(p) \/ RollbackTargets(p) \/ OpenRestore(p)
  \/ RestoreConfig(p) \/ RestoreMarker(p) \/ CommitRestore(p)

\* An open transaction goes with its process.
Stop(p) ==
  /\ Leave(p)
  /\ lock' = IF lock = p THEN None ELSE lock
  /\ UNCHANGED <<journalVars, targetVars, sourceVars, changes>>

\* A call is refused: the command ends with an error.
Refused(p) ==
  /\ pc[p] # "idle"
  /\ ~ ENABLED Proceed(p)
  /\ Stop(p)
  /\ UNCHANGED crashes

Crash(p) ==
  /\ pc[p] # "idle"
  /\ crashes < MaxCrashes
  /\ crashes' = crashes + 1
  /\ Stop(p)

\* Another client updates the target: enables it, disables it, rewrites it.
ChangeTarget ==
  /\ StoreIsFree /\ revision > 0
  /\ changes < MaxChanges
  /\ changes' = changes + 1
  /\ revision' = revision + 1
  /\ enabled' \in BOOLEAN /\ intended' \in BOOLEAN
  /\ UNCHANGED <<journalVars, executions, sourceVars, lock, procVars, crashes>>

\* The target gets an occurrence while it is enabled, or one it has moves on.
Execute ==
  /\ StoreIsFree
  /\ enabled \/ executions > 0
  /\ executions < MaxExecutions
  /\ executions' = executions + 1
  /\ UNCHANGED <<journalVars, revision, enabled, intended, sourceVars, lock,
                 procVars, boundVars>>

Next ==
  \/ \E p \in Procs :
       \/ StartMigrating(p)
       \/ \E m \in Migrations : StartRollback(p, m)
       \/ Proceed(p)
       \/ Refused(p)
       \/ Crash(p)
  \/ ChangeTarget
  \/ Execute

Spec == Init /\ [][Next]_vars

\* Commands run; the loop is resumed by somebody again and again; an operator who
\* finds a rollback unfinished stops the workers (so no command is running then)
\* and repeats it.
Fairness ==
  /\ \A p \in Procs : WF_vars(Proceed(p)) /\ WF_vars(Refused(p))
  /\ []<>(\A p \in Procs : pc[p] = "idle")
  /\ SF_vars(\E p \in Procs : StartMigrating(p))
  /\ SF_vars(\E p \in Procs, m \in Migrations :
               state[m] = "rolling_back" /\ StartRollback(p, m))

FairSpec == Spec /\ Fairness

-----------------------------------------------------------------------------
(* Properties.                                                             *)

\* Rows keep to the CHECK constraints of their tables, and a source has one
\* active migration (the partial unique indexes).
MigrationTypeOK ==
  /\ Cardinality(Active) <= 1
  /\ \A m \in Migrations :
       /\ entry[m] = state[m] \/
          /\ state[m] = "rolling_back"
          /\ entry[m] \in {"prepared", "rollback_target_disabled"}
       /\ entry[m] # "rolled_back" =>
            (appliedRevision[m] = 0 <=> entry[m] \in {"absent", "prepared"})
       /\ confirmed[m] => appliedRevision[m] > 0
  /\ fence \in 0..MaxMigrations
  /\ lock # None => pc[lock] \in {"config", "marker", "commit"}

\* While the target runs the loop for a completed migration, the session file
\* is fenced: no crash, repetition or race of two commands lets a prior client
\* run it from there too.
RetiredMeansFenced == \A m \in Migrations : state[m] = "retired" => fence = m

\* Once the journal says rolled_back, the loop can be resumed from its file:
\* the fence of that migration is gone for good.
RolledBackMeansLive ==
  \A m \in Migrations : state[m] = "rolled_back" => fence # m

\* "rollback stops or restores the scheduler target before restoring the
\* legacy source" (CHANGELOG.md, 0.163.7): the fence goes only when the target
\* is disabled, whatever other clients made of it since the rollback began.
TargetStopsFirst == [][fence # 0 /\ fence' = 0 => ~ enabled]_vars

\* A loop whose target executed something is not handed back to the file,
\* which would run its iterations again: from the staging of the target to the
\* restored source, nothing of it ran.
NothingRanBeforeRestore ==
  [][\A m \in Migrations :
       entry[m] = "rollback_target_disabled" /\ entry'[m] = "rolled_back"
         => executions = countBefore[m]]_vars

\* Another client changed the target, or work of it moved: what the migration
\* then refuses to touch is left for the operator to sort out.
Meddled(m) == changes > 0 \/ executions # countBefore[m]

\* A migration that was prepared completes or is rolled back, although the
\* processes that carry it out race and die between any two of its steps.
MigrationSettles ==
  \A m \in Migrations :
    state[m] = "prepared" ~> state[m] \in {"retired", "rolled_back"} \/ Meddled(m)

\* A rollback that began restores the source, although it is interrupted.
RollbackCompletes ==
  \A m \in Migrations :
    state[m] = "rolling_back" ~> state[m] = "rolled_back" \/ Meddled(m)

\* "A rollback can begin after the retirement token was allocated but before
\* the legacy source was fenced and confirmed" (migration-rollback-admin.js).
RollbackCanBeginWhileRetiring ==
  \A m \in Migrations :
    entry[m] = "retiring" /\ fence # m /\ Eligible(m) => SourceEvidence(m)
=============================================================================
