---------------------- MODULE SchedulerMigrationProofs ----------------------
(***************************************************************************)
(* Theorems about SchedulerMigration, for any number of processes,         *)
(* migrations, crashes and changes of the target.                          *)
(***************************************************************************)
EXTENDS SchedulerMigration, TLAPS

States == {"absent", "prepared", "applied", "verified", "retiring", "retired",
           "rolling_back", "rolled_back"}
Entries == {"absent", "prepared", "applied", "verified", "retiring",
            "retired", "rollback_target_disabled", "rolled_back"}
Phases == {"idle"} \cup Migrating \cup RollingBack

\* The steps a process takes inside the open transaction.
Restoring == {"config", "marker", "commit"}

JournalTypeOK ==
  /\ state \in [Migrations -> States]
  /\ entry \in [Migrations -> Entries]
  /\ fence \in 0..MaxMigrations
  /\ lock \in Procs \cup {None}
  /\ pc \in [Procs -> Phases]
  /\ migration \in [Procs -> 0..MaxMigrations]
  /\ saw \in [Procs -> States \cup {"none"}]
  /\ DOMAIN countBefore = Migrations

\* Nobody migrates while somebody rolls back.
Apart == \A p, q \in Procs : ~ (pc[p] \in Migrating /\ pc[q] \in RollingBack)

\* The two tables agree, and one migration of the source is active.
RowAgrees(m) ==
  \/ entry[m] = state[m]
  \/ /\ state[m] = "rolling_back"
     /\ entry[m] \in {"prepared", "rollback_target_disabled"}

OneActive == \A m, n \in Active : m = n

\* What a migrating process knows: its migration goes forward only.
MigratorInv(p) ==
  /\ pc[p] \in {"advance", "mark", "confirm"} =>
       /\ migration[p] \in Migrations
       /\ entry[migration[p]] \in
            {"prepared", "applied", "verified", "retiring", "retired"}
       /\ saw[p] \in {"retiring", "retired"} \/ pc[p] # "advance" =>
            entry[migration[p]] \in {"retiring", "retired"}
  /\ pc[p] \in {"mark", "confirm"} => fence = migration[p]

\* What a process that rolls back knows: a target it disabled stays so until
\* its transaction ends.
RestorerInv(p) ==
  /\ pc[p] \in RollingBack =>
       /\ migration[p] \in Migrations
       /\ state[migration[p]] # "absent"
  /\ pc[p] \in {"targets", "open"} =>
       state[migration[p]] \in {"rolling_back", "rolled_back"}
  /\ pc[p] \in Restoring <=> lock = p
  /\ pc[p] \in Restoring =>
       /\ state[migration[p]] = "rolling_back"
       /\ entry[migration[p]] = "rollback_target_disabled" =>
            ~ enabled /\ executions = countBefore[migration[p]]
  /\ pc[p] \in {"marker", "commit"} => fence = 0

\* A fence belongs to a migration that may need it, and a retired one has it.
FenceFits ==
  /\ fence # 0 =>
       entry[fence] \in {"retiring", "retired", "rollback_target_disabled"}
  /\ \A m \in Migrations : entry[m] = "retired" => fence = m

MigrationInvariant ==
  /\ JournalTypeOK
  /\ Apart
  /\ \A m \in Migrations : RowAgrees(m)
  /\ OneActive
  /\ \A p \in Procs : MigratorInv(p) /\ RestorerInv(p)
  /\ FenceFits

\* Nothing is migrated at first.
LEMMA InitMigration == Init => MigrationInvariant
  BY MigrationAssumption
  DEF Init, MigrationInvariant, JournalTypeOK, Apart, RowAgrees, OneActive,
      Active,       MigratorInv, RestorerInv, FenceFits, States, Entries, Phases, Migrating,
      RollingBack, Restoring, Migrations

\* Every call, append, crash and change of the target keeps journal, file and
\* processes in step.
LEMMA StepMigration ==
  MigrationInvariant /\ [Next]_vars => MigrationInvariant'
<1> SUFFICES ASSUME MigrationInvariant, [Next]_vars
             PROVE  MigrationInvariant'
  OBVIOUS
<1> USE MigrationAssumption
    DEF MigrationInvariant, JournalTypeOK, Apart, RowAgrees, OneActive,
      Active,         MigratorInv, RestorerInv, FenceFits, States, Entries, Phases,
        Migrating, RollingBack, Restoring, Migrations, StoreIsFree, Go, See,
        Leave, Both, Drained, journalVars, targetVars, sourceVars, procVars,
        boundVars
<1>t. JournalTypeOK
  OBVIOUS
<1>o. OneActive
  OBVIOUS
<1>r. ASSUME NEW n \in Migrations, NEW m \in Migrations,
             NEW s \in {"applied", "verified", "retiring", "retired"},
             UNCHANGED <<state, entry>> \/ Both(m, s)
      PROVE  RowAgrees(n)'
  <2>1. RowAgrees(n)
    OBVIOUS
  <2> HIDE DEF MigrationInvariant, Apart, OneActive, MigratorInv, RestorerInv,
               FenceFits
  <2> QED
    BY <1>r, <1>t, <2>1
<1>1. ASSUME NEW p \in Procs, StartMigrating(p)
      PROVE  MigrationInvariant'
  BY <1>1 DEF StartMigrating
<1>2. ASSUME NEW p \in Procs, Find(p)
      PROVE  MigrationInvariant'
  <2>1. JournalTypeOK'
    <3> HIDE DEF MigrationInvariant, Apart, RowAgrees, OneActive, MigratorInv,
                 RestorerInv, FenceFits
    <3>1. state' \in [Migrations -> States] /\ entry' \in [Migrations -> Entries]
      BY <1>2, <1>t DEF Find
    <3>2. pc' \in [Procs -> Phases]
      <4>1. \/ pc' = [pc EXCEPT ![p] = "prepare"]
            \/ pc' = [pc EXCEPT ![p] = "advance"]
        BY <1>2 DEF Find
      <4> QED
        BY <1>t, <4>1
    <3>3. migration' \in [Procs -> 0..MaxMigrations]
      <4>1. \/ migration' = migration
            \/ \E m \in Migrations : migration' = [migration EXCEPT ![p] = m]
        BY <1>2 DEF Find
      <4>2. ASSUME NEW m \in Migrations, migration' = [migration EXCEPT ![p] = m]
            PROVE  migration' \in [Procs -> 0..MaxMigrations]
        <5>1. m \in 0..MaxMigrations
          OBVIOUS
        <5>2. migration \in [Procs -> 0..MaxMigrations]
          BY <1>t
        <5> QED
          BY <4>2, <5>1, <5>2
      <4> QED
        BY <1>t, <4>1, <4>2
    <3>5. saw' \in [Procs -> States \cup {"none"}]
      BY <1>2, <1>t DEF Find
    <3>4. lock' \in Procs \cup {None} /\ fence' = fence /\ countBefore' = countBefore
      BY <1>2, <1>t DEF Find
    <3> QED
      BY <1>t, <3>1, <3>2, <3>3, <3>4, <3>5
  <2>6. Apart'
    BY <1>2 DEF Find
  <2>2. ASSUME NEW n \in Migrations PROVE RowAgrees(n)'
    BY <1>2 DEF Find
  <2>7. OneActive'
    <3>1. \A k \in Migrations :
            entry'[k] \notin {"absent", "rolled_back"} =>
              entry[k] \notin {"absent", "rolled_back"}
      BY <1>2 DEF Find
    <3> QED
      BY <3>1, <1>o
  <2>3. FenceFits'
    BY <1>2 DEF Find
  <2>4. ASSUME NEW q \in Procs PROVE MigratorInv(q)'
    BY <1>2 DEF Find
  <2>5. ASSUME NEW q \in Procs PROVE RestorerInv(q)'
    BY <1>2 DEF Find
  <2> QED
    BY <2>1, <2>2, <2>3, <2>4, <2>5, <2>6, <2>7
<1>3. ASSUME NEW p \in Procs, Prepare(p)
      PROVE  MigrationInvariant'
  <2>1. JournalTypeOK'
    <3> HIDE DEF MigrationInvariant, Apart, RowAgrees, OneActive, MigratorInv,
                 RestorerInv, FenceFits
    <3> QED
      BY <1>3, <1>t DEF Prepare
  <2>6. Apart'
    BY <1>3 DEF Prepare
  <2>2. ASSUME NEW n \in Migrations PROVE RowAgrees(n)'
    BY <1>3 DEF Prepare
  <2>7. OneActive'
    <3> HIDE DEF MigrationInvariant, Apart, RowAgrees, MigratorInv,
                 RestorerInv, FenceFits
    <3>1. CASE UNCHANGED entry
      BY <1>o, <3>1
    <3>2. CASE Active = {} /\ \E m \in Migrations : Both(m, "prepared")
      <4>1. PICK m \in Migrations :
              \A k \in Migrations :
                k # m => entry'[k] \in {"absent", "rolled_back"}
        BY <1>t, <3>2
      <4> QED
        BY <4>1
    <3> QED
      BY <1>3, <3>1, <3>2 DEF Prepare
  <2>3. FenceFits'
    BY <1>3 DEF Prepare
  <2>4. ASSUME NEW q \in Procs PROVE MigratorInv(q)'
    BY <1>3 DEF Prepare
  <2>5. ASSUME NEW q \in Procs PROVE RestorerInv(q)'
    BY <1>3 DEF Prepare
  <2> QED
    BY <2>1, <2>2, <2>3, <2>4, <2>5, <2>6, <2>7
<1>4. ASSUME NEW p \in Procs, Apply(p)
      PROVE  MigrationInvariant'
  <2>m. migration[p] \in Migrations
    BY <1>4 DEF Apply
  <2>1. JournalTypeOK'
    <3> HIDE DEF MigrationInvariant, Apart, RowAgrees, OneActive, MigratorInv,
                 RestorerInv, FenceFits
    <3> QED
      BY <1>4, <1>t, <2>m DEF Apply, Stage
  <2>6. Apart'
    BY <1>4 DEF Apply, Stage
  <2>2. ASSUME NEW n \in Migrations PROVE RowAgrees(n)'
    <3> HIDE DEF MigrationInvariant, JournalTypeOK, Apart, RowAgrees, OneActive,
                 MigratorInv, RestorerInv, FenceFits, Both
    <3>1. UNCHANGED <<state, entry>> \/ Both(migration[p], "applied")
      BY <1>4 DEF Apply, Stage
    <3> QED
      BY <1>r, <2>m, <3>1
  <2>7. OneActive'
    <3>1. \A k \in Migrations :
            entry'[k] \notin {"absent", "rolled_back"} =>
              entry[k] \notin {"absent", "rolled_back"}
      BY <1>4 DEF Apply, Stage
    <3> QED
      BY <3>1, <1>o
  <2>3. FenceFits'
    BY <1>4 DEF Apply, Stage
  <2>4. ASSUME NEW q \in Procs PROVE MigratorInv(q)'
    BY <1>4 DEF Apply, Stage
  <2>5. ASSUME NEW q \in Procs PROVE RestorerInv(q)'
    BY <1>4 DEF Apply, Stage
  <2> QED
    BY <2>1, <2>2, <2>3, <2>4, <2>5, <2>6, <2>7
<1>5. ASSUME NEW p \in Procs, Verify(p)
      PROVE  MigrationInvariant'
  <2>m. migration[p] \in Migrations
    BY <1>5 DEF Verify
  <2>1. JournalTypeOK'
    <3> HIDE DEF MigrationInvariant, Apart, RowAgrees, OneActive, MigratorInv,
                 RestorerInv, FenceFits
    <3> QED
      BY <1>5, <1>t, <2>m DEF Verify
  <2>6. Apart'
    BY <1>5 DEF Verify
  <2>2. ASSUME NEW n \in Migrations PROVE RowAgrees(n)'
    <3> HIDE DEF MigrationInvariant, JournalTypeOK, Apart, RowAgrees, OneActive,
                 MigratorInv, RestorerInv, FenceFits, Both
    <3>1. UNCHANGED <<state, entry>> \/ Both(migration[p], "verified")
      BY <1>5 DEF Verify
    <3> QED
      BY <1>r, <2>m, <3>1
  <2>7. OneActive'
    <3>1. \A k \in Migrations :
            entry'[k] \notin {"absent", "rolled_back"} =>
              entry[k] \notin {"absent", "rolled_back"}
      BY <1>5 DEF Verify
    <3> QED
      BY <3>1, <1>o
  <2>3. FenceFits'
    BY <1>5 DEF Verify
  <2>4. ASSUME NEW q \in Procs PROVE MigratorInv(q)'
    BY <1>5 DEF Verify
  <2>5. ASSUME NEW q \in Procs PROVE RestorerInv(q)'
    BY <1>5 DEF Verify
  <2> QED
    BY <2>1, <2>2, <2>3, <2>4, <2>5, <2>6, <2>7
<1>6. ASSUME NEW p \in Procs, BeginRetirement(p)
      PROVE  MigrationInvariant'
  <2>m. migration[p] \in Migrations
    BY <1>6 DEF BeginRetirement
  <2>1. JournalTypeOK'
    <3> HIDE DEF MigrationInvariant, Apart, RowAgrees, OneActive, MigratorInv,
                 RestorerInv, FenceFits
    <3> QED
      BY <1>6, <1>t, <2>m DEF BeginRetirement
  <2>6. Apart'
    BY <1>6 DEF BeginRetirement
  <2>2. ASSUME NEW n \in Migrations PROVE RowAgrees(n)'
    <3> HIDE DEF MigrationInvariant, JournalTypeOK, Apart, RowAgrees, OneActive,
                 MigratorInv, RestorerInv, FenceFits, Both
    <3>1. UNCHANGED <<state, entry>> \/ Both(migration[p], "retiring")
      BY <1>6 DEF BeginRetirement
    <3> QED
      BY <1>r, <2>m, <3>1
  <2>7. OneActive'
    <3>1. \A k \in Migrations :
            entry'[k] \notin {"absent", "rolled_back"} =>
              entry[k] \notin {"absent", "rolled_back"}
      BY <1>6 DEF BeginRetirement
    <3> QED
      BY <3>1, <1>o
  <2>3. FenceFits'
    BY <1>6 DEF BeginRetirement
  <2>4. ASSUME NEW q \in Procs PROVE MigratorInv(q)'
    BY <1>6 DEF BeginRetirement
  <2>5. ASSUME NEW q \in Procs PROVE RestorerInv(q)'
    BY <1>6 DEF BeginRetirement
  <2> QED
    BY <2>1, <2>2, <2>3, <2>4, <2>5, <2>6, <2>7
<1>7. ASSUME NEW p \in Procs, AppendFence(p)
      PROVE  MigrationInvariant'
  BY <1>7 DEF AppendFence
<1>8. ASSUME NEW p \in Procs, AppendMarker(p)
      PROVE  MigrationInvariant'
  BY <1>8 DEF AppendMarker
<1>9. ASSUME NEW p \in Procs, ConfirmRetired(p)
      PROVE  MigrationInvariant'
  <2>m. migration[p] \in Migrations
    BY <1>9 DEF ConfirmRetired
  <2>1. JournalTypeOK'
    <3> HIDE DEF MigrationInvariant, Apart, RowAgrees, OneActive, MigratorInv,
                 RestorerInv, FenceFits
    <3>1. state' \in [Migrations -> States] /\ entry' \in [Migrations -> Entries]
      BY <1>9, <1>t, <2>m DEF ConfirmRetired, Activate
    <3>2. pc' \in [Procs -> Phases]
      <4>1. \/ pc' = [pc EXCEPT ![p] = "idle"]
        BY <1>9 DEF ConfirmRetired
      <4> QED
        BY <1>t, <4>1
    <3>3. migration' \in [Procs -> 0..MaxMigrations]
      BY <1>9, <1>t, <2>m DEF ConfirmRetired
    <3>5. saw' \in [Procs -> States \cup {"none"}]
      BY <1>9, <1>t, <2>m DEF ConfirmRetired
    <3>4. lock' \in Procs \cup {None} /\ fence' = fence /\ countBefore' = countBefore
      BY <1>9, <1>t, <2>m DEF ConfirmRetired, Activate
    <3> QED
      BY <1>t, <3>1, <3>2, <3>3, <3>4, <3>5
  <2>6. Apart'
    BY <1>9 DEF ConfirmRetired, Activate
  <2>2. ASSUME NEW n \in Migrations PROVE RowAgrees(n)'
    <3> HIDE DEF MigrationInvariant, JournalTypeOK, Apart, RowAgrees, OneActive,
                 MigratorInv, RestorerInv, FenceFits, Both
    <3>1. UNCHANGED <<state, entry>> \/ Both(migration[p], "retired")
      BY <1>9 DEF ConfirmRetired, Activate
    <3> QED
      BY <1>r, <2>m, <3>1
  <2>7. OneActive'
    <3>1. \A k \in Migrations :
            entry'[k] \notin {"absent", "rolled_back"} =>
              entry[k] \notin {"absent", "rolled_back"}
      BY <1>9 DEF ConfirmRetired, Activate
    <3> QED
      BY <3>1, <1>o
  <2>3. FenceFits'
    BY <1>9 DEF ConfirmRetired, Activate
  <2>4. ASSUME NEW q \in Procs PROVE MigratorInv(q)'
    BY <1>9 DEF ConfirmRetired, Activate
  <2>5. ASSUME NEW q \in Procs PROVE RestorerInv(q)'
    BY <1>9 DEF ConfirmRetired, Activate
  <2> QED
    BY <2>1, <2>2, <2>3, <2>4, <2>5, <2>6, <2>7
<1>10. ASSUME NEW p \in Procs, NEW m \in Migrations, StartRollback(p, m)
       PROVE  MigrationInvariant'
  BY <1>10 DEF StartRollback, Eligible
<1>11. ASSUME NEW p \in Procs, BeginRollback(p)
       PROVE  MigrationInvariant'
  <2>m. migration[p] \in Migrations
    BY <1>11 DEF BeginRollback
  <2>1. JournalTypeOK'
    <3> HIDE DEF MigrationInvariant, Apart, RowAgrees, OneActive, MigratorInv,
                 RestorerInv, FenceFits
    <3>1. state' \in [Migrations -> States] /\ entry' \in [Migrations -> Entries]
      BY <1>11, <1>t, <2>m DEF BeginRollback, RollbackTarget, DisableTarget
    <3>2. pc' \in [Procs -> Phases]
      <4>1. \/ pc' = [pc EXCEPT ![p] = "idle"]
            \/ pc' = [pc EXCEPT ![p] = "targets"]
        BY <1>11 DEF BeginRollback
      <4> QED
        BY <1>t, <4>1
    <3>3. migration' \in [Procs -> 0..MaxMigrations]
      BY <1>11, <1>t, <2>m DEF BeginRollback
    <3>5. saw' \in [Procs -> States \cup {"none"}]
      BY <1>11, <1>t, <2>m DEF BeginRollback
    <3>4. lock' \in Procs \cup {None} /\ fence' = fence /\ countBefore' = countBefore
      BY <1>11, <1>t, <2>m DEF BeginRollback, RollbackTarget, DisableTarget
    <3> QED
      BY <1>t, <3>1, <3>2, <3>3, <3>4, <3>5
  <2>6. Apart'
    BY <1>11 DEF BeginRollback, RollbackTarget, DisableTarget
  <2>2. ASSUME NEW n \in Migrations PROVE RowAgrees(n)'
    BY <1>11 DEF BeginRollback, RollbackTarget, DisableTarget
  <2>7. OneActive'
    <3>1. \A k \in Migrations :
            entry'[k] \notin {"absent", "rolled_back"} =>
              entry[k] \notin {"absent", "rolled_back"}
      BY <1>11 DEF BeginRollback, RollbackTarget, DisableTarget
    <3> QED
      BY <3>1, <1>o
  <2>3. FenceFits'
    BY <1>11 DEF BeginRollback, RollbackTarget, DisableTarget
  <2>4. ASSUME NEW q \in Procs PROVE MigratorInv(q)'
    BY <1>11 DEF BeginRollback, RollbackTarget, DisableTarget
  <2>5. ASSUME NEW q \in Procs PROVE RestorerInv(q)'
    BY <1>11 DEF BeginRollback, RollbackTarget, DisableTarget
  <2> QED
    BY <2>1, <2>2, <2>3, <2>4, <2>5, <2>6, <2>7
<1>12. ASSUME NEW p \in Procs, RollbackTargets(p)
       PROVE  MigrationInvariant'
  BY <1>12 DEF RollbackTargets, RollbackTarget, DisableTarget
<1>13. ASSUME NEW p \in Procs, OpenRestore(p)
       PROVE  MigrationInvariant'
  <2>m. migration[p] \in Migrations
    BY <1>13 DEF OpenRestore
  <2>1. JournalTypeOK'
    <3> HIDE DEF MigrationInvariant, Apart, RowAgrees, OneActive, MigratorInv,
                 RestorerInv, FenceFits
    <3>1. state' \in [Migrations -> States] /\ entry' \in [Migrations -> Entries]
      BY <1>13, <1>t, <2>m DEF OpenRestore, TargetRolledBack, Staged
    <3>2. pc' \in [Procs -> Phases]
      <4>1. \/ pc' = [pc EXCEPT ![p] = "idle"]
            \/ pc' = [pc EXCEPT ![p] = "config"]
        BY <1>13 DEF OpenRestore
      <4> QED
        BY <1>t, <4>1
    <3>3. migration' \in [Procs -> 0..MaxMigrations]
      BY <1>13, <1>t, <2>m DEF OpenRestore
    <3>5. saw' \in [Procs -> States \cup {"none"}]
      BY <1>13, <1>t, <2>m DEF OpenRestore
    <3>4. lock' \in Procs \cup {None} /\ fence' = fence /\ countBefore' = countBefore
      BY <1>13, <1>t, <2>m DEF OpenRestore, TargetRolledBack, Staged
    <3> QED
      BY <1>t, <3>1, <3>2, <3>3, <3>4, <3>5
  <2>6. Apart'
    BY <1>13 DEF OpenRestore, TargetRolledBack, Staged
  <2>2. ASSUME NEW n \in Migrations PROVE RowAgrees(n)'
    BY <1>13 DEF OpenRestore, TargetRolledBack, Staged
  <2>7. OneActive'
    <3>1. \A k \in Migrations :
            entry'[k] \notin {"absent", "rolled_back"} =>
              entry[k] \notin {"absent", "rolled_back"}
      BY <1>13 DEF OpenRestore, TargetRolledBack, Staged
    <3> QED
      BY <3>1, <1>o
  <2>3. FenceFits'
    BY <1>13 DEF OpenRestore, TargetRolledBack, Staged
  <2>4. ASSUME NEW q \in Procs PROVE MigratorInv(q)'
    BY <1>13 DEF OpenRestore, TargetRolledBack, Staged
  <2>5. ASSUME NEW q \in Procs PROVE RestorerInv(q)'
    BY <1>13 DEF OpenRestore, TargetRolledBack, Staged
  <2> QED
    BY <2>1, <2>2, <2>3, <2>4, <2>5, <2>6, <2>7
<1>14. ASSUME NEW p \in Procs, RestoreConfig(p)
       PROVE  MigrationInvariant'
  BY <1>14 DEF RestoreConfig
<1>15. ASSUME NEW p \in Procs, RestoreMarker(p)
       PROVE  MigrationInvariant'
  BY <1>15 DEF RestoreMarker
<1>16. ASSUME NEW p \in Procs, CommitRestore(p)
       PROVE  MigrationInvariant'
  BY <1>16 DEF CommitRestore
<1>17. ASSUME NEW p \in Procs, Stop(p)
       PROVE  MigrationInvariant'
  BY <1>17 DEF Stop
<1>18. CASE ChangeTarget
  BY <1>18 DEF ChangeTarget
<1>19. CASE Execute
  BY <1>19 DEF Execute
<1>20. CASE UNCHANGED vars
  BY <1>20 DEF vars
<1> QED
  BY <1>1, <1>2, <1>3, <1>4, <1>5, <1>6, <1>7, <1>8, <1>9, <1>10, <1>11,
     <1>12, <1>13, <1>14, <1>15, <1>16, <1>17, <1>18, <1>19, <1>20
  DEF Next, Proceed, Refused, Crash

\* A retired migration keeps its source fenced.
THEOREM RetiredSourcesAreFenced == Spec => []RetiredMeansFenced
<1>1. MigrationInvariant => RetiredMeansFenced
  BY DEF MigrationInvariant, RowAgrees, FenceFits, RetiredMeansFenced
<1> QED
  BY <1>1, InitMigration, StepMigration, PTL DEF Spec

\* A migration rolled back has left no fence.
THEOREM RolledBackSourcesAreLive == Spec => []RolledBackMeansLive
<1>1. MigrationInvariant => RolledBackMeansLive
  BY DEF MigrationInvariant, JournalTypeOK, RowAgrees, FenceFits, Migrations,
         RolledBackMeansLive
<1> QED
  BY <1>1, InitMigration, StepMigration, PTL DEF Spec

\* Only the restore lifts a fence.
LEMMA FenceIsLiftedByRestore ==
  ASSUME MigrationInvariant, [Next]_vars, fence # 0, fence' = 0
  PROVE  \E p \in Procs : RestoreConfig(p)
<1>1. ASSUME NEW p \in Procs, AppendFence(p)
      PROVE  FALSE
  <2>1. pc[p] = "advance"
    BY <1>1 DEF AppendFence
  <2>2. migration[p] \in Migrations
    BY <2>1 DEF MigrationInvariant, MigratorInv
  <2> QED
    BY <1>1, <2>2, MigrationAssumption DEF AppendFence, Migrations, sourceVars
<1>2. ASSUME NEW p \in Procs, NEW m \in Migrations,
             StartMigrating(p) \/ StartRollback(p, m) \/ Stop(p)
      PROVE  FALSE
  BY <1>2 DEF StartMigrating, StartRollback, Stop, sourceVars
<1>3. ASSUME NEW p \in Procs,
             \/ Find(p) \/ Prepare(p) \/ Apply(p) \/ Verify(p)
             \/ BeginRetirement(p) \/ AppendMarker(p) \/ ConfirmRetired(p)
      PROVE  FALSE
  BY <1>3
  DEF Find, Prepare, Apply, Verify, BeginRetirement, AppendMarker,
      ConfirmRetired, sourceVars
<1>4. ASSUME NEW p \in Procs,
             \/ BeginRollback(p) \/ RollbackTargets(p) \/ OpenRestore(p)
             \/ RestoreMarker(p) \/ CommitRestore(p)
      PROVE  FALSE
  BY <1>4
  DEF BeginRollback, RollbackTargets, OpenRestore, RestoreMarker,
      CommitRestore, sourceVars
<1>5. ~ ChangeTarget /\ ~ Execute /\ ~ UNCHANGED vars
  BY DEF ChangeTarget, Execute, vars, sourceVars
<1>6. 1 \in Migrations
  BY MigrationAssumption DEF Migrations
<1> QED
  BY <1>1, <1>2, <1>3, <1>4, <1>5, <1>6 DEF Next, Proceed, Refused, Crash

\* The target is disabled, and stays so, before its source is restored.
THEOREM TargetsStopFirst == Spec => TargetStopsFirst
<1>1. ASSUME MigrationInvariant, [Next]_vars, fence # 0, fence' = 0
      PROVE  ~ enabled
  <2>1. PICK p \in Procs : RestoreConfig(p)
    BY <1>1, FenceIsLiftedByRestore
  <2>2. pc[p] = "config" /\ fence = migration[p]
    BY <1>1, <2>1 DEF RestoreConfig
  <2>3. /\ fence \in Migrations
        /\ state[fence] = "rolling_back"
        /\ entry[fence] = "rollback_target_disabled" => ~ enabled
    BY <1>1, <2>2
    DEF MigrationInvariant, RestorerInv, Restoring, RollingBack
  <2>4. entry[fence] \in {"retiring", "retired", "rollback_target_disabled"}
    BY <1>1 DEF MigrationInvariant, FenceFits
  <2>5. RowAgrees(fence)
    BY <1>1, <2>3 DEF MigrationInvariant
  <2> QED
    BY <2>3, <2>4, <2>5 DEF RowAgrees
<1>2. MigrationInvariant /\ [Next]_vars =>
        [fence # 0 /\ fence' = 0 => ~ enabled]_vars
  BY <1>1
<1> QED
  BY <1>2, InitMigration, StepMigration, PTL DEF Spec, TargetStopsFirst

\* Nothing the target executed is handed back to the file.
THEOREM NothingRunsBeforeRestore == Spec => NothingRanBeforeRestore
<1>1. ASSUME MigrationInvariant, [Next]_vars, NEW m \in Migrations,
             entry[m] = "rollback_target_disabled", entry'[m] = "rolled_back"
      PROVE  executions = countBefore[m]
  <2>t. entry \in [Migrations -> Entries]
    BY <1>1 DEF MigrationInvariant, JournalTypeOK
  <2>1. ASSUME NEW p \in Procs,
               \/ Find(p) \/ Prepare(p) \/ Apply(p) \/ Verify(p)
               \/ BeginRetirement(p) \/ AppendFence(p) \/ AppendMarker(p)
               \/ ConfirmRetired(p)
        PROVE  FALSE
    BY <1>1, <2>1, <2>t
    DEF Find, Prepare, Apply, Stage, Verify, BeginRetirement, AppendFence,
        AppendMarker, ConfirmRetired, Both, journalVars
  <2>2. ASSUME NEW p \in Procs,
               \/ BeginRollback(p) \/ RollbackTargets(p) \/ OpenRestore(p)
               \/ RestoreConfig(p) \/ RestoreMarker(p)
        PROVE  FALSE
    BY <1>1, <2>2, <2>t
    DEF BeginRollback, RollbackTargets, RollbackTarget, DisableTarget,
        OpenRestore, RestoreConfig, RestoreMarker, journalVars
  <2>3. ASSUME NEW p \in Procs, NEW n \in Migrations,
               StartMigrating(p) \/ StartRollback(p, n) \/ Stop(p)
        PROVE  FALSE
    BY <1>1, <2>3 DEF StartMigrating, StartRollback, Stop, journalVars
  <2>4. ~ ChangeTarget /\ ~ Execute /\ ~ UNCHANGED vars
    BY <1>1 DEF ChangeTarget, Execute, vars, journalVars
  <2>5. PICK p \in Procs : CommitRestore(p)
    BY <1>1, <2>1, <2>2, <2>3, <2>4 DEF Next, Proceed, Refused, Crash
  <2>6. m = migration[p] /\ pc[p] = "commit"
    BY <1>1, <2>5, <2>t DEF CommitRestore, Both
  <2> QED
    BY <1>1, <2>6 DEF MigrationInvariant, RestorerInv, Restoring
<1>2. MigrationInvariant /\ [Next]_vars =>
        [\A m \in Migrations :
           entry[m] = "rollback_target_disabled" /\ entry'[m] = "rolled_back"
             => executions = countBefore[m]]_vars
  BY <1>1
<1> QED
  BY <1>2, InitMigration, StepMigration, PTL DEF Spec, NothingRanBeforeRestore
=============================================================================
