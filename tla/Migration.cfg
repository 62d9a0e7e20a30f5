\* Two attempts, two processes, a crash, and a client that meddles with the
\* target; what is interrupted is taken up again.
CONSTANTS
  None = None
  Procs = {p1, p2}
  MaxMigrations = 2
  MaxChanges = 1
  MaxExecutions = 1
  MaxCrashes = 1
SPECIFICATION FairSpec
INVARIANTS
  RetiredMeansFenced
  RolledBackMeansLive
PROPERTIES
  TargetStopsFirst
  MigrationSettles
  RollbackCompletes
