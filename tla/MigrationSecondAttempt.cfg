\* The second attempt to migrate a source that was rolled back once.
CONSTANTS
  None = None
  Procs = {p1}
  MaxMigrations = 2
  MaxChanges = 0
  MaxExecutions = 0
  MaxCrashes = 1
SPECIFICATION Spec
INVARIANT
  RollbackCanBeginWhileRetiring
