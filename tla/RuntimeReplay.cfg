\* Two hosts of one loop: crashes, lost leases, a requeue and adjudication, and
\* every occurrence ends all the same.
CONSTANTS
  None = None
  Jobs = {j1}
  OnceJobs = {}
  Triggers = {t1}
  Owners = {w1, w2}
  PauseRequests = {}
  ResumeRequests = {}
  RetryRequests = {q1}
  LeaseLengths = {1, 2}
  MaxDelay = 0
  MaxLag = 1
  AttemptChoices = {1, 2, 3}
  AttemptLimit = 32
  MaxJobRevision = 1
  MaxFence = 6
SPECIFICATION FairRuntimeSpec
INVARIANTS
  ReplayOnlyWhenPermitted
  OneRunnerAtATime
PROPERTIES
  ConfirmedAppliedNeverReplays
  EveryOccurrenceSettles
