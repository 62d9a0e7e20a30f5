\* The same loop, paused and resumed once.
CONSTANTS
  None = None
  Jobs = {j1}
  OnceJobs = {j1}
  Triggers = {t1}
  Owners = {w1, w2}
  PauseRequests = {p1}
  ResumeRequests = {r1}
  RetryRequests = {}
  LeaseLengths = {1}
  MaxDelay = 0
  MaxLag = 1
  AttemptChoices = {2}
  AttemptLimit = 32
  MaxJobRevision = 1
  MaxFence = 4
SPECIFICATION RuntimeSpec
SYMMETRY OwnerSymmetry
INVARIANT ReplayOnlyWhenPermitted
