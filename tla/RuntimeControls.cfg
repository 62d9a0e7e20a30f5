\* Pauses, resumes, requeues, adjudication and a revised job, with executors.
CONSTANTS
  None = None
  Jobs = {j1}
  OnceJobs = {j1}
  Triggers = {t1}
  Owners = {w1, w2}
  PauseRequests = {p1}
  ResumeRequests = {r1}
  RetryRequests = {q1}
  LeaseLengths = {1}
  MaxDelay = 0
  MaxLag = 1
  AttemptChoices = {1, 2}
  AttemptLimit = 32
  MaxJobRevision = 2
  MaxFence = 5
SPECIFICATION RuntimeSpec
SYMMETRY OwnerSymmetry
INVARIANTS
  ClaimsKeepTheirBindings
  OneOccurrencePerTrigger
  StartsAccountedFor
