\* One trigger of a revised job under every operation: pause, resume, requeue,
\* adjudicate; two operators requeue.
CONSTANTS
  None = None
  Jobs = {j1}
  OnceJobs = {j1}
  Triggers = {t1}
  Owners = {w1, w2}
  PauseRequests = {p1, p2}
  ResumeRequests = {r1, r2}
  RetryRequests = {q1, q2}
  LeaseLengths = {1}
  MaxDelay = 1
  MaxLag = 1
  AttemptChoices = {1, 2}
  AttemptLimit = 4
  MaxJobRevision = 2
  MaxFence = 5
SPECIFICATION Spec
SYMMETRY Symmetry
INVARIANTS
  SchemaHolds
  ControlMatchesOccurrence
  PendingAdjudicationBinds
  ClaimsAccountedFor
PROPERTIES
  PausedUntilResumed
  ImplementsFencedLease
