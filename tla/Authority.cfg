\* Two occurrences of one job compete for one run per window; they are retried
\* and adjudicated, either way, while the policy is replaced.
CONSTANTS
  None = None
  Jobs = {j1}
  OnceJobs = {j1}
  Triggers = {t1, t2}
  Owners = {w1, w2}
  PauseRequests = {}
  ResumeRequests = {}
  RetryRequests = {}
  LeaseLengths = {1}
  MaxDelay = 0
  MaxLag = 0
  AttemptChoices = {2}
  AttemptLimit = 32
  MaxJobRevision = 1
  MaxFence = 3
  DefaultRuns = 1
  RunBudgets = {1}
  MaxPolicyRevision = 2
  MaxWindow = 1
SPECIFICATION AuthoritySpec
SYMMETRY Symmetry
INVARIANTS
  UsageMatchesReservations
  StartsWithinBudget
  ReplacedPolicyNeverRuns
  ReservationFollowsOutcome
