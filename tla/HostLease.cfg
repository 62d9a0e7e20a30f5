SPECIFICATION FairSpec
CONSTANTS
    a = a  b = b  c = c  r1 = r1  r2 = r2
    None = None
    Procs = {a, b}
    Requests = {r1, r2}
    MaxTokens = 3
    MaxRevocations = 1
    MaxFaults = 1
    PowerFails = TRUE
    Unleased = TRUE
CHECK_DEADLOCK FALSE
INVARIANTS
    OverlapOnlyAfterRevocation
    LiveLeaseIsHosted
    RequestRevokesOnce
PROPERTIES
    LeasedWritesGoForward
    RevokedHostStops
