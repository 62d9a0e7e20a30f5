SPECIFICATION Spec
CONSTANTS
    a = a  b = b  c = c  r1 = r1  r2 = r2
    None = None
    Procs = {a, b}
    Requests = {r1, r2}
    MaxTokens = 2
    MaxRevocations = 2
    MaxFaults = 1
    PowerFails = TRUE
    Unleased = FALSE
SYMMETRY Symmetry
CHECK_DEADLOCK FALSE
INVARIANTS
    ReplayIsExact
