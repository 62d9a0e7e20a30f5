SPECIFICATION Spec
CONSTANTS
    a = a  b = b  c = c  r1 = r1  r2 = r2
    None = None
    Procs = {a, b}
    Requests = {r1, r2}
    MaxTokens = 2
    MaxRevocations = 1
    MaxFaults = 0
    PowerFails = FALSE
    Unleased = TRUE
SYMMETRY Symmetry
CHECK_DEADLOCK FALSE
PROPERTIES
    NoWriteBesideHost
