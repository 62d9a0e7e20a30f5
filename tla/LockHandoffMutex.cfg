SPECIFICATION Spec
CONSTANTS
    a = a  b = b  c = c  d = d
    Calls = {a, b, c}
    None = None
    Torn = Torn
    Handoff = TRUE
    KillPoints = {}
    MaxTransients = 0
SYMMETRY Symmetry
CHECK_DEADLOCK FALSE
INVARIANTS
    MutualExclusion
