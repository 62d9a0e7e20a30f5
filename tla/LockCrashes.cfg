SPECIFICATION Spec
CONSTANTS
    a = a  b = b  c = c  d = d
    Calls = {a, b, c, d}
    None = None
    Torn = Torn
    Handoff = FALSE
    KillPoints = {"body", "midWrite"}
    MaxTransients = 1
SYMMETRY Symmetry
CHECK_DEADLOCK FALSE
INVARIANTS
    MutualExclusion
PROPERTIES
    DetachesWhatItClaimed
