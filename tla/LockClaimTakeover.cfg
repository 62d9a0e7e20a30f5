SPECIFICATION Spec
CONSTANTS
    a = a  b = b  c = c  d = d
    Calls = {a, b, c, d}
    None = None
    Torn = Torn
    Handoff = FALSE
    KillPoints = {"body", "detach"}
    MaxTransients = 0
SYMMETRY Symmetry
CHECK_DEADLOCK FALSE
PROPERTIES
    DetachesWhatItClaimed
