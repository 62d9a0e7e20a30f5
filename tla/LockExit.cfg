SPECIFICATION Spec
CONSTANTS
    a = a  b = b  c = c  d = d
    Calls = {a, b, c}
    None = None
    Torn = Torn
    Handoff = FALSE
    KillPoints = {"released"}
    MaxTransients = 1
SYMMETRY Symmetry
CHECK_DEADLOCK FALSE
PROPERTIES
    DetachesWhatItClaimed
