SPECIFICATION Spec
CONSTANTS
    a = a  b = b  c = c  d = d
    Calls = {a, b}
    None = None
    Torn = Torn
    Handoff = FALSE
    KillPoints = {}
    MaxTransients = 1
SYMMETRY Symmetry
CHECK_DEADLOCK FALSE
INVARIANTS
    OwnershipNeverLost
