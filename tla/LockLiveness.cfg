SPECIFICATION FairSpec
CONSTANTS
    a = a  b = b  c = c  d = d
    Calls = {a, b, c}
    None = None
    Torn = Torn
    Handoff = TRUE
    KillPoints <- DuringRemoval
    MaxTransients = 0
CHECK_DEADLOCK FALSE
PROPERTIES
    AbandonedLockIsFreed
