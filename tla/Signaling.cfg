SPECIFICATION FairSpec
CONSTANTS
    c1 = c1  c2 = c2  c3 = c3  p1 = p1  p2 = p2
    Conns = {c1, c2}
    Peers = {p1, p2}
    None = None
    Kinds = {"plain", "long"}
    MaxMessages = 2
    Watched = TRUE
    Limits <- TightLimits
CHECK_DEADLOCK FALSE
INVARIANTS
    StoreCountsRight
    RegistrationMatchesSockets
    NoBacklogWhileOnline
    WrittenInOrder
PROPERTIES
    LossClosesTarget
    SilentConnectionsLeave
