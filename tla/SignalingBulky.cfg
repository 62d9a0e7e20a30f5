SPECIFICATION Spec
CONSTANTS
    c1 = c1  c2 = c2  c3 = c3  p1 = p1  p2 = p2
    Conns = {c1, c2}
    Peers = {p1, p2}
    None = None
    Kinds = {"bulky"}
    MaxMessages = 1
    Watched = FALSE
    Limits <- OneQueue
SYMMETRY Symmetry
CHECK_DEADLOCK FALSE
INVARIANTS
    NoBacklogWhileOnline
