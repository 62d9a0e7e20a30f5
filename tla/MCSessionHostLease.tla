------------------------- MODULE MCSessionHostLease -------------------------
EXTENDS SessionHostLease, TLC

CONSTANTS a, b, c, r1, r2

Symmetry == Permutations(Procs) \cup Permutations(Requests)
=============================================================================
