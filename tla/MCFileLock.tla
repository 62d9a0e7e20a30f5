----------------------------- MODULE MCFileLock -----------------------------
EXTENDS FileLock, TLC

CONSTANTS a, b, c, d

Symmetry == Permutations(Calls)

\* Everywhere except between publishing a claim or a marker and its removal.
BeforeClaims == {"try", "look", "checkMarker", "findClaim", "writeClaim", "wait",
                 "midWrite", "body", "relCheck", "relRename"}

\* In the body, and between publishing a claim and the removal.
DuringRemoval == {"body", "staged", "recheck", "detach", "unlink"}
=============================================================================
