---------------------------- MODULE FileLockProofs ----------------------------
(***************************************************************************)
(* Theorems about FileLock, for any number of calls: what holds under the  *)
(* circumstances the protocol copes with.  They are named by Benign: no    *)
(* handoff published by a body, no process dies while it holds a claim,    *)
(* and renames fail transiently only where no process dies at all.  Each   *)
(* of the three is needed: without it TLC finds a directory renamed away   *)
(* under a live owner.                                                     *)
(*                                                                         *)
(* The argument: a call owns the directory at most once in its life, so a  *)
(* directory is told by its owner.  Whoever is about to rename it away     *)
(* has its own claim inside it, one claim of a kind can exist, and the two *)
(* kinds exclude each other: a reclaim needs a dead owner, a release claim *)
(* a marker that only a live one can have published.                       *)
(***************************************************************************)
EXTENDS FileLock, TLAPS

Benign ==
    /\ ~Handoff
    /\ KillPoints \cap (ClaimPoints \cup {"relRecheck"}) = {}
    /\ MaxTransients = 0 \/ KillPoints = {}

Holding   == {"body", "relCheck", "relRename", "relMarker"}
Removing  == {"checkMarker", "findClaim", "writeClaim"} \cup ClaimPoints
Afterward == {"relRecheck", "released", "lost"}

\* The call has owned the directory, and so never acquires it again.
Entered(c) ==
    \/ pc[c] \in Holding \cup Afterward
    \/ pc[c] \in Removing /\ victim[c] = c

NothingStaged ==
    staging = {} /\ published = {} /\ \A c \in Calls : pc[c] # "staged"

\* Release markers need a transient failure, and then nobody dies.
NoDeathAfterTransients ==
    /\ KillPoints = {} => alive = Calls
    /\ MaxTransients = 0 =>
         /\ \A c \in Calls : pc[c] \notin {"relMarker", "relRecheck"}
         /\ \A m \in markers : m.kind # "release"

ClaimantsLive == \A c \in Calls : pc[c] \in ClaimPoints => c \in alive

HolderOwns ==
    \A c \in Calls : c \in alive /\ pc[c] \in Holding =>
        owner = c /\ ~HasMarker("release", c)

OwnerEntered == owner # None => Entered(owner)

VictimEntered ==
    \A c \in Calls :
        /\ victim[c] # None => Entered(victim[c])
        /\ pc[c] \in Removing => victim[c] # None

\* A claim file belongs to a call that is at work on just this claim.
ClaimsHeld ==
    \A m \in markers : m.kind \in Claims /\ m.by # Torn =>
        pc[m.by] \in ClaimPoints /\ claim[m.by] = m.kind /\
           victim[m.by] = m.of

\* Nobody is found dead with a claim, so a call unlinks only its own.
OwnClaimUnlinked ==
    \A c \in Calls : pc[c] \in {"reread", "unlink"} => rival[c] = c

\* As long as the directory is still the victim's, the claim is inside it.
ClaimInPlace ==
    \A c \in Calls :
        pc[c] \in {"recheck", "detach", "unlink"} /\ owner = victim[c] =>
            ClaimedBy(claim[c], victim[c], c)

\* And so is the release marker a release claim was written for.
ReleaseInPlace ==
    \A c \in Calls :
        /\ pc[c] \in {"findClaim", "writeClaim", "recheck", "detach"}
        /\ claim[c] = "releaseClaim"
        /\ owner = victim[c]
        => Marker("release", victim[c], victim[c]) \in markers

\* Without transient failures no call removes its own directory by a claim.
OwnershipKept ==
    MaxTransients = 0 => \A c \in Calls : victim[c] # c /\ pc[c] # "lost"

DetachJustified ==
    \A c \in Calls : pc[c] = "detach" => StillRemovable(c)

LockInvariant ==
    /\ LockTypeOK /\ NothingStaged /\ NoDeathAfterTransients /\ ClaimantsLive
    /\ HolderOwns /\ OwnerEntered /\ VictimEntered
    /\ ClaimsHeld /\ OwnClaimUnlinked /\ ClaimInPlace /\ ReleaseInPlace
    /\ DetachJustified /\ OwnershipKept

-----------------------------------------------------------------------------

\* Nobody has the lock in the beginning.
LEMMA InitEstablishes == Init => LockInvariant
  BY ConstantsAssumption DEF Init, LockInvariant, LockTypeOK,
     NothingStaged, NoDeathAfterTransients,
     ClaimantsLive, HolderOwns, OwnerEntered, VictimEntered, ClaimsHeld,
     OwnClaimUnlinked, ClaimInPlace, ReleaseInPlace, DetachJustified,
        OwnershipKept,
     Points, Holding, Removing, Afterward, Entered, ClaimPoints,
        ReleasePoints, Ended, Claims

\* No step leaves the invariant.
LEMMA StepPreserves ==
  ASSUME Benign, LockInvariant, [Next]_vars
  PROVE  LockInvariant'
<1> USE ConstantsAssumption
    DEF LockInvariant, LockTypeOK, NothingStaged, NoDeathAfterTransients,
        ClaimantsLive, HolderOwns, OwnerEntered, VictimEntered, ClaimsHeld,
        OwnClaimUnlinked, ClaimInPlace, ReleaseInPlace,
           DetachJustified, OwnershipKept,
        Benign, Points, Holding, Removing, Afterward, Entered, ClaimPoints,
        ReleasePoints, Ended, Claims, Markers, At, Goto, Marker, HasMarker,
        ClaimedBy, StillRemovable, dirVars, localVars, bodyVars
<1>1. ASSUME NEW c \in Calls, Acquire(c) PROVE LockInvariant'
  BY <1>1 DEF Acquire
<1>2. ASSUME NEW c \in Calls, Contend(c) PROVE LockInvariant'
  BY <1>2 DEF Contend
<1>3. ASSUME NEW c \in Calls, Look(c) PROVE LockInvariant'
  BY <1>3 DEF Look
<1>4. ASSUME NEW c \in Calls, Retry(c) PROVE LockInvariant'
  BY <1>4 DEF Retry
<1>5. ASSUME NEW c \in Calls, GiveUp(c) PROVE LockInvariant'
  BY <1>5 DEF GiveUp
<1>6. ASSUME NEW c \in Calls, CheckMarker(c) PROVE LockInvariant'
  BY <1>6 DEF CheckMarker, Releasing, ReadyToRelease
<1>7. ASSUME NEW c \in Calls, FindClaim(c) PROVE LockInvariant'
  BY <1>7 DEF FindClaim, Leave, ClaimAfter, Releasing, NotCompleted
<1>8. ASSUME NEW c \in Calls, WriteClaim(c) PROVE LockInvariant'
  BY <1>8 DEF WriteClaim, Leave, ClaimAfter, Releasing, NotCompleted,
     Completed
<1>9. ASSUME NEW c \in Calls, Recheck(c) PROVE LockInvariant'
  BY <1>9 DEF Recheck
<1>10. ASSUME NEW c \in Calls, Detach(c) PROVE LockInvariant'
  <2> USE DEF Detach, Releasing, Completed
  <2>1. /\ owner = victim[c] /\ victim[c] \in Calls
        /\ Marker(claim[c], victim[c], c) \in markers
    BY <1>10
  <2>2. \A d \in Calls : d \in alive /\ pc[d] \in Holding => owner # d
    <3>1. CASE claim[c] = "reclaim"
      BY <1>10, <2>1, <3>1
    <3>2. CASE claim[c] = "releaseClaim"
      <4>1. Marker("release", victim[c], victim[c]) \in markers
        BY <1>10, <2>1, <3>2
      <4> QED
        BY <2>1, <4>1
    <3> QED
      BY <3>1, <3>2
  <2>3. \A d \in Calls \ {c} : pc[d] # "detach"
    <3> SUFFICES ASSUME NEW d \in Calls \ {c}, pc[d] = "detach" PROVE FALSE
      OBVIOUS
    <3>1. victim[d] = victim[c] /\ Marker(claim[d], victim[c], d) \in markers
      BY <2>1
    <3>2. CASE claim[d] = claim[c]
      BY <2>1, <3>1, <3>2
    <3>3. CASE claim[d] # claim[c]
      <4>1. victim[c] \notin alive
        BY <1>10, <3>1, <3>3
      <4>2. Marker("release", victim[c], victim[c]) \in markers
        BY <1>10, <2>1, <3>1, <3>3
      <4> QED
        BY <4>1, <4>2
    <3> QED
      BY <3>2, <3>3
  <2>4. LockTypeOK' /\ NothingStaged' /\ NoDeathAfterTransients' /\ OwnershipKept'
    BY <1>10
  <2>5. ClaimantsLive' /\ HolderOwns' /\ OwnerEntered'
    BY <1>10, <2>2
  <2>6. VictimEntered'
    BY <1>10
  <2>7. ClaimsHeld' /\ OwnClaimUnlinked'
    BY <1>10
  <2>8. ClaimInPlace' /\ ReleaseInPlace' /\ DetachJustified'
    BY <1>10, <2>3
  <2> QED
    BY <2>4, <2>5, <2>6, <2>7, <2>8
<1>11. ASSUME NEW c \in Calls, DetachFails(c) PROVE LockInvariant'
  BY <1>11 DEF DetachFails
<1>12. ASSUME NEW c \in Calls, Reread(c) PROVE LockInvariant'
  BY <1>12 DEF Reread, Leave, ClaimAfter, Releasing, NotCompleted
<1>13. ASSUME NEW c \in Calls, Unlink(c) PROVE LockInvariant'
  <2> USE DEF Unlink, ClaimAfter, Releasing, NotCompleted
  <2>1. rival[c] = c
    BY <1>13
  <2>2. LockTypeOK' /\ NothingStaged' /\ NoDeathAfterTransients' /\ OwnershipKept'
    BY <1>13, <2>1
  <2>3. ClaimantsLive' /\ HolderOwns' /\ OwnerEntered' /\ VictimEntered'
    BY <1>13, <2>1
  <2>4. ClaimsHeld' /\ OwnClaimUnlinked'
    BY <1>13, <2>1
  <2>5. ClaimInPlace'
    <3> SUFFICES ASSUME NEW d \in Calls \ {c}, owner = victim[d],
                        pc[d] \in {"recheck", "detach", "unlink"}
                 PROVE  Marker(claim[d], victim[d], d) \in markers'
      BY <1>13, <2>1
    <3>1. Marker(claim[d], victim[d], d) \in markers
      OBVIOUS
    <3>2. ASSUME claim[d] = claim[c], victim[d] = victim[c] PROVE FALSE
      <4>1. Marker(claim[c], victim[c], c) \in markers
        BY <1>13, <3>2
      <4> QED
        BY <3>1, <3>2, <4>1
    <3> QED
      BY <1>13, <3>1, <3>2
  <2>6. ReleaseInPlace' /\ DetachJustified'
    BY <1>13, <2>1
  <2> QED
    BY <2>2, <2>3, <2>4, <2>5, <2>6
<1>14. ASSUME NEW c \in Calls, Publish(c) PROVE LockInvariant'
  BY <1>14 DEF Publish
<1>15. ASSUME NEW c \in Calls, EndBody(c) PROVE LockInvariant'
  BY <1>15 DEF EndBody
<1>16. ASSUME NEW c \in Calls, ReleaseCheck(c) PROVE LockInvariant'
  BY <1>16 DEF ReleaseCheck, Gone
<1>17. ASSUME NEW c \in Calls, ReleaseRename(c) PROVE LockInvariant'
  <2> USE DEF ReleaseRename, Gone
  <2>1. c \in alive /\ owner = c /\ ~HasMarker("release", c)
    BY <1>17
  <2>2. ASSUME NEW d \in Calls, pc[d] = "detach" PROVE FALSE
    <3>1. owner = victim[d] /\ victim[d] = c
      BY <2>1, <2>2
    <3>2. CASE claim[d] = "reclaim"
      BY <2>1, <2>2, <3>1, <3>2
    <3>3. CASE claim[d] = "releaseClaim"
      <4>1. Marker("release", c, c) \in markers
        BY <2>2, <3>1, <3>3
      <4> QED
        BY <2>1, <4>1
    <3> QED
      BY <3>2, <3>3
  <2>3. LockTypeOK' /\ NothingStaged' /\ NoDeathAfterTransients' /\ OwnershipKept'
    BY <1>17
  <2>4. ClaimantsLive' /\ HolderOwns' /\ OwnerEntered'
    BY <1>17, <2>1
  <2>5. VictimEntered'
    BY <1>17
  <2>6. ClaimsHeld' /\ OwnClaimUnlinked'
    BY <1>17
  <2>7. ClaimInPlace' /\ ReleaseInPlace' /\ DetachJustified'
    BY <1>17, <2>2
  <2> QED
    BY <2>3, <2>4, <2>5, <2>6, <2>7
<1>18. ASSUME NEW c \in Calls, ReleaseRenameFails(c) PROVE LockInvariant'
  BY <1>18 DEF ReleaseRenameFails
<1>19. ASSUME NEW c \in Calls, ReleaseMarker(c) PROVE LockInvariant'
  BY <1>19 DEF ReleaseMarker, Gone
<1>20. ASSUME NEW c \in Calls, ReleaseRecheck(c) PROVE LockInvariant'
  BY <1>20 DEF ReleaseRecheck
<1>21. ASSUME NEW c \in Calls, Die(c) PROVE LockInvariant'
  BY <1>21 DEF Die
<1>22. ASSUME NEW c \in Calls, DieWritingClaim(c) PROVE LockInvariant'
  BY <1>22 DEF DieWritingClaim
<1>23. CASE UNCHANGED vars
  BY <1>23 DEF vars
<1> QED
  BY <1>1, <1>2, <1>3, <1>4, <1>5, <1>6, <1>7, <1>8, <1>9, <1>10, <1>11,
     <1>12, <1>13, <1>14, <1>15, <1>16, <1>17, <1>18, <1>19, <1>20, <1>21,
     <1>22, <1>23 DEF Next, Step, Remove, Release

-----------------------------------------------------------------------------

LEMMA Invariance == Benign /\ Spec => []LockInvariant
<1>1. ASSUME Benign PROVE Spec => []LockInvariant
  <2>1. LockInvariant /\ [Next]_vars => LockInvariant'
    BY <1>1, StepPreserves
  <2> QED
    BY InitEstablishes, <2>1, PTL DEF Spec
<1> QED
  BY <1>1

\* The variables have the values their names promise, and a directory never
\* holds two files of one name: claims are created exclusively.
THEOREM LockTypeCorrect == Benign /\ Spec => []LockTypeOK
<1>1. LockInvariant => LockTypeOK
  BY DEF LockInvariant
<1> QED
  BY Invariance, <1>1, PTL

\* Two calls are never in their bodies together, however many contend, die
\* in their bodies or between two attempts, or fail to rename.
THEOREM LockExcludes == Benign /\ Spec => []MutualExclusion
<1>1. LockInvariant => MutualExclusion
  BY DEF LockInvariant, HolderOwns, NothingStaged, MutualExclusion,
     InBody, Holding
<1> QED
  BY Invariance, <1>1, PTL

\* Without transient failures, no call is told that it lost the lock.
THEOREM OwnershipIsKept ==
    Benign /\ MaxTransients = 0 /\ Spec => []OwnershipNeverLost
<1>1. ASSUME MaxTransients = 0 PROVE LockInvariant => OwnershipNeverLost
  BY <1>1 DEF LockInvariant, OwnershipKept, OwnershipNeverLost
<1>2. ASSUME Benign, MaxTransients = 0 PROVE Spec => []OwnershipNeverLost
  <2>1. LockInvariant => OwnershipNeverLost
    BY <1>1, <1>2
  <2> QED
    BY <1>2, Invariance, <2>1, PTL
<1> QED
  BY <1>2

\* A contender, however long delayed, never renames a replacement away.
THEOREM ContenderSparesReplacement == Benign /\ Spec => DetachesWhatItClaimed
<1>1. LockInvariant /\ [Next]_vars
        => [\A c \in Calls : Detach(c) => owner \in {None, victim[c]}]_vars
  BY DEF LockInvariant, DetachJustified, StillRemovable, Detach, At
<1> QED
  BY Invariance, <1>1, PTL DEF Spec, DetachesWhatItClaimed

\* Nor does a releaser: what it renames away is its own directory.
THEOREM ReleaserSparesReplacement == Benign /\ Spec => ReleasesItsOwn
<1>1. LockInvariant /\ [Next]_vars
        => [\A c \in Calls : ReleaseRename(c) => owner \in {None, c}]_vars
  BY DEF LockInvariant, HolderOwns, Holding, ReleaseRename, At
<1> QED
  BY Invariance, <1>1, PTL DEF Spec, ReleasesItsOwn

=============================================================================
