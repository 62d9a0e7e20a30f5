------------------------------ MODULE FileLock ------------------------------
(***************************************************************************)
(* The strict mode of withFileLock (packages/cli/src/lib/with-file-lock.js):*)
(* the cross-process lock in front of the CLI's state files.               *)
(*                                                                         *)
(* The lock is a directory.  A contender publishes it, complete with its   *)
(* owner record, in one rename; it goes away in one rename.  Everything    *)
(* else is a file inside the directory: the owner's release marker, and    *)
(* the claims by which a contender reserves the removal for itself.  Every *)
(* file operation is addressed by PATH and so reaches whatever directory   *)
(* is there when it happens.  One action is one file operation (or a read  *)
(* and a liveness probe next to each other); all processes interleave      *)
(* between them.                                                           *)
(*                                                                         *)
(* A call is one invocation by a process of its own; a process that locks  *)
(* again is another element of Calls, because its owner token is new.      *)
(***************************************************************************)
EXTENDS Naturals, FiniteSets

CONSTANTS
    Calls,          \* invocations of withFileLock on one path
    None,           \* no call
    Torn,           \* the content of a file whose writer died before writing it
    Handoff,        \* does the body publish its release before its last rename?
    KillPoints,     \* where a process may die, or exit after its call
    MaxTransients   \* bound on transient failures of a rename (EPERM, EBUSY)

ClaimPoints   == {"recheck", "detach", "reread", "unlink"}
ReleasePoints == {"relCheck", "relRename", "relMarker", "relRecheck"}
Ended         == {"released", "lost", "unavailable"}
Points == {"try", "look", "checkMarker", "findClaim", "writeClaim", "wait",
           "midWrite", "body", "staged"} \cup ClaimPoints \cup ReleasePoints \cup Ended

ASSUME ConstantsAssumption ==
    /\ None \notin Calls /\ Torn \notin Calls /\ None # Torn
    /\ Handoff \in BOOLEAN
    /\ KillPoints \subseteq Points
    /\ MaxTransients \in Nat

Claims  == {"reclaim", "releaseClaim"}
Markers == [kind : {"release"}, of : Calls, by : Calls]
             \cup [kind : Claims, of : Calls, by : Calls \cup {Torn}]

VARIABLES
    owner,       \* the call whose directory is at the lock path, or None
    markers,     \* the marker files inside that directory
    pc,          \* what each call does next
    victim,      \* the incumbent the call read
    claim,       \* the kind of removal it is claiming
    rival,       \* the claim it is about to unlink: a dead rival's or its own
    sawDead,     \* calls that found their incumbent dead
    staging,     \* calls whose staging file exists
    published,   \* calls that published a handoff in their body
    alive,       \* calls whose process is alive
    transients   \* transient failures so far

dirVars   == <<owner, markers>>
localVars == <<victim, claim, rival, sawDead>>
bodyVars  == <<staging, published>>
vars == <<owner, markers, pc, victim, claim, rival, sawDead, staging, published,
          alive, transients>>

Goto(c, point) == pc' = [pc EXCEPT ![c] = point]

At(c, point) == c \in alive /\ pc[c] = point

Marker(kind, of, by) == [kind |-> kind, of |-> of, by |-> by]

\* The file `.<kind>-<token of v>` in the directory at the lock path.
HasMarker(kind, v) == \E m \in markers : m.kind = kind /\ m.of = v

ClaimedBy(kind, v, c) == Marker(kind, v, c) \in markers

Init ==
    /\ owner = None /\ markers = {}
    /\ pc = [c \in Calls |-> "try"]
    /\ victim = [c \in Calls |-> None]
    /\ claim = [c \in Calls |-> "reclaim"]
    /\ rival = [c \in Calls |-> None]
    /\ sawDead = {} /\ staging = {} /\ published = {}
    /\ alive = Calls
    /\ transients = 0

-----------------------------------------------------------------------------
(* Acquisition.                                                            *)

\* The staged directory, owner record inside, is renamed to the lock path.
Acquire(c) ==
    /\ At(c, "try") /\ owner = None
    /\ owner' = c /\ markers' = {}
    /\ Goto(c, "body")
    /\ UNCHANGED <<localVars, bodyVars, alive, transients>>

\* The path is taken (EEXIST).
Contend(c) ==
    /\ At(c, "try") /\ owner # None
    /\ Goto(c, "look")
    /\ UNCHANGED <<dirVars, localVars, bodyVars, alive, transients>>

\* Read owner.json and probe its process; without a record, wait and retry.
Look(c) ==
    /\ At(c, "look")
    /\ victim' = [victim EXCEPT ![c] = owner]
    /\ sawDead' = IF owner # None /\ owner \notin alive
                  THEN sawDead \cup {c} ELSE sawDead \ {c}
    /\ Goto(c, IF owner = None THEN "wait" ELSE "checkMarker")
    /\ UNCHANGED <<dirVars, claim, rival, bodyVars, alive, transients>>

Retry(c) ==
    /\ At(c, "wait")
    /\ Goto(c, "try")
    /\ UNCHANGED <<dirVars, localVars, bodyVars, alive, transients>>

\* The deadline has passed: STATE_LOCK_UNAVAILABLE.
GiveUp(c) ==
    /\ At(c, "wait")
    /\ Goto(c, "unavailable")
    /\ UNCHANGED <<dirVars, localVars, bodyVars, alive, transients>>

-----------------------------------------------------------------------------
(* Removing the directory of another call, or one's own after a marker:    *)
(* completePublishedRelease and reclaimOwnedDirectory, which differ in the *)
(* name of the claim and in what they check.                               *)

Releasing(c) == victim[c] = c

\* Where a call goes when it could not remove the directory, and when it did
\* or found the path free.
NotCompleted(c) ==
    IF Releasing(c) THEN "released"
    ELSE IF claim[c] = "releaseClaim" /\ c \in sawDead THEN "findClaim"
    ELSE "wait"

Completed(c) == IF Releasing(c) THEN "released" ELSE "try"

\* A call that turns from the release to the reclaim changes its claim.
ClaimAfter(c, point) ==
    claim' = IF point = "findClaim" THEN [claim EXCEPT ![c] = "reclaim"] ELSE claim

Leave(c, point) == Goto(c, point) /\ ClaimAfter(c, point)

\* Is the release of v published, and its staging path gone?
ReadyToRelease(v) == Marker("release", v, v) \in markers /\ v \notin staging

\* Mutant: a published release is only ever completed, never reclaimed.
CheckMarkerOnly(c) ==
    LET v == victim[c] IN
    /\ At(c, "checkMarker")
    /\ claim' = [claim EXCEPT ![c] =
                   IF ReadyToRelease(v) THEN "releaseClaim" ELSE "reclaim"]
    /\ Goto(c, IF ReadyToRelease(v) THEN "findClaim"
               ELSE IF Releasing(c) THEN "lost"
               ELSE IF c \in sawDead /\ ~HasMarker("release", v) THEN "findClaim"
               ELSE "wait")
    /\ UNCHANGED <<dirVars, victim, rival, sawDead, bodyVars, alive, transients>>

CheckMarker(c) ==
    LET v == victim[c] IN
    /\ At(c, "checkMarker")
    /\ IF ReadyToRelease(v)
       THEN /\ claim' = [claim EXCEPT ![c] = "releaseClaim"] /\ Goto(c, "findClaim")
       ELSE /\ claim' = [claim EXCEPT ![c] = "reclaim"]
            /\ Goto(c, IF Releasing(c) THEN "lost"
                       ELSE IF c \in sawDead THEN "findClaim" ELSE "wait")
    /\ UNCHANGED <<dirVars, victim, rival, sawDead, bodyVars, alive, transients>>

\* Mutant: a claim stands even when its claimant is dead.
FindClaimForGood(c) ==
    LET v == victim[c]
        readable == {m \in markers : m.kind = claim[c] /\ m.of = v /\ m.by # Torn}
    IN
    /\ At(c, "findClaim")
    /\ IF readable = {} THEN Goto(c, "writeClaim") /\ UNCHANGED claim
       ELSE Leave(c, NotCompleted(c))
    /\ UNCHANGED <<dirVars, victim, rival, sawDead, bodyVars, alive, transients>>

\* Read the claim file.  A torn one is read like none: the write then fails.
FindClaim(c) ==
    LET v == victim[c]
        readable == {m \in markers : m.kind = claim[c] /\ m.of = v /\ m.by # Torn}
    IN
    /\ At(c, "findClaim")
    /\ \/ /\ readable = {}
          /\ Goto(c, "writeClaim")
          /\ UNCHANGED <<claim, rival>>
       \/ \E m \in readable :
            IF m.by = c THEN Goto(c, "recheck") /\ UNCHANGED <<claim, rival>>
            ELSE IF m.by \notin alive
            THEN Goto(c, "reread") /\ rival' = [rival EXCEPT ![c] = m.by]
                                   /\ UNCHANGED claim
            ELSE Leave(c, NotCompleted(c)) /\ UNCHANGED rival
    /\ UNCHANGED <<dirVars, victim, sawDead, bodyVars, alive, transients>>

\* Mutant: the claim file is not created exclusively.
WriteClaimOver(c) ==
    LET v == victim[c] IN
    /\ At(c, "writeClaim")
    /\ IF owner = None
       THEN Goto(c, Completed(c)) /\ UNCHANGED markers
       ELSE /\ markers' = markers \cup {Marker(claim[c], v, c)}
            /\ Goto(c, "recheck")
    /\ UNCHANGED <<owner, victim, claim, rival, sawDead, bodyVars, alive, transients>>

\* Create the claim file exclusively, in whatever directory is there.
WriteClaim(c) ==
    LET v == victim[c] IN
    /\ At(c, "writeClaim")
    /\ IF owner = None
       THEN Goto(c, Completed(c)) /\ UNCHANGED <<claim, markers>>
       ELSE IF HasMarker(claim[c], v)
       THEN Leave(c, NotCompleted(c)) /\ UNCHANGED markers
       ELSE /\ markers' = markers \cup {Marker(claim[c], v, c)}
            /\ Goto(c, "recheck") /\ UNCHANGED claim
    /\ UNCHANGED <<owner, victim, rival, sawDead, bodyVars, alive, transients>>

\* Mutant: only the incumbent's process is looked at again.
StillDead(c) == claim[c] = "reclaim" => victim[c] \notin alive

\* Is the directory still the incumbent's, and, to reclaim it, is it dead?
StillRemovable(c) ==
    owner = victim[c] /\ (claim[c] = "reclaim" => victim[c] \notin alive)

Recheck(c) ==
    /\ At(c, "recheck")
    /\ IF StillRemovable(c)
       THEN Goto(c, "detach") /\ UNCHANGED rival
       ELSE Goto(c, "reread") /\ rival' = [rival EXCEPT ![c] = c]
    /\ UNCHANGED <<dirVars, victim, claim, sawDead, bodyVars, alive, transients>>

\* Rename the directory out of the way: whichever is at the path by now.
Detach(c) ==
    /\ At(c, "detach")
    /\ owner' = None /\ markers' = {}
    /\ Goto(c, Completed(c))
    /\ UNCHANGED <<localVars, bodyVars, alive, transients>>

DetachFails(c) ==
    /\ At(c, "detach") /\ owner # None /\ transients < MaxTransients
    /\ transients' = transients + 1
    /\ Goto(c, "reread") /\ rival' = [rival EXCEPT ![c] = c]
    /\ UNCHANGED <<dirVars, victim, claim, sawDead, bodyVars, alive>>

\* removeOwnMarker reads the claim file again and then unlinks the path.
Reread(c) ==
    LET still == ClaimedBy(claim[c], victim[c], rival[c])
        point == IF still THEN "unlink" ELSE NotCompleted(c)
    IN
    /\ At(c, "reread")
    /\ Leave(c, point)
    /\ UNCHANGED <<dirVars, victim, rival, sawDead, bodyVars, alive, transients>>

Unlink(c) ==
    LET point == IF rival[c] = c THEN NotCompleted(c) ELSE "findClaim" IN
    /\ At(c, "unlink")
    /\ markers' = {m \in markers : ~(m.kind = claim[c] /\ m.of = victim[c])}
    /\ Goto(c, point)
    /\ IF rival[c] = c THEN ClaimAfter(c, point) ELSE UNCHANGED claim
    /\ UNCHANGED <<owner, victim, rival, sawDead, bodyVars, alive, transients>>

-----------------------------------------------------------------------------
(* The critical section and the release.                                   *)

\* publishReleaseAfterPathRemoved: a marker that takes effect when the
\* staging file, about to be renamed over the target, is gone.
Publish(c) ==
    /\ Handoff /\ At(c, "body") /\ owner = c
    /\ markers' = markers \cup {Marker("release", c, c)}
    /\ staging' = staging \cup {c} /\ published' = published \cup {c}
    /\ Goto(c, "staged")
    /\ UNCHANGED <<owner, localVars, alive, transients>>

\* The body ends; with a handoff, by removing its staging file.
EndBody(c) ==
    /\ At(c, "body") \/ At(c, "staged")
    /\ staging' = staging \ {c}
    /\ Goto(c, "relCheck")
    /\ UNCHANGED <<dirVars, localVars, published, alive, transients>>

\* The answer of a releaser whose directory is not there.
Gone(c) == IF c \in published THEN "released" ELSE "lost"

ReleaseCheck(c) ==
    /\ At(c, "relCheck")
    /\ Goto(c, IF owner = c THEN "relRename" ELSE Gone(c))
    /\ UNCHANGED <<dirVars, localVars, bodyVars, alive, transients>>

ReleaseRename(c) ==
    /\ At(c, "relRename")
    /\ owner' = None /\ markers' = {}
    /\ Goto(c, IF owner = None THEN Gone(c) ELSE "released")
    /\ UNCHANGED <<localVars, bodyVars, alive, transients>>

ReleaseRenameFails(c) ==
    /\ At(c, "relRename") /\ owner # None /\ transients < MaxTransients
    /\ transients' = transients + 1
    /\ Goto(c, "relMarker")
    /\ UNCHANGED <<dirVars, localVars, bodyVars, alive>>

\* Fall back to a release marker that any contender may complete.
ReleaseMarker(c) ==
    /\ At(c, "relMarker")
    /\ IF owner = None
       THEN /\ Goto(c, Gone(c)) /\ UNCHANGED <<markers, victim>>
       ELSE IF HasMarker("release", c)
       THEN /\ Goto(c, "checkMarker")
            /\ victim' = [victim EXCEPT ![c] = c] /\ UNCHANGED markers
       ELSE /\ markers' = markers \cup {Marker("release", c, c)}
            /\ Goto(c, "relRecheck") /\ UNCHANGED victim
    /\ UNCHANGED <<owner, claim, rival, sawDead, bodyVars, alive, transients>>

\* Mutant: the releaser removes the directory without a claim.
ReleaseUnclaimed(c) ==
    /\ At(c, "relRecheck")
    /\ Goto(c, IF owner = c THEN "detach" ELSE "lost")
    /\ victim' = [victim EXCEPT ![c] = c]
    /\ UNCHANGED <<dirVars, claim, rival, sawDead, bodyVars, alive, transients>>

ReleaseRecheck(c) ==
    /\ At(c, "relRecheck")
    /\ IF owner = c
       THEN /\ Goto(c, "checkMarker")
            /\ victim' = [victim EXCEPT ![c] = c] /\ UNCHANGED markers
       ELSE /\ markers' = markers \ {Marker("release", c, c)}
            /\ Goto(c, "lost") /\ UNCHANGED victim
    /\ UNCHANGED <<owner, claim, rival, sawDead, bodyVars, alive, transients>>

-----------------------------------------------------------------------------
(* Processes die, or exit when their call has ended.                       *)

Die(c) ==
    /\ c \in alive /\ pc[c] \in KillPoints
    /\ alive' = alive \ {c}
    /\ UNCHANGED <<dirVars, pc, localVars, bodyVars, transients>>

\* The process dies after it created the claim file and before it wrote it.
DieWritingClaim(c) ==
    /\ At(c, "writeClaim") /\ "midWrite" \in KillPoints
    /\ owner # None /\ ~HasMarker(claim[c], victim[c])
    /\ markers' = markers \cup {Marker(claim[c], victim[c], Torn)}
    /\ alive' = alive \ {c}
    /\ UNCHANGED <<owner, pc, localVars, bodyVars, transients>>

Remove(c) ==
    \/ CheckMarker(c) \/ FindClaim(c) \/ WriteClaim(c) \/ Recheck(c)
    \/ Detach(c) \/ DetachFails(c) \/ Reread(c) \/ Unlink(c)

Release(c) ==
    \/ ReleaseCheck(c) \/ ReleaseRename(c) \/ ReleaseRenameFails(c)
    \/ ReleaseMarker(c) \/ ReleaseRecheck(c)

Step(c) ==
    \/ Acquire(c) \/ Contend(c) \/ Look(c) \/ Retry(c)
    \/ Publish(c) \/ EndBody(c) \/ Remove(c) \/ Release(c)

Next == \E c \in Calls : Step(c) \/ GiveUp(c) \/ Die(c) \/ DieWritingClaim(c)

Spec == Init /\ [][Next]_vars

\* A process that is alive runs.
FairSpec == Spec /\ \A c \in Calls : WF_vars(Step(c))
-----------------------------------------------------------------------------
(* Properties.                                                             *)

\* The values of the variables, and one file per name in the directory.
LockTypeOK ==
    /\ owner \in Calls \cup {None}
    /\ markers \subseteq Markers
    /\ \A m, n \in markers : m.kind = n.kind /\ m.of = n.of => m = n
    /\ owner = None => markers = {}
    /\ pc \in [Calls -> Points \ {"midWrite"}]
    /\ victim \in [Calls -> Calls \cup {None}]
    /\ claim \in [Calls -> Claims]
    /\ rival \in [Calls -> Calls \cup {None}]
    /\ sawDead \subseteq Calls /\ staging \subseteq Calls
    /\ published \subseteq Calls /\ alive \subseteq Calls
    /\ transients \in 0 .. MaxTransients

InBody(c) == c \in alive /\ pc[c] \in {"body", "staged"}

\* No two processes are inside the read-modify-write the lock serializes.
MutualExclusion == \A c, d \in Calls : InBody(c) /\ InBody(d) => c = d

\* A call is never told STATE_LOCK_OWNERSHIP_LOST, for a body it ran alone
\* and a release that it or a contender completed.
OwnershipNeverLost == \A c \in Calls : pc[c] # "lost"

\* A delayed contender that renames a directory away renames the one it
\* claimed, never the replacement another call has published meanwhile.
DetachesWhatItClaimed ==
    [][\A c \in Calls : Detach(c) => owner \in {None, victim[c]}]_vars

\* A delayed releaser renames its own directory away, never a replacement.
ReleasesItsOwn ==
    [][\A c \in Calls : ReleaseRename(c) => owner \in {None, c}]_vars

\* A lock whose owner died, or ended its call, is freed while somebody still
\* wants it, whatever happened to the contenders that tried to remove it.
AbandonedLockIsFreed ==
    \A c \in Calls :
        (owner = c /\ (c \notin alive \/ pc[c] \in Ended))
            ~> (owner # c \/ \A d \in alive : pc[d] \in Ended)
=============================================================================
