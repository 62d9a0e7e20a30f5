--------------------------- MODULE SessionHostLease ---------------------------
(***************************************************************************)
(* The host lease of one session (packages/cli/src/lib/session-host-lease  *)
(* .js over durable-security-store.js): which process may host it, and     *)
(* which processes may write to its transcript.                            *)
(*                                                                         *)
(* Every mutation reads the file, changes it and replaces it under the     *)
(* file lock (FileLock), so it is one action; what the caller learns is    *)
(* part of it.  "ok": changed, and the caller knows.  "refused": nothing   *)
(* changed and the call throws.  "committed": the file is replaced and     *)
(* durable, then the call throws (the lock cannot be released).            *)
(* "unknown": the file is replaced, but the directory cannot be synced, so *)
(* a power failure can undo it, and the call throws.                       *)
(*                                                                         *)
(* A fencing token stands for the lease id that is made with it.  Process  *)
(* ids are not used again.                                                 *)
(***************************************************************************)
EXTENDS Naturals, Sequences, FiniteSets

CONSTANTS
    Procs,              \* processes of one machine
    Requests,           \* ids of revocation requests
    None,
    MaxTokens,          \* bound on acquisitions
    MaxRevocations,     \* MAX_REVOCATIONS: capacity of the journal
    MaxFaults,          \* bound on store operations that fail
    PowerFails,         \* whether the machine may lose power (once)
    Unleased            \* whether processes write without ever taking a lease

ASSUME HostAssumption ==
    /\ "writing" \notin Requests
    /\ None \notin Procs \cup Requests \cup {"writing"}
    /\ None \notin [token : Nat, epoch : Nat, owner : Procs]
    /\ MaxTokens \in Nat /\ MaxRevocations \in Nat /\ MaxFaults \in Nat
    /\ PowerFails \in BOOLEAN /\ Unleased \in BOOLEAN

VARIABLES
    file,           \* what every process reads
    synced,         \* what a power failure leaves
    expired,        \* the active lease is past its expiresAtMs
    phase,          \* of each process: "new", "up" or "dead"
    local,          \* the local record of the lease each process holds
    fenced,         \* processes that lost the session
    calls,          \* what a process is in the middle of
    faults, powerFailed,                                 \* bounded by constants
    leases,         \* every lease that was ever active
    failed,         \* processes one of whose store operations threw
    wrote,          \* the last write: by whom, with which token (0: with no
                    \* lease); turn tells it from the one before
    revoked         \* the leases that each request has revoked

storeVars   == <<file, synced>>
procVars    == <<phase, local, fenced, calls>>
historyVars == <<leases, failed, wrote, revoked>>
vars == <<file, synced, expired, phase, local, fenced, calls, faults,
          powerFailed, leases, failed, wrote, revoked>>

\* The file does not exist before its first mutation.
NoFile == [exists |-> FALSE, lastToken |-> 0, epoch |-> 0, journal |-> <<>>,
           active |-> None]

Written(p, token) == wrote' = [by |-> p, token |-> token, turn |-> ~wrote.turn]

Up(p) == phase[p] = "up"

\* A call is synchronous: a process in the middle of one does nothing else.
Idle(p) == Up(p) /\ calls[p] = None

Current(p) == local[p] # None /\ file.active = local[p]

Init ==
    /\ file = NoFile /\ synced = NoFile /\ expired = FALSE
    /\ phase \in [Procs -> {"new", "up"}]
    /\ ~PowerFails => \A p \in Procs : Up(p)
    /\ local = [p \in Procs |-> None]
    /\ calls = [p \in Procs |-> None]
    /\ fenced = {} /\ faults = 0 /\ powerFailed = FALSE
    /\ leases = {} /\ failed = {}
    /\ wrote = [by |-> None, token |-> 0, turn |-> FALSE]
    /\ revoked = [r \in Requests |-> {}]

-----------------------------------------------------------------------------
(* The store, and losing the session.                                      *)

\* mutateSecurityStore with a given outcome.
Mutate(p, new, outcome) ==
    /\ file'   = IF outcome = "refused" THEN file ELSE new
    /\ synced' = IF outcome \in {"refused", "unknown"} THEN synced ELSE new
    /\ IF outcome = "ok" THEN UNCHANGED <<faults, failed>>
       ELSE /\ faults < MaxFaults /\ faults' = faults + 1
            /\ failed' = failed \cup {p}

Outcomes == {"ok", "refused", "committed", "unknown"}

Lose(p) ==
    IF local[p] # None
    THEN local' = [local EXCEPT ![p] = None] /\ fenced' = fenced \cup {p}
    ELSE UNCHANGED <<local, fenced>>

-----------------------------------------------------------------------------
(* Hosting.                                                                *)

\* Mutant: an expired lease is taken over while its owner is alive.
AcquireExpired(p) ==
    LET lease == [token |-> file.lastToken + 1, epoch |-> file.epoch, owner |-> p]
        new   == [file EXCEPT !.exists = TRUE, !.lastToken = @ + 1, !.active = lease]
    IN
    /\ Idle(p) /\ p \notin fenced /\ local[p] = None
    /\ file.active # None => expired \/ ~Up(file.active.owner)
    /\ file.lastToken < MaxTokens
    /\ \E outcome \in Outcomes :
         /\ Mutate(p, new, outcome)
         /\ local' = IF outcome = "ok" THEN [local EXCEPT ![p] = lease] ELSE local
         /\ IF outcome = "refused" THEN UNCHANGED <<expired, leases>>
            ELSE expired' = FALSE /\ leases' = leases \cup {lease}
    /\ UNCHANGED <<phase, fenced, calls, powerFailed, wrote, revoked>>

\* No process takes the lease of a process that is alive.
Acquire(p) ==
    LET lease == [token |-> file.lastToken + 1, epoch |-> file.epoch, owner |-> p]
        new   == [file EXCEPT !.exists = TRUE, !.lastToken = @ + 1, !.active = lease]
    IN
    /\ Idle(p) /\ p \notin fenced /\ local[p] = None
    /\ file.active # None => ~Up(file.active.owner)
    /\ file.lastToken < MaxTokens
    /\ \E outcome \in Outcomes :
         /\ Mutate(p, new, outcome)
         /\ local' = IF outcome = "ok" THEN [local EXCEPT ![p] = lease] ELSE local
         /\ IF outcome = "refused" THEN UNCHANGED <<expired, leases>>
            ELSE expired' = FALSE /\ leases' = leases \cup {lease}
    /\ UNCHANGED <<phase, fenced, calls, powerFailed, wrote, revoked>>

\* Mutant: a heartbeat that leaves the local record alone.
RenewOnly(p) ==
    /\ Idle(p) /\ local[p] # None
    /\ \E outcome \in Outcomes :
         /\ Mutate(p, file, outcome)
         /\ expired' = (outcome = "refused" /\ expired)
    /\ UNCHANGED <<local, fenced, phase, calls, powerFailed, leases, wrote, revoked>>

\* The heartbeat.  It also renews a lease that has expired: nobody else can
\* have taken it.
Renew(p) ==
    /\ Idle(p) /\ local[p] # None
    /\ IF Current(p)
       THEN \E outcome \in Outcomes :
              /\ Mutate(p, file, outcome)
              /\ expired' = (outcome = "refused" /\ expired)
              /\ IF outcome = "ok" THEN UNCHANGED <<local, fenced>> ELSE Lose(p)
       ELSE Lose(p) /\ UNCHANGED <<storeVars, expired, faults, failed>>
    /\ UNCHANGED <<phase, calls, powerFailed, leases, wrote, revoked>>

\* Mutant: a release that does not touch the file.
ReleaseLocally(p) ==
    /\ Idle(p) /\ local[p] # None
    /\ local' = [local EXCEPT ![p] = None]
    /\ UNCHANGED <<storeVars, expired, phase, fenced, calls, faults, powerFailed,
                   historyVars>>

Release(p) ==
    /\ Idle(p) /\ local[p] # None
    /\ IF Current(p)
       THEN \E outcome \in Outcomes :
              /\ Mutate(p, [file EXCEPT !.active = None], outcome)
              /\ expired' = (outcome = "refused" /\ expired)
              /\ IF outcome = "ok"
                 THEN local' = [local EXCEPT ![p] = None] /\ UNCHANGED fenced
                 ELSE Lose(p)
       ELSE Lose(p) /\ UNCHANGED <<storeVars, expired, faults, failed>>
    /\ UNCHANGED <<phase, calls, powerFailed, leases, wrote, revoked>>

-----------------------------------------------------------------------------
(* Revocation.                                                             *)

\* What the caller does with the record of its request.
Revoked(p, epoch, target) ==
    IF /\ local[p] # None /\ local[p].epoch < epoch
       /\ target \in {None, local[p]}
    THEN Lose(p) ELSE UNCHANGED <<local, fenced>>

RecordsOf(r) == {i \in DOMAIN file.journal : file.journal[i].request = r}

\* Mutants: a revocation that does not advance the epoch, and one that leaves
\* the lease in the file.
RecordKeepingEpoch(p, r) ==
    LET new == [file EXCEPT !.exists = TRUE, !.active = None] IN
    /\ RecordsOf(r) = {} /\ Len(file.journal) < MaxRevocations
    /\ Mutate(p, new, "ok") /\ expired' = FALSE
    /\ revoked' = IF file.active = None THEN revoked
                  ELSE [revoked EXCEPT ![r] = @ \cup {file.active}]
    /\ UNCHANGED <<local, fenced, calls>>

RecordKeepingLease(p, r) ==
    LET new == [file EXCEPT !.exists = TRUE, !.epoch = @ + 1, !.journal =
                   Append(@, [request |-> r, target |-> file.active])] IN
    /\ RecordsOf(r) = {} /\ Len(file.journal) < MaxRevocations
    /\ Mutate(p, new, "ok")
    /\ UNCHANGED <<expired, revoked, local, fenced, calls>>

\* Mutant: a full journal forgets its oldest record instead of refusing.
RecordForgetting(p, r) ==
    LET target == file.active
        kept == IF Len(file.journal) < MaxRevocations THEN file.journal
                ELSE Tail(file.journal)
        new == [file EXCEPT !.exists = TRUE, !.epoch = @ + 1, !.active = None,
                   !.journal = Append(kept, [request |-> r, target |-> target])]
    IN
    /\ RecordsOf(r) = {} /\ file.epoch <= MaxRevocations + 1
    /\ Mutate(p, new, "ok")
    /\ Revoked(p, new.epoch, target)
    /\ expired' = FALSE
    /\ revoked' = IF target = None THEN revoked
                  ELSE [revoked EXCEPT ![r] = @ \cup {target}]
    /\ UNCHANGED calls

\* A request that is already in the journal is answered with its record.
Replay(p, r) ==
    \E i \in RecordsOf(r), outcome \in Outcomes :
        /\ Mutate(p, file, outcome)
        /\ CASE outcome = "ok" -> /\ Revoked(p, i, file.journal[i].target)
                                  /\ UNCHANGED calls
             [] outcome = "refused" -> Lose(p) /\ UNCHANGED calls
             [] OTHER -> /\ calls' = [calls EXCEPT ![p] = r]
                         /\ UNCHANGED <<local, fenced>>
        /\ UNCHANGED <<expired, revoked>>

\* Any other is appended to the journal, with the lease that it ends.
Record(p, r) ==
    LET target == file.active
        new == [file EXCEPT !.exists = TRUE, !.epoch = @ + 1, !.active = None,
                   !.journal = Append(@, [request |-> r, target |-> target])]
    IN
    /\ RecordsOf(r) = {} /\ Len(file.journal) < MaxRevocations
    /\ \E outcome \in Outcomes :
         /\ Mutate(p, new, outcome)
         /\ CASE outcome = "ok" -> Revoked(p, new.epoch, target) /\ UNCHANGED calls
              [] outcome = "refused" -> Lose(p) /\ UNCHANGED calls
              [] OTHER -> /\ calls' = [calls EXCEPT ![p] = r]
                          /\ UNCHANGED <<local, fenced>>
         /\ expired' = (outcome = "refused" /\ expired)
         /\ revoked' = IF outcome = "refused" \/ file.active = None THEN revoked
                       ELSE [revoked EXCEPT ![r] = @ \cup {file.active}]

\* A full journal refuses, and so does a record with the same request id and
\* another reason.  The caller gives up its lease as after any other throw.
Refuse(p, r) ==
    /\ RecordsOf(r) = {} => Len(file.journal) >= MaxRevocations
    /\ local[p] # None /\ Lose(p) /\ failed' = failed \cup {p}
    /\ UNCHANGED <<storeVars, expired, calls, faults, revoked>>

Revoke(p, r) ==
    /\ Idle(p)
    /\ Replay(p, r) \/ Record(p, r) \/ Refuse(p, r)
    /\ UNCHANGED <<phase, powerFailed, leases, wrote>>

\* After a throw that may have changed the file: only if the request's record
\* is the newest one, and can be read, is it taken for the answer.
Readback(p) ==
    LET n == Len(file.journal) IN
    /\ Up(p) /\ calls[p] \in Requests
    /\ calls' = [calls EXCEPT ![p] = None]
    /\ \/ /\ n > 0 /\ file.journal[n].request = calls[p]
          /\ Revoked(p, n, file.journal[n].target)
       \/ Lose(p)
    /\ UNCHANGED <<storeVars, expired, phase, faults, powerFailed, historyVars>>

-----------------------------------------------------------------------------
(* Writing.                                                                *)

\* A process that holds no lease writes at once when there is no file.
FindNoFile(p) ==
    /\ Unleased /\ Idle(p) /\ p \notin fenced /\ local[p] = None /\ ~file.exists
    /\ calls' = [calls EXCEPT ![p] = "writing"]
    /\ UNCHANGED <<storeVars, expired, phase, local, fenced, faults, powerFailed,
                   historyVars>>

WriteUnlocked(p) ==
    /\ Up(p) /\ calls[p] = "writing"
    /\ calls' = [calls EXCEPT ![p] = None]
    /\ Written(p, 0)
    /\ UNCHANGED <<storeVars, expired, phase, local, fenced, faults, powerFailed,
                   leases, failed, revoked>>

\* Under the lock: as the host, or without a lease while there is no host.
Write(p) ==
    /\ Idle(p) /\ p \notin fenced /\ file.exists
    /\ \/ /\ Current(p)
          /\ Written(p, local[p].token)
          /\ UNCHANGED <<local, fenced>>
       \/ /\ local[p] # None /\ ~Current(p)
          /\ Lose(p) /\ UNCHANGED wrote
       \/ /\ Unleased /\ local[p] = None /\ file.active = None
          /\ Written(p, 0)
          /\ UNCHANGED <<local, fenced>>
    /\ UNCHANGED <<storeVars, expired, phase, calls, faults, powerFailed,
                   leases, failed, revoked>>

\* Mutant: a delegation is not compared with the lease in the file.
DelegatedBlindly(p, lease) ==
    /\ Idle(p) /\ p \notin fenced /\ lease.owner # p
    /\ file.active # None /\ ~expired
    /\ Written(p, lease.token)
    /\ UNCHANGED <<storeVars, expired, procVars, faults, powerFailed, leases,
                   failed, revoked>>

\* Another process writes with a lease that its owner delegated to it.
DelegatedWrite(p, lease) ==
    /\ Idle(p) /\ p \notin fenced /\ lease.owner # p
    /\ file.active = lease /\ ~expired
    /\ Written(p, lease.token)
    /\ UNCHANGED <<storeVars, expired, procVars, faults, powerFailed, leases,
                   failed, revoked>>

-----------------------------------------------------------------------------
(* The world.                                                              *)

Expire ==
    /\ file.active # None /\ ~expired /\ expired' = TRUE
    /\ UNCHANGED <<storeVars, procVars, faults, powerFailed, historyVars>>

\* Only a power failure tells a process that has not started from an idle one.
Start(p) ==
    /\ powerFailed /\ phase[p] = "new" /\ phase' = [phase EXCEPT ![p] = "up"]
    /\ UNCHANGED <<storeVars, expired, local, fenced, calls, faults, powerFailed,
                   historyVars>>

Die(p) ==
    /\ Up(p) /\ phase' = [phase EXCEPT ![p] = "dead"]
    /\ local' = [local EXCEPT ![p] = None] /\ calls' = [calls EXCEPT ![p] = None]
    /\ UNCHANGED <<storeVars, expired, fenced, faults, powerFailed, historyVars>>

\* Every process dies; others may start later.  A replacement that was never
\* synced may be undone.
PowerFailure ==
    /\ PowerFails /\ ~powerFailed /\ powerFailed' = TRUE
    /\ file' \in {file, synced} /\ synced' = file'
    /\ phase' = [p \in Procs |-> IF Up(p) THEN "dead" ELSE phase[p]]
    /\ local' = [p \in Procs |-> None] /\ calls' = [p \in Procs |-> None]
    /\ UNCHANGED <<expired, fenced, faults, historyVars>>

Hosting(p) == Acquire(p) \/ Renew(p) \/ Release(p)
Revoking(p) == Readback(p) \/ \E r \in Requests : Revoke(p, r)
Writing(p) == \/ FindNoFile(p) \/ WriteUnlocked(p) \/ Write(p)
              \/ \E lease \in leases : DelegatedWrite(p, lease)

Next ==
    \/ \E p \in Procs : Hosting(p) \/ Revoking(p) \/ Writing(p)
                        \/ Start(p) \/ Die(p)
    \/ Expire \/ PowerFailure

Spec == Init /\ [][Next]_vars

\* The heartbeat timer of a host fires, and a call that is running ends.
FairSpec ==
    /\ Spec
    /\ \A p \in Procs : WF_vars(Renew(p)) /\ WF_vars(Readback(p) \/ WriteUnlocked(p))

-----------------------------------------------------------------------------
(* Properties.                                                             *)

Leases == [token : 1 .. MaxTokens, epoch : 0 .. MaxRevocations, owner : Procs]

\* The types, and what validateStore asks of the file: a file that it refuses
\* takes the session out of use.
HostTypeOK ==
    /\ \A f \in {file, synced} :
         /\ f.lastToken \in 0 .. MaxTokens
         /\ f.epoch = Len(f.journal) /\ f.epoch <= MaxRevocations
         /\ f.active # None => /\ f.active \in Leases
                               /\ f.active.token = f.lastToken
                               /\ f.active.epoch = f.epoch
         /\ \A i, j \in DOMAIN f.journal :
              f.journal[i].request = f.journal[j].request => i = j
    /\ local \in [Procs -> Leases \cup {None}]
    /\ leases \subseteq Leases /\ fenced \subseteq Procs /\ failed \subseteq Procs

\* A host that has not noticed anything is the one in the file, or it was
\* revoked: nobody is ever superseded in silence, whatever failed.
HostsAreCurrentOrRevoked ==
    \A p \in Procs : local[p] # None => Current(p) \/ local[p].epoch < file.epoch

\* Two processes host the session at once only when a revocation came between
\* them: the older one is fenced by the epoch it was admitted under.
OverlapOnlyAfterRevocation ==
    \A p, q \in Procs :
        /\ local[p] # None /\ local[q] # None /\ p # q
        => local[p].epoch # local[q].epoch

\* A session is never stuck with a live process that does not host it, unless
\* one of that process's own store operations threw.
LiveLeaseIsHosted ==
    file.active # None /\ Up(file.active.owner) =>
        Current(file.active.owner) \/ file.active.owner \in failed

\* Until the power fails, a request for revocation ends at most one lease:
\* repeated after its answer was lost it never ends the lease of a successor.
RequestRevokesOnce ==
    ~powerFailed => \A r \in Requests : Cardinality(revoked[r]) <= 1

\* "an exact replay returns the original record and never revokes a successor"
\* (session-host-lease.js:695), whatever happened to the machine meanwhile.
ReplayIsExact == \A r \in Requests : Cardinality(revoked[r]) <= 1

\* Until the power fails, once a successor holds the session nothing is written
\* under an older lease, by its owner or by whom it delegated to.
LeasedWritesGoForward ==
    [][wrote' # wrote /\ wrote'.token # 0 /\ ~powerFailed =>
         \A lease \in leases : lease.token <= wrote'.token]_vars

\* No process writes without a lease while another one hosts the session.
NoWriteBesideHost ==
    [][wrote' # wrote /\ wrote'.token = 0 => file.active = None]_vars

\* A host that was revoked stops.
RevokedHostStops ==
    \A p \in Procs : (local[p] # None /\ local[p].epoch < file.epoch)
                     ~> (local[p] = None)
=============================================================================
