-------------------------- MODULE SessionHostProofs --------------------------
(***************************************************************************)
(* Proofs about SessionHostLease, for any processes, requests and bounds,  *)
(* and any number of failing store operations.  The invariant about hosts  *)
(* also survives a power failure; what depends on the file never going     *)
(* back holds until the power fails.                                       *)
(***************************************************************************)
EXTENDS SessionHostLease, FiniteSetTheorems, TLAPS

LeaseSet == [token : Nat, epoch : Nat, owner : Procs]
Records  == [request : Requests, target : LeaseSet \cup {None}]
FileSet  == [exists : BOOLEAN, lastToken : Nat, epoch : Nat,
             journal : Seq(Records), active : LeaseSet \cup {None}]

\* A file is as validateStore wants it, and no lease is of a process to come.
FileOK(f) ==
    /\ f \in FileSet
    /\ f.epoch = Len(f.journal)
    /\ f.active # None => /\ f.active.epoch = f.epoch
                          /\ phase[f.active.owner] # "new"

HostTypes ==
    /\ phase \in [Procs -> {"new", "up", "dead"}]
    /\ local \in [Procs -> LeaseSet \cup {None}]
    /\ calls \in [Procs -> Requests \cup {None, "writing"}]
    /\ failed \subseteq Procs

\* A local record is of a running process, and never ahead of the file.
LocalOK ==
    \A p \in Procs : local[p] # None =>
        /\ local[p].owner = p /\ Up(p) /\ local[p].epoch <= file.epoch

CallsOK == \A p \in Procs : calls[p] \in Requests => p \in failed

HostInv ==
    /\ FileOK(file) /\ FileOK(synced) /\ HostTypes /\ LocalOK /\ CallsOK
    /\ HostsAreCurrentOrRevoked /\ OverlapOnlyAfterRevocation
    /\ LiveLeaseIsHosted

USE HostAssumption

-----------------------------------------------------------------------------
(* Steps that change a file in the ways the code does.                     *)

LEMMA LeaseIsNotNone == \A l \in LeaseSet : l # None
BY DEF LeaseSet

\* The fields of a file after a revocation.
LEMMA ReplacedFile ==
    ASSUME NEW J, NEW A, None \in A,
           NEW f \in [exists : BOOLEAN, lastToken : Nat, epoch : Nat,
                      journal : J, active : A],
           NEW j \in J, NEW g,
           g = [f EXCEPT !.exists = TRUE, !.epoch = @ + 1, !.active = None,
                         !.journal = j]
    PROVE  /\ g \in [exists : BOOLEAN, lastToken : Nat, epoch : Nat,
                     journal : J, active : A]
           /\ g.active = None /\ g.journal = j /\ g.epoch = f.epoch + 1
<1>1. f.epoch + 1 \in Nat /\ f.lastToken \in Nat
  OBVIOUS
<1>2. g = [exists |-> TRUE, lastToken |-> f.lastToken, epoch |-> f.epoch + 1,
           journal |-> j, active |-> None]
  OBVIOUS
<1>3. QED  BY <1>1, <1>2

\* What a step that gives up local records, and changes nothing else that
\* the invariant is about, keeps.
GivesUp(S) ==
    /\ S \subseteq Procs
    /\ local' = [p \in Procs |-> IF p \in S THEN None ELSE local[p]]

LEMMA LoseGivesUp ==
    ASSUME HostTypes, NEW p \in Procs, Lose(p)
    PROVE  GivesUp({p})
BY DEF HostTypes, Lose, GivesUp

LEMMA RevokedGivesUp ==
    ASSUME HostTypes, NEW p \in Procs, NEW e, NEW t, Revoked(p, e, t)
    PROVE  \/ GivesUp({p}) /\ local[p] # None /\ local[p].epoch < e
           \/ UNCHANGED local
BY DEF HostTypes, Revoked, Lose, GivesUp

\* The file stays; a process that held its lease may give it up after a throw.
LEMMA GivingUpKeepsHostInv ==
    ASSUME HostInv, UNCHANGED <<file, phase>>, synced' \in {file, synced},
           NEW S, GivesUp(S), HostTypes', CallsOK', failed \subseteq failed',
           \A p \in S : local[p] # None =>
               local[p].epoch < file.epoch \/ ~Current(p) \/ p \in failed'
    PROVE  HostInv'
<1>1. FileOK(file)' /\ FileOK(synced)'
  BY DEF HostInv, FileOK
<1>2. LocalOK'
  BY DEF HostInv, LocalOK, GivesUp, Up, HostTypes
<1>3. HostsAreCurrentOrRevoked'
  BY DEF HostInv, HostsAreCurrentOrRevoked, Current, GivesUp, HostTypes
<1>4. OverlapOnlyAfterRevocation'
  BY DEF HostInv, OverlapOnlyAfterRevocation, GivesUp, HostTypes
<1>5. LiveLeaseIsHosted'
  <2> DEFINE o == file.active.owner
  <2>1. SUFFICES ASSUME file.active # None, Up(o)
                 PROVE  Current(o)' \/ o \in failed'
    BY DEF LiveLeaseIsHosted, Up
  <2>2. o \in Procs /\ file.active \in LeaseSet /\ file.active.epoch = file.epoch
        /\ file.epoch \in Nat
    BY <2>1 DEF HostInv, FileOK, FileSet, LeaseSet
  <2>3. CASE o \in failed
    BY <2>3
  <2>4. CASE Current(o) /\ o \notin S
    BY <2>2, <2>4 DEF Current, GivesUp, HostInv, HostTypes
  <2>5. CASE Current(o) /\ o \in S
    <3>1. local[o] # None /\ local[o] = file.active
      BY <2>5 DEF Current
    <3>2. ~(local[o].epoch < file.epoch)
      BY <3>1, <2>2
    <3>3. QED  BY <2>5, <3>1, <3>2
  <2>6. QED  BY <2>1, <2>3, <2>4, <2>5 DEF HostInv, LiveLeaseIsHosted
<1>6. QED  BY <1>1, <1>2, <1>3, <1>4, <1>5 DEF HostInv

\* The lease is taken out of the file, by its host or by a revocation.
LEMMA ClearingKeepsHostInv ==
    ASSUME HostInv, UNCHANGED phase, FileOK(file)', FileOK(synced)',
           file'.active = None, file.epoch <= file'.epoch,
           NEW S, GivesUp(S), HostTypes', CallsOK',
           \A p \in Procs \ S : local[p] # None => local[p].epoch < file'.epoch
    PROVE  HostInv'
<1>1. LocalOK'
  <2>1. file.epoch \in Nat /\ file'.epoch \in Nat
    BY DEF HostInv, FileOK, FileSet
  <2>2. QED  BY <2>1 DEF HostInv, LocalOK, GivesUp, Up, HostTypes, LeaseSet
<1>2. HostsAreCurrentOrRevoked'
  BY DEF HostsAreCurrentOrRevoked, GivesUp
<1>3. OverlapOnlyAfterRevocation'
  BY DEF HostInv, OverlapOnlyAfterRevocation, GivesUp, HostTypes
<1>4. LiveLeaseIsHosted'
  BY DEF LiveLeaseIsHosted
<1>5. QED  BY <1>1, <1>2, <1>3, <1>4 DEF HostInv

\* While one process holds the lease in the file, any other host is revoked.
LEMMA OthersAreRevoked ==
    ASSUME HostInv, NEW p \in Procs, Current(p),
           NEW q \in Procs \ {p}, local[q] # None
    PROVE  local[q].epoch < file.epoch
BY DEF HostInv, LocalOK, HostsAreCurrentOrRevoked, Current
-----------------------------------------------------------------------------
(* The actions.                                                            *)

LEMMA HostInvInit == Init => HostInv
<1> SUFFICES ASSUME Init PROVE HostInv
  OBVIOUS
<1>1. FileOK(file) /\ FileOK(synced)
  BY DEF Init, NoFile, FileOK, FileSet
<1>2. HostTypes /\ LocalOK /\ CallsOK
  BY DEF Init, HostTypes, LocalOK, CallsOK
<1>3. HostsAreCurrentOrRevoked /\ OverlapOnlyAfterRevocation /\ LiveLeaseIsHosted
  BY DEF Init, NoFile, HostsAreCurrentOrRevoked, OverlapOnlyAfterRevocation,
     LiveLeaseIsHosted
<1>4. QED  BY <1>1, <1>2, <1>3 DEF HostInv

LEMMA AcquireKeepsHostInv ==
    ASSUME HostInv, NEW p \in Procs, Acquire(p)
    PROVE  HostInv'
<1> DEFINE lease == [token |-> file.lastToken + 1, epoch |-> file.epoch,
                     owner |-> p]
           new == [file EXCEPT !.exists = TRUE, !.lastToken = @ + 1,
                      !.active = lease]
<1>1. PICK outcome \in Outcomes :
        /\ Mutate(p, new, outcome)
        /\ local' = IF outcome = "ok" THEN [local EXCEPT ![p] = lease] ELSE local
  BY DEF Acquire
<1>2. Up(p) /\ local[p] = None /\ UNCHANGED <<phase, calls>>
  BY DEF Acquire, Idle
<1>3. file.active # None => ~Up(file.active.owner)
  BY DEF Acquire
<1>4. failed \subseteq failed' /\ failed' \subseteq Procs
      /\ (outcome # "ok" => p \in failed')
  BY <1>1 DEF Mutate, HostInv, HostTypes
<1>5. CASE outcome = "refused"
  <2>1. file' = file /\ synced' = synced /\ local' = local
    BY <1>1, <1>5 DEF Mutate
  <2>2. GivesUp({}) /\ HostTypes' /\ CallsOK'
    BY <2>1, <1>2, <1>4 DEF HostInv, HostTypes, CallsOK, GivesUp
  <2>3. QED  BY <2>1, <2>2, <1>2, <1>4, GivingUpKeepsHostInv
<1>6. CASE outcome # "refused"
  <2>1. file' = new /\ synced' \in {new, synced}
    BY <1>1, <1>6 DEF Mutate
  <2>2. lease \in LeaseSet /\ new \in FileSet /\ new.active = lease
        /\ new.epoch = file.epoch /\ new.journal = file.journal
        /\ lease.epoch = file.epoch /\ lease.owner = p /\ lease # None
    <3>1. file.lastToken + 1 \in Nat /\ file.epoch \in Nat /\ file \in FileSet
      BY DEF HostInv, FileOK, FileSet
    <3>2. lease \in LeaseSet /\ lease.epoch = file.epoch /\ lease.owner = p
      BY <3>1 DEF LeaseSet
    <3>3. lease # None
      BY <3>2, LeaseIsNotNone
    <3> HIDE DEF lease
    <3>4. QED  BY <3>1, <3>2, <3>3 DEF FileSet
  <2> HIDE DEF lease, new
  <2>3. FileOK(file)' /\ FileOK(synced)'
    BY <2>1, <2>2, <1>2 DEF HostInv, FileOK, Up
  <2>4. HostTypes' /\ CallsOK'
    BY <2>2, <1>1, <1>2, <1>4 DEF HostInv, HostTypes, CallsOK
  <2>5. \A q \in Procs : local'[q] # None =>
          \/ q = p /\ local'[q] = lease
          \/ q # p /\ local'[q] = local[q] /\ local[q].epoch < file.epoch
    <3>1. SUFFICES ASSUME NEW q \in Procs, local'[q] # None
                   PROVE  \/ q = p /\ local'[q] = lease
                          \/ /\ q # p /\ local'[q] = local[q]
                             /\ local[q].epoch < file.epoch
      OBVIOUS
    <3>2. CASE q = p
      BY <3>1, <3>2, <1>1, <1>2 DEF HostInv, HostTypes
    <3>3. CASE q # p
      <4>1. local'[q] = local[q] /\ local[q] # None
        BY <3>1, <3>3, <1>1 DEF HostInv, HostTypes
      <4>2. ~Current(q)
        BY <4>1, <1>3 DEF HostInv, LocalOK, Current
      <4>3. QED  BY <3>3, <4>1, <4>2 DEF HostInv, HostsAreCurrentOrRevoked
    <3>4. QED  BY <3>2, <3>3
  <2>6. LocalOK'
    <3>1. file.epoch \in Nat /\ \A q \in Procs : local[q] # None =>
            local[q].epoch \in Nat /\ local[q].owner = q /\ Up(q)
      BY DEF HostInv, HostTypes, LocalOK, FileOK, FileSet, LeaseSet
    <3>2. QED  BY <2>1, <2>2, <2>5, <3>1, <1>2 DEF LocalOK, Up
  <2>7. HostsAreCurrentOrRevoked'
    BY <2>1, <2>2, <2>5 DEF HostsAreCurrentOrRevoked, Current
  <2>8. OverlapOnlyAfterRevocation'
    <3>1. file.epoch \in Nat /\ \A q \in Procs : local[q] # None =>
            local[q].epoch \in Nat
      BY DEF HostInv, HostTypes, FileOK, FileSet, LeaseSet
    <3>2. QED
      BY <2>2, <2>5, <3>1 DEF HostInv, OverlapOnlyAfterRevocation
  <2>9. LiveLeaseIsHosted'
    <3>1. file'.active = lease /\ file'.active.owner = p
      BY <2>1, <2>2
    <3>2. outcome = "ok" => local'[p] = lease
      BY <1>1 DEF HostInv, HostTypes
    <3>3. QED  BY <3>1, <3>2, <2>2, <1>4 DEF LiveLeaseIsHosted, Current
  <2>10. QED  BY <2>3, <2>4, <2>6, <2>7, <2>8, <2>9 DEF HostInv
<1>7. QED  BY <1>5, <1>6

\* Renewing, or a store operation of the host that leaves the file as it is.
LEMMA RenewKeepsHostInv ==
    ASSUME HostInv, NEW p \in Procs, Renew(p)
    PROVE  HostInv'
<1>1. UNCHANGED <<phase, calls>>
  BY DEF Renew
<1>2. CASE ~Current(p)
  <2>1. Lose(p) /\ UNCHANGED <<file, synced, failed>>
    BY <1>2 DEF Renew, storeVars
  <2>2. GivesUp({p})
    BY <2>1, LoseGivesUp DEF HostInv
  <2>3. HostTypes' /\ CallsOK'
    BY <2>1, <2>2, <1>1 DEF HostInv, HostTypes, CallsOK, GivesUp
  <2>4. QED  BY <2>1, <2>2, <2>3, <1>1, <1>2, GivingUpKeepsHostInv
<1>3. CASE Current(p)
  <2>1. PICK outcome \in Outcomes :
          /\ Mutate(p, file, outcome)
          /\ IF outcome = "ok" THEN UNCHANGED <<local, fenced>> ELSE Lose(p)
    BY <1>3 DEF Renew
  <2>2. file' = file /\ synced' \in {file, synced} /\ failed \subseteq failed'
        /\ failed' \subseteq Procs /\ (outcome # "ok" => p \in failed')
    BY <2>1 DEF Mutate, HostInv, HostTypes
  <2>3. CASE outcome = "ok"
    <3>1. GivesUp({}) /\ HostTypes' /\ CallsOK'
      BY <2>1, <2>2, <2>3, <1>1 DEF HostInv, HostTypes, CallsOK, GivesUp
    <3>2. QED  BY <3>1, <2>2, <1>1, GivingUpKeepsHostInv
  <2>4. CASE outcome # "ok"
    <3>1. GivesUp({p})
      BY <2>1, <2>4, LoseGivesUp DEF HostInv
    <3>2. HostTypes' /\ CallsOK'
      BY <3>1, <2>2, <1>1 DEF HostInv, HostTypes, CallsOK, GivesUp
    <3>3. QED  BY <3>1, <3>2, <2>2, <2>4, <1>1, GivingUpKeepsHostInv
  <2>5. QED  BY <2>3, <2>4
<1>4. QED  BY <1>2, <1>3

LEMMA ReleaseKeepsHostInv ==
    ASSUME HostInv, NEW p \in Procs, Release(p)
    PROVE  HostInv'
<1>1. UNCHANGED <<phase, calls>> /\ local[p] # None
  BY DEF Release
<1>2. CASE ~Current(p)
  <2>1. Lose(p) /\ UNCHANGED <<file, synced, failed>>
    BY <1>2 DEF Release, storeVars
  <2>2. GivesUp({p})
    BY <2>1, LoseGivesUp DEF HostInv
  <2>3. HostTypes' /\ CallsOK'
    BY <2>1, <2>2, <1>1 DEF HostInv, HostTypes, CallsOK, GivesUp
  <2>4. QED  BY <2>1, <2>2, <2>3, <1>1, <1>2, GivingUpKeepsHostInv
<1>3. CASE Current(p)
  <2> DEFINE new == [file EXCEPT !.active = None]
  <2>1. PICK outcome \in Outcomes :
          /\ Mutate(p, new, outcome)
          /\ IF outcome = "ok"
             THEN local' = [local EXCEPT ![p] = None] /\ UNCHANGED fenced
             ELSE Lose(p)
    BY <1>3 DEF Release
  <2>2. GivesUp({p})
    <3>1. CASE outcome = "ok"
      BY <2>1, <3>1 DEF HostInv, HostTypes, GivesUp
    <3>2. CASE outcome # "ok"
      BY <2>1, <3>2, LoseGivesUp DEF HostInv
    <3>3. QED  BY <3>1, <3>2
  <2>3. failed \subseteq failed' /\ failed' \subseteq Procs
        /\ (outcome # "ok" => p \in failed')
    BY <2>1 DEF Mutate, HostInv, HostTypes
  <2>4. HostTypes' /\ CallsOK'
    BY <2>2, <2>3, <1>1 DEF HostInv, HostTypes, CallsOK, GivesUp
  <2>5. CASE outcome = "refused"
    <3>1. UNCHANGED <<file, synced>>
      BY <2>1, <2>5 DEF Mutate
    <3>2. QED  BY <3>1, <2>2, <2>3, <2>4, <2>5, <1>1, GivingUpKeepsHostInv
  <2>6. CASE outcome # "refused"
    <3>1. file' = new /\ synced' \in {new, synced}
      BY <2>1, <2>6 DEF Mutate
    <3>2. new \in FileSet /\ new.active = None /\ new.epoch = file.epoch
          /\ new.journal = file.journal /\ file.epoch \in Nat
      BY DEF HostInv, FileOK, FileSet
    <3> HIDE DEF new
    <3>3. FileOK(file)' /\ FileOK(synced)'
      BY <3>1, <3>2, <1>1 DEF HostInv, FileOK
    <3>4. \A q \in Procs \ {p} : local[q] # None => local[q].epoch < file'.epoch
      BY <3>1, <3>2, <1>3, OthersAreRevoked
    <3>5. file'.active = None /\ file.epoch <= file'.epoch
      BY <3>1, <3>2
    <3>6. QED  BY <3>3, <3>4, <3>5, <2>2, <2>4, <1>1, ClearingKeepsHostInv
  <2>7. QED  BY <2>5, <2>6
<1>4. QED  BY <1>2, <1>3

LEMMA RevokeKeepsHostInv ==
    ASSUME HostInv, NEW p \in Procs, NEW r \in Requests, Revoke(p, r)
    PROVE  HostInv'
<1>1. UNCHANGED phase
  BY DEF Revoke
<1>2. CASE Replay(p, r)
  <2>1. PICK i \in RecordsOf(r), outcome \in Outcomes :
        /\ Mutate(p, file, outcome)
        /\ CASE outcome = "ok" -> /\ Revoked(p, i, file.journal[i].target)
                                  /\ UNCHANGED calls
             [] outcome = "refused" -> Lose(p) /\ UNCHANGED calls
             [] OTHER -> /\ calls' = [calls EXCEPT ![p] = r]
                         /\ UNCHANGED <<local, fenced>>
    BY <1>2 DEF Replay
  <2>2. file' = file /\ synced' \in {file, synced} /\ failed \subseteq failed'
        /\ failed' \subseteq Procs /\ (outcome # "ok" => p \in failed')
    BY <2>1 DEF Mutate, HostInv, HostTypes
  <2>3. i \in Nat /\ i <= file.epoch /\ file.epoch \in Nat
    BY <2>1 DEF RecordsOf, HostInv, FileOK, FileSet
  <2>4. CASE outcome = "ok"
    <3>1. Revoked(p, i, file.journal[i].target) /\ UNCHANGED calls
      BY <2>1, <2>4
    <3>2. CASE UNCHANGED local
      <4>1. GivesUp({}) /\ HostTypes' /\ CallsOK'
        BY <3>1, <3>2, <2>2, <1>1 DEF HostInv, HostTypes, CallsOK, GivesUp
      <4>2. QED  BY <4>1, <2>2, <1>1, GivingUpKeepsHostInv
    <3>3. CASE GivesUp({p}) /\ local[p] # None /\ local[p].epoch < i
      <4>1. HostTypes' /\ CallsOK'
        BY <3>1, <3>3, <2>2, <1>1 DEF HostInv, HostTypes, CallsOK, GivesUp
      <4>2. local[p].epoch < file.epoch
        <5>1. local[p].epoch \in Nat
          BY <3>3 DEF HostInv, HostTypes, LeaseSet
        <5>2. QED  BY <5>1, <3>3, <2>3
      <4>3. QED  BY <4>1, <4>2, <3>3, <2>2, <1>1, GivingUpKeepsHostInv
    <3>4. QED  BY <3>1, <3>2, <3>3, RevokedGivesUp DEF HostInv
  <2>5. CASE outcome = "refused"
    <3>1. GivesUp({p})
      BY <2>1, <2>5, LoseGivesUp DEF HostInv
    <3>2. HostTypes' /\ CallsOK'
      BY <2>1, <2>5, <3>1, <2>2, <1>1 DEF HostInv, HostTypes, CallsOK, GivesUp
    <3>3. QED  BY <3>1, <3>2, <2>2, <2>5, <1>1, GivingUpKeepsHostInv
  <2>6. CASE outcome \notin {"ok", "refused"}
    <3>1. calls' = [calls EXCEPT ![p] = r] /\ UNCHANGED local
      BY <2>1, <2>6
    <3>2. GivesUp({}) /\ HostTypes' /\ CallsOK'
      BY <3>1, <2>2, <2>6, <1>1 DEF HostInv, HostTypes, CallsOK, GivesUp
    <3>3. QED  BY <3>2, <2>2, <1>1, GivingUpKeepsHostInv
  <2>7. QED  BY <2>4, <2>5, <2>6
<1>3. CASE Record(p, r)
  <2> DEFINE entry == [request |-> r, target |-> file.active]
             new == [file EXCEPT !.exists = TRUE, !.epoch = @ + 1,
                        !.active = None, !.journal = Append(@, entry)]
  <2>1. PICK outcome \in Outcomes :
         /\ Mutate(p, new, outcome)
         /\ CASE outcome = "ok" ->
                   Revoked(p, new.epoch, file.active) /\ UNCHANGED calls
              [] outcome = "refused" -> Lose(p) /\ UNCHANGED calls
              [] OTHER -> /\ calls' = [calls EXCEPT ![p] = r]
                          /\ UNCHANGED <<local, fenced>>
    BY <1>3 DEF Record
  <2>2. failed \subseteq failed' /\ failed' \subseteq Procs
        /\ (outcome # "ok" => p \in failed')
    BY <2>1 DEF Mutate, HostInv, HostTypes
  <2>3. PICK S \in SUBSET {p} : GivesUp(S) /\ (outcome = "refused" => S = {p})
    <3>1. CASE outcome = "ok"
      <4>1. GivesUp({p}) \/ UNCHANGED local
        BY <2>1, <3>1, RevokedGivesUp DEF HostInv
      <4>2. UNCHANGED local => GivesUp({})
        BY DEF HostInv, HostTypes, GivesUp
      <4>3. QED  BY <4>1, <4>2, <3>1
    <3>2. CASE outcome = "refused"
      BY <2>1, <3>2, LoseGivesUp DEF HostInv
    <3>3. CASE outcome \notin {"ok", "refused"}
      <4>1. UNCHANGED local
        BY <2>1, <3>3
      <4>2. GivesUp({})
        BY <4>1 DEF HostInv, HostTypes, GivesUp
      <4>3. QED  BY <4>2, <3>3
    <3>4. QED  BY <3>1, <3>2, <3>3
  <2>4. HostTypes' /\ CallsOK'
    <3>1. \/ UNCHANGED calls
          \/ calls' = [calls EXCEPT ![p] = r] /\ outcome # "ok"
      BY <2>1
    <3>2. QED  BY <3>1, <2>2, <2>3, <1>1 DEF HostInv, HostTypes, CallsOK, GivesUp
  <2>5. CASE outcome = "refused"
    <3>1. UNCHANGED <<file, synced>>
      BY <2>1, <2>5 DEF Mutate
    <3>2. QED  BY <3>1, <2>2, <2>3, <2>4, <2>5, <1>1, GivingUpKeepsHostInv
  <2>6. CASE outcome # "refused"
    <3>1. file' = new /\ synced' \in {new, synced}
      BY <2>1, <2>6 DEF Mutate
    <3>2. new \in FileSet /\ new.active = None /\ new.epoch = file.epoch + 1
          /\ new.epoch = Len(new.journal) /\ file.epoch \in Nat
      <4>1. file \in FileSet /\ file.epoch = Len(file.journal)
        BY DEF HostInv, FileOK
      <4>2. entry \in Records /\ file.journal \in Seq(Records) /\ file.epoch \in Nat
        BY <4>1 DEF FileSet, Records
      <4> HIDE DEF entry
      <4>3. /\ Append(file.journal, entry) \in Seq(Records)
            /\ Len(Append(file.journal, entry)) = file.epoch + 1
        BY <4>1, <4>2
      <4>4. PICK j \in Seq(Records) :
              j = Append(file.journal, entry) /\ Len(j) = file.epoch + 1
        BY <4>3
      <4>5. new = [file EXCEPT !.exists = TRUE, !.epoch = @ + 1,
                      !.active = None, !.journal = j]
        BY <4>4
      <4> HIDE DEF new
      <4>6. /\ new \in [exists : BOOLEAN, lastToken : Nat, epoch : Nat,
                        journal : Seq(Records), active : LeaseSet \cup {None}]
            /\ new.active = None /\ new.journal = j /\ new.epoch = file.epoch + 1
        <5>1. None \in LeaseSet \cup {None}
          OBVIOUS
        <5>2. file \in [exists : BOOLEAN, lastToken : Nat, epoch : Nat,
                        journal : Seq(Records), active : LeaseSet \cup {None}]
          BY <4>1 DEF FileSet
        <5>3. QED  BY <5>1, <5>2, <4>4, <4>5, ReplacedFile, Zenon
      <4>7. QED  BY <4>2, <4>4, <4>6 DEF FileSet
    <3> HIDE DEF new
    <3>3. FileOK(file)' /\ FileOK(synced)'
      BY <3>1, <3>2, <1>1 DEF HostInv, FileOK
    <3>4. \A q \in Procs \ S : local[q] # None => local[q].epoch < file'.epoch
      BY <3>1, <3>2 DEF HostInv, HostTypes, LeaseSet, LocalOK
    <3>5. file'.active = None /\ file.epoch <= file'.epoch
      BY <3>1, <3>2
    <3>6. QED  BY <3>3, <3>4, <3>5, <2>3, <2>4, <1>1, ClearingKeepsHostInv
  <2>7. QED  BY <2>5, <2>6
<1>4. CASE Refuse(p, r)
  <2>1. Lose(p) /\ failed' = failed \cup {p} /\ UNCHANGED <<file, synced, calls>>
    BY <1>4 DEF Refuse, storeVars
  <2>2. GivesUp({p})
    BY <2>1, LoseGivesUp DEF HostInv
  <2>3. HostTypes' /\ CallsOK'
    BY <2>1, <2>2, <1>1 DEF HostInv, HostTypes, CallsOK, GivesUp
  <2>4. QED  BY <2>1, <2>2, <2>3, <1>1, GivingUpKeepsHostInv
<1>5. QED  BY <1>2, <1>3, <1>4 DEF Revoke

LEMMA ReadbackKeepsHostInv ==
    ASSUME HostInv, NEW p \in Procs, Readback(p)
    PROVE  HostInv'
<1> DEFINE n == Len(file.journal)
<1>1. /\ calls[p] \in Requests /\ calls' = [calls EXCEPT ![p] = None]
      /\ UNCHANGED <<file, synced, phase, failed>>
      /\ Revoked(p, n, file.journal[n].target) \/ Lose(p)
  BY DEF Readback, storeVars, historyVars
<1>2. p \in failed /\ n = file.epoch
  BY <1>1 DEF HostInv, CallsOK, FileOK
<1>3. GivesUp({p}) \/ UNCHANGED local
  BY <1>1, LoseGivesUp, RevokedGivesUp DEF HostInv
<1>4. PICK S \in SUBSET {p} : GivesUp(S)
  <2>1. UNCHANGED local => GivesUp({})
    BY DEF HostInv, HostTypes, GivesUp
  <2>2. QED  BY <1>3, <2>1
<1>5. HostTypes' /\ CallsOK'
  BY <1>1, <1>4 DEF HostInv, HostTypes, CallsOK, GivesUp
<1>6. QED  BY <1>1, <1>2, <1>4, <1>5, GivingUpKeepsHostInv

LEMMA WritingKeepsHostInv ==
    ASSUME HostInv, NEW p \in Procs, Writing(p)
    PROVE  HostInv'
<1>1. /\ UNCHANGED <<file, synced, phase, failed>>
      /\ calls' \in {calls, [calls EXCEPT ![p] = None],
                     [calls EXCEPT ![p] = "writing"]}
      /\ UNCHANGED local \/ (Lose(p) /\ ~Current(p))
  BY DEF Writing, FindNoFile, WriteUnlocked, Write, DelegatedWrite, storeVars,
     historyVars, procVars
<1>2. PICK S \in SUBSET {p} : GivesUp(S) /\ (S = {} \/ ~Current(p))
  <2>1. UNCHANGED local => GivesUp({})
    BY DEF HostInv, HostTypes, GivesUp
  <2>2. Lose(p) => GivesUp({p})
    BY LoseGivesUp DEF HostInv
  <2>3. QED  BY <1>1, <2>1, <2>2
<1>3. HostTypes' /\ CallsOK'
  BY <1>1, <1>2 DEF HostInv, HostTypes, CallsOK, GivesUp
<1>4. QED  BY <1>1, <1>2, <1>3, GivingUpKeepsHostInv

LEMMA WorldKeepsHostInv ==
    ASSUME HostInv,
           Expire \/ PowerFailure \/ \E p \in Procs : Start(p) \/ Die(p)
    PROVE  HostInv'
<1>1. CASE Expire
  <2>1. UNCHANGED <<file, synced, phase, local, calls, failed>>
    BY <1>1 DEF Expire, storeVars, procVars, historyVars
  <2>2. GivesUp({}) /\ HostTypes' /\ CallsOK'
    BY <2>1 DEF HostInv, HostTypes, CallsOK, GivesUp
  <2>3. QED  BY <2>1, <2>2, GivingUpKeepsHostInv
<1>2. CASE PowerFailure
  <2>1. /\ file' \in {file, synced} /\ synced' = file' /\ failed' = failed
        /\ phase' = [p \in Procs |-> IF Up(p) THEN "dead" ELSE phase[p]]
        /\ local' = [p \in Procs |-> None] /\ calls' = [p \in Procs |-> None]
    BY <1>2 DEF PowerFailure, historyVars
  <2>2. \A f \in {file, synced} : f.active # None => f.active.owner \in Procs
    BY DEF HostInv, FileOK, FileSet, LeaseSet
  <2>3. FileOK(file)' /\ FileOK(synced)'
    BY <2>1, <2>2 DEF HostInv, FileOK, HostTypes, Up
  <2>4. HostTypes' /\ CallsOK' /\ LocalOK'
    BY <2>1 DEF HostInv, HostTypes, CallsOK, LocalOK, Up
  <2>5. HostsAreCurrentOrRevoked' /\ OverlapOnlyAfterRevocation'
    BY <2>1 DEF HostsAreCurrentOrRevoked, OverlapOnlyAfterRevocation
  <2>6. LiveLeaseIsHosted'
    BY <2>1, <2>2 DEF LiveLeaseIsHosted, Up, HostInv, HostTypes
  <2>7. QED  BY <2>3, <2>4, <2>5, <2>6 DEF HostInv
<1>3. ASSUME NEW p \in Procs, Start(p) PROVE HostInv'
  <2>1. /\ phase[p] = "new" /\ phase' = [phase EXCEPT ![p] = "up"]
        /\ UNCHANGED <<file, synced, local, calls, failed>>
    BY <1>3 DEF Start, storeVars, historyVars
  <2>2. FileOK(file)' /\ FileOK(synced)'
    BY <2>1 DEF HostInv, FileOK, FileSet, LeaseSet, HostTypes
  <2>3. HostTypes' /\ CallsOK' /\ LocalOK'
    BY <2>1 DEF HostInv, HostTypes, CallsOK, LocalOK, Up
  <2>4. HostsAreCurrentOrRevoked' /\ OverlapOnlyAfterRevocation'
    BY <2>1
    DEF HostInv, HostsAreCurrentOrRevoked, OverlapOnlyAfterRevocation, Current
  <2>5. LiveLeaseIsHosted'
    BY <2>1 DEF HostInv, LiveLeaseIsHosted, Up, Current, FileOK, HostTypes
  <2>6. QED  BY <2>2, <2>3, <2>4, <2>5 DEF HostInv
<1>4. ASSUME NEW p \in Procs, Die(p) PROVE HostInv'
  <2>1. /\ phase' = [phase EXCEPT ![p] = "dead"]
        /\ local' = [local EXCEPT ![p] = None]
        /\ calls' = [calls EXCEPT ![p] = None]
        /\ UNCHANGED <<file, synced, failed>>
    BY <1>4 DEF Die, storeVars, historyVars
  <2>2. FileOK(file)' /\ FileOK(synced)'
    BY <2>1 DEF HostInv, FileOK, FileSet, LeaseSet, HostTypes
  <2>3. HostTypes' /\ CallsOK' /\ LocalOK'
    BY <2>1 DEF HostInv, HostTypes, CallsOK, LocalOK, Up
  <2>4. HostsAreCurrentOrRevoked' /\ OverlapOnlyAfterRevocation'
    BY <2>1 DEF HostInv, HostsAreCurrentOrRevoked, OverlapOnlyAfterRevocation,
       Current, HostTypes
  <2>5. LiveLeaseIsHosted'
    BY <2>1 DEF HostInv, LiveLeaseIsHosted, Up, Current, HostTypes, FileOK,
       FileSet, LeaseSet
  <2>6. QED  BY <2>2, <2>3, <2>4, <2>5 DEF HostInv
<1>5. QED  BY <1>1, <1>2, <1>3, <1>4

LEMMA StepKeepsHostInv == HostInv /\ [Next]_vars => HostInv'
<1> SUFFICES ASSUME HostInv, [Next]_vars PROVE HostInv'
  OBVIOUS
<1>1. ASSUME NEW p \in Procs, Hosting(p) PROVE HostInv'
  BY <1>1, AcquireKeepsHostInv, RenewKeepsHostInv, ReleaseKeepsHostInv DEF Hosting
<1>2. ASSUME NEW p \in Procs, Revoking(p) PROVE HostInv'
  BY <1>2, ReadbackKeepsHostInv, RevokeKeepsHostInv DEF Revoking
<1>3. ASSUME NEW p \in Procs, Writing(p) PROVE HostInv'
  BY <1>3, WritingKeepsHostInv
<1>4. CASE UNCHANGED vars
  <2>1. UNCHANGED <<file, synced, phase, local, calls, failed>>
    BY <1>4 DEF vars
  <2>2. GivesUp({}) /\ HostTypes' /\ CallsOK'
    BY <2>1 DEF HostInv, HostTypes, CallsOK, GivesUp
  <2>3. QED  BY <2>1, <2>2, GivingUpKeepsHostInv
<1>5. QED  BY <1>1, <1>2, <1>3, <1>4, WorldKeepsHostInv DEF Next

LEMMA HostInvAlways == Spec => []HostInv
BY HostInvInit, StepKeepsHostInv, PTL DEF Spec

-----------------------------------------------------------------------------

\* No host is superseded in silence: it is the one in the file or it was
\* revoked, whatever store operations failed and even after a power failure.
THEOREM HostsAreKnown == Spec => []HostsAreCurrentOrRevoked
<1>1. HostInv => HostsAreCurrentOrRevoked
  BY DEF HostInv
<1>2. QED  BY <1>1, HostInvAlways, PTL

\* Two processes that host the session at once were admitted under different
\* epochs: a revocation came between them.
THEOREM HostsAreFenced == Spec => []OverlapOnlyAfterRevocation
<1>1. HostInv => OverlapOnlyAfterRevocation
  BY DEF HostInv
<1>2. QED  BY <1>1, HostInvAlways, PTL

\* A live process keeps a session from others without hosting it only after
\* one of its own store operations threw.
THEOREM LeasesAreHosted == Spec => []LiveLeaseIsHosted
<1>1. HostInv => LiveLeaseIsHosted
  BY DEF HostInv
<1>2. QED  BY <1>1, HostInvAlways, PTL

-----------------------------------------------------------------------------
(* What depends on the file never going back.                              *)

TokensForward ==
    /\ \A l \in leases : l \in LeaseSet /\ l.token <= file.lastToken
    /\ file.active # None => file.active.token = file.lastToken

JournalKeepsRequests ==
    /\ DOMAIN revoked = Requests
    /\ \A r \in Requests :
         \/ revoked[r] = {}
         \/ RecordsOf(r) # {} /\ \E l : revoked[r] = {l}

ForwardInv == TokensForward /\ JournalKeepsRequests

LEMMA ForwardInvInit == Init => ForwardInv
BY DEF Init, NoFile, ForwardInv, TokensForward, JournalKeepsRequests

LEMMA UnchangedKeepsForwardInv ==
    ASSUME ForwardInv, UNCHANGED <<file, leases, revoked>>
    PROVE  ForwardInv'
BY DEF ForwardInv, TokensForward, JournalKeepsRequests, RecordsOf

LEMMA AcquireKeepsForwardInv ==
    ASSUME HostInv, ForwardInv, NEW p \in Procs, Acquire(p)
    PROVE  ForwardInv'
<1> DEFINE lease == [token |-> file.lastToken + 1, epoch |-> file.epoch,
                     owner |-> p]
           new == [file EXCEPT !.exists = TRUE, !.lastToken = @ + 1,
                      !.active = lease]
<1>1. UNCHANGED revoked
  BY DEF Acquire
<1>2. \/ file' = file /\ leases' = leases
      \/ file' = new /\ leases' = leases \cup {lease}
  BY DEF Acquire, Mutate
<1>3. lease \in LeaseSet /\ lease.token = file.lastToken + 1
      /\ file.lastToken \in Nat
  BY DEF HostInv, FileOK, FileSet, LeaseSet
<1>4. new.lastToken = file.lastToken + 1 /\ new.active = lease
      /\ new.journal = file.journal
  BY DEF HostInv, FileOK, FileSet
<1> HIDE DEF lease, new
<1>5. CASE file' = new /\ leases' = leases \cup {lease}
  <2>1. TokensForward'
    BY <1>3, <1>4, <1>5 DEF ForwardInv, TokensForward, LeaseSet
  <2>2. JournalKeepsRequests'
    <3>1. file'.journal = file.journal
      BY <1>4, <1>5
    <3>2. \A q \in Requests : RecordsOf(q)' = RecordsOf(q)
      BY <3>1 DEF RecordsOf
    <3>3. QED  BY <1>1, <3>2 DEF ForwardInv, JournalKeepsRequests
  <2>3. QED  BY <2>1, <2>2 DEF ForwardInv
<1>6. QED  BY <1>1, <1>2, <1>5, UnchangedKeepsForwardInv

LEMMA ReleaseKeepsForwardInv ==
    ASSUME HostInv, ForwardInv, NEW p \in Procs, Release(p)
    PROVE  ForwardInv'
<1>1. UNCHANGED <<leases, revoked>>
      /\ file' \in {file, [file EXCEPT !.active = None]}
  BY DEF Release, Mutate, storeVars
<1>2. CASE file' = [file EXCEPT !.active = None]
  <2>1. file'.active = None /\ file'.lastToken = file.lastToken
        /\ file'.journal = file.journal
    BY <1>2 DEF HostInv, FileOK, FileSet
  <2>2. QED  BY <2>1, <1>1
    DEF ForwardInv, TokensForward, JournalKeepsRequests, RecordsOf
<1>3. QED  BY <1>1, <1>2, UnchangedKeepsForwardInv

LEMMA RecordKeepsForwardInv ==
    ASSUME HostInv, ForwardInv, NEW p \in Procs, NEW r \in Requests,
           Record(p, r), UNCHANGED leases
    PROVE  ForwardInv'
<1> DEFINE entry == [request |-> r, target |-> file.active]
           journal == Append(file.journal, entry)
           new == [file EXCEPT !.exists = TRUE, !.epoch = @ + 1,
                      !.active = None, !.journal = journal]
<1>1. RecordsOf(r) = {}
  BY DEF Record
<1>2. \/ file' = file /\ revoked' = revoked
      \/ /\ file' = new
         /\ revoked' = revoked \/ revoked' = [revoked EXCEPT ![r] = @ \cup {file.active}]
  BY DEF Record, Mutate
<1>3. file.journal \in Seq(Records) /\ entry \in Records /\ file \in FileSet
  BY DEF HostInv, FileOK, FileSet, Records
<1>4. entry.request = r
  OBVIOUS
<1>5. new.active = None /\ new.lastToken = file.lastToken /\ new.journal = journal
  BY <1>3 DEF FileSet
<1> HIDE DEF entry
<1>6. /\ DOMAIN file.journal \subseteq DOMAIN journal
      /\ \A i \in DOMAIN file.journal : journal[i] = file.journal[i]
      /\ Len(journal) \in DOMAIN journal /\ journal[Len(journal)] = entry
  BY <1>3
<1> HIDE DEF journal, new
<1>7. CASE file' = new /\ (revoked' = revoked
                    \/ revoked' = [revoked EXCEPT ![r] = @ \cup {file.active}])
  <2>1. TokensForward'
    BY <1>5, <1>7 DEF ForwardInv, TokensForward
  <2>2. \A q \in Requests : RecordsOf(q) # {} => RecordsOf(q)' # {}
    BY <1>5, <1>6, <1>7 DEF RecordsOf
  <2>3. RecordsOf(r)' # {}
    BY <1>4, <1>5, <1>6, <1>7 DEF RecordsOf
  <2>4. DOMAIN revoked = Requests /\ revoked[r] = {}
    BY <1>1 DEF ForwardInv, JournalKeepsRequests
  <2>5. /\ DOMAIN revoked' = Requests
        /\ \A q \in Requests \ {r} : revoked'[q] = revoked[q]
        /\ revoked'[r] \in {{}, {file.active}}
    BY <1>7, <2>4
  <2>6. ASSUME NEW q \in Requests
        PROVE  revoked'[q] = {} \/ (RecordsOf(q)' # {} /\ \E l : revoked'[q] = {l})
    <3>1. CASE q = r
      BY <3>1, <2>3, <2>5
    <3>2. CASE q # r
      BY <3>2, <2>2, <2>5 DEF ForwardInv, JournalKeepsRequests
    <3>3. QED  BY <3>1, <3>2
  <2>7. JournalKeepsRequests'
    BY <2>5, <2>6 DEF JournalKeepsRequests
  <2>8. QED  BY <2>1, <2>7 DEF ForwardInv
<1>8. QED  BY <1>2, <1>7, UnchangedKeepsForwardInv

LEMMA StepKeepsForwardInv ==
    ASSUME HostInv, ForwardInv, [Next]_vars, ~PowerFailure
    PROVE  ForwardInv'
<1>1. ASSUME NEW p \in Procs, Hosting(p) PROVE ForwardInv'
  <2>1. CASE Renew(p)
    <3>1. UNCHANGED <<file, leases, revoked>>
      BY <2>1 DEF Renew, Mutate, storeVars
    <3>2. QED  BY <3>1, UnchangedKeepsForwardInv
  <2>2. QED
    BY <1>1, <2>1, AcquireKeepsForwardInv, ReleaseKeepsForwardInv DEF Hosting
<1>2. ASSUME NEW p \in Procs, Revoking(p) PROVE ForwardInv'
  <2>1. CASE Readback(p)
    <3>1. UNCHANGED <<file, leases, revoked>>
      BY <2>1 DEF Readback, storeVars, historyVars
    <3>2. QED  BY <3>1, UnchangedKeepsForwardInv
  <2>2. ASSUME NEW r \in Requests, Revoke(p, r) PROVE ForwardInv'
    <3>1. CASE Replay(p, r) \/ Refuse(p, r)
      <4>1. UNCHANGED <<file, leases, revoked>>
        BY <3>1, <2>2 DEF Revoke, Replay, Refuse, Mutate, storeVars
      <4>2. QED  BY <4>1, UnchangedKeepsForwardInv
    <3>2. CASE Record(p, r)
      BY <3>2, <2>2, RecordKeepsForwardInv DEF Revoke
    <3>3. QED  BY <2>2, <3>1, <3>2 DEF Revoke
  <2>3. QED  BY <1>2, <2>1, <2>2 DEF Revoking
<1>3. CASE \/ \E p \in Procs : Writing(p) \/ Start(p) \/ Die(p)
           \/ Expire \/ UNCHANGED vars
  <2>1. UNCHANGED <<file, leases, revoked>>
    BY <1>3 DEF Writing, FindNoFile, WriteUnlocked, Write, DelegatedWrite, Start,
       Die, Expire, storeVars, historyVars, vars
  <2>2. QED  BY <2>1, UnchangedKeepsForwardInv
<1>4. QED  BY <1>1, <1>2, <1>3 DEF Next

\* The file never goes back before the power fails.
ForwardUntilLoss == ~powerFailed => ForwardInv

LEMMA StepKeepsForwardUntilLoss ==
    ASSUME HostInv, ForwardUntilLoss, [Next]_vars
    PROVE  ForwardUntilLoss'
<1>1. CASE PowerFailure
  BY <1>1 DEF PowerFailure, ForwardUntilLoss
<1>2. CASE ~PowerFailure
  <2>1. powerFailed' = powerFailed
    BY <1>2 DEF Next, vars, Hosting, Revoking, Writing, Acquire, Renew, Release,
       Revoke, Readback, FindNoFile, WriteUnlocked, Write, DelegatedWrite, Start,
       Die, Expire
  <2>2. QED  BY <1>2, <2>1, StepKeepsForwardInv DEF ForwardUntilLoss
<1>3. QED  BY <1>1, <1>2

\* Until the power fails a request for revocation ends at most one lease, however
\* often it is repeated and whichever of its answers were lost.
THEOREM ReplaySparesSuccessors == Spec => []RequestRevokesOnce
<1>1. ForwardUntilLoss => RequestRevokesOnce
  <2> SUFFICES ASSUME ForwardInv, NEW r \in Requests
               PROVE  Cardinality(revoked[r]) <= 1
    BY DEF RequestRevokesOnce, ForwardUntilLoss
  <2>1. CASE revoked[r] = {}
    BY <2>1, FS_EmptySet
  <2>2. ASSUME NEW l, revoked[r] = {l} PROVE Cardinality(revoked[r]) <= 1
    <3>1. Cardinality({l}) = 1
      BY FS_Singleton
    <3>2. QED  BY <2>2, <3>1
  <2>3. revoked[r] = {} \/ \E l : revoked[r] = {l}
    BY DEF ForwardInv, JournalKeepsRequests
  <2>4. QED  BY <2>1, <2>2, <2>3
<1>2. Init => ForwardUntilLoss
  BY ForwardInvInit DEF ForwardUntilLoss
<1>3. HostInv /\ ForwardUntilLoss /\ [Next]_vars => ForwardUntilLoss'
  BY StepKeepsForwardUntilLoss
<1>4. QED  BY <1>1, <1>2, <1>3, HostInvAlways, PTL DEF Spec

LEMMA StepWritesForward ==
    ASSUME HostInv, ForwardInv, Next, wrote' # wrote, wrote'.token # 0
    PROVE  \A l \in leases : l.token <= wrote'.token
<1>1. wrote'.token = file.lastToken
  <2>1. PICK p \in Procs : Writing(p)
    BY DEF Next, Hosting, Revoking, Acquire, Renew, Release, Revoke, Readback,
       Start, Die, Expire, PowerFailure, historyVars
  <2>2. ~WriteUnlocked(p) /\ ~FindNoFile(p)
    BY DEF WriteUnlocked, Written, FindNoFile, historyVars
  <2>3. CASE Write(p)
    <3>1. Current(p) /\ Written(p, local[p].token)
      BY <2>3 DEF Write, Written
    <3>2. QED
      BY <3>1 DEF Current, Written, ForwardInv, TokensForward
  <2>4. ASSUME NEW lease \in leases, DelegatedWrite(p, lease)
        PROVE  wrote'.token = file.lastToken
    <3>1. file.active = lease /\ lease # None /\ wrote'.token = lease.token
      BY <2>4, LeaseIsNotNone
      DEF DelegatedWrite, Written, ForwardInv, TokensForward
    <3>2. QED  BY <3>1 DEF ForwardInv, TokensForward
  <2>5. QED  BY <2>1, <2>2, <2>3, <2>4 DEF Writing
<1>2. QED  BY <1>1 DEF ForwardInv, TokensForward

\* Until the power fails nothing is written under a lease that has had a
\* successor, by its owner or by whom it delegated to.
THEOREM OldLeasesDoNotWrite == Spec => LeasedWritesGoForward
<1>1. HostInv /\ ForwardUntilLoss /\ [Next]_vars =>
        [wrote' # wrote /\ wrote'.token # 0 /\ ~powerFailed =>
           \A lease \in leases : lease.token <= wrote'.token]_vars
  BY StepWritesForward DEF ForwardUntilLoss
<1>2. HostInv /\ ForwardUntilLoss /\ [Next]_vars => ForwardUntilLoss'
  BY StepKeepsForwardUntilLoss
<1>3. Init => ForwardUntilLoss
  BY ForwardInvInit DEF ForwardUntilLoss
<1>4. QED
  BY <1>1, <1>2, <1>3, HostInvAlways, PTL DEF Spec, LeasedWritesGoForward

=============================================================================
