--------------------------- MODULE SignalingProofs ---------------------------
(***************************************************************************)
(* Proofs about SignalingServer, for any number of sockets and peers and   *)
(* any limits: registrations and sockets agree in every reachable state, a *)
(* message is lost silently only with the connection it was for, and the   *)
(* totals of the offline store count exactly what is stored and stay below *)
(* their limits.  Where frames of undeliverable size are not relayed, the  *)
(* queue of a peer is empty while it is online, and its messages reach it  *)
(* in the order in which they were accepted.                               *)
(***************************************************************************)
EXTENDS SignalingServer, FiniteSetTheorems, SequenceTheorems, TLAPS

SocketStates == {"open", "closing", "closed"}

SocketTypes ==
    /\ ready \in [Conns -> SocketStates]
    /\ peerOf \in [Conns -> Peers \cup {None}]
    /\ connections \subseteq Conns
    /\ clients \in [Peers -> Conns \cup {None}]

\* A socket that is not accepted yet has no peer and is not a connection.
FreshSockets ==
    \A c \in Conns : ready[c] = "closed" => c \notin connections /\ peerOf[c] = None

SocketInv == SocketTypes /\ FreshSockets /\ RegistrationMatchesSockets

-----------------------------------------------------------------------------

\* Sending only ever closes sockets.
LEMMA SendToOnlyCloses ==
    ASSUME NEW states \in [Conns -> SocketStates], NEW targets
    PROVE  /\ SendTo(states, targets) \in [Conns -> SocketStates]
           /\ \A c \in Conns : \/ SendTo(states, targets)[c] = states[c]
                               \/ /\ states[c] = "open"
                                  /\ SendTo(states, targets)[c] = "closing"
BY DEF SendTo, SocketStates

\* So does closing, and the socket is not open afterwards.
LEMMA ClosingOnlyCloses ==
    ASSUME NEW states \in [Conns -> SocketStates], NEW d \in Conns
    PROVE  /\ Closing(states, d) \in [Conns -> SocketStates]
           /\ Closing(states, d)[d] # "open"
           /\ \A c \in Conns : \/ Closing(states, d)[c] = states[c]
                               \/ /\ states[c] = "open"
                                  /\ Closing(states, d)[c] = "closing"
BY DEF Closing, SocketStates

\* What a step does to the sockets, when it only closes some of them.
OnlyCloses ==
    /\ ready' \in [Conns -> SocketStates]
    /\ \A c \in Conns : \/ ready'[c] = ready[c]
                        \/ ready[c] = "open" /\ ready'[c] = "closing"

LEMMA ClosingKeepsSocketInv ==
    ASSUME SocketInv, OnlyCloses,
           UNCHANGED <<peerOf, connections, clients>>
    PROVE  SocketInv'
<1>1. SocketTypes'
  BY DEF SocketInv, SocketTypes, OnlyCloses
<1>2. FreshSockets'
  BY DEF SocketInv, SocketTypes, FreshSockets, OnlyCloses
<1>3. RegistrationMatchesSockets'
  BY DEF SocketInv, SocketTypes, RegistrationMatchesSockets, OnlyCloses, Open
<1>4. QED  BY <1>1, <1>2, <1>3 DEF SocketInv

LEMMA SocketInvInit == Init => SocketInv
BY SignalingAssumption
DEF Init, SocketInv, SocketTypes, SocketStates, FreshSockets, RegistrationMatchesSockets, Open

LEMMA ConnectionKeepsSocketInv ==
    ASSUME SocketInv, NEW c \in Conns, HandleConnection(c)
    PROVE  SocketInv'
BY DEF SocketInv, SocketTypes, FreshSockets, RegistrationMatchesSockets,
       SocketStates, HandleConnection, Open

\* A socket that leaves opens none, and takes at most its own registration along.
LEMMA DisconnectionCloses ==
    ASSUME SocketInv, NEW c \in Conns, HandleDisconnection(c)
    PROVE  /\ ready' \in [Conns -> SocketStates]
           /\ \A d \in Conns : /\ ready'[d] = "open" => ready[d] = "open" /\ d # c
                               /\ ready'[d] = "closed" => ready[d] = "closed" \/ d = c
           /\ clients' \in [Peers -> Conns \cup {None}]
           /\ \A q \in Peers : clients'[q] # None => clients'[q] = clients[q]
           /\ \A q \in Peers : clients'[q] # c
           /\ \A q \in Peers : clients[q] # c => clients'[q] = clients[q]
<1> DEFINE p == peerOf[c]
           leaves == p # None /\ clients[p] = c
           clients2 == IF leaves THEN [clients EXCEPT ![p] = None] ELSE clients
           closed == [ready EXCEPT ![c] = "closed"]
<1>1. clients' = clients2
  BY DEF HandleDisconnection
<1>2. ready' = closed \/ ready' = SendTo(closed, Listed(clients2, Peers))
  BY DEF HandleDisconnection
<1>3. closed \in [Conns -> SocketStates]
  BY DEF SocketInv, SocketTypes, SocketStates
<1>4. clients2 \in [Peers -> Conns \cup {None}]
      /\ \A q \in Peers : /\ clients2[q] # None => clients2[q] = clients[q]
                          /\ clients2[q] # c
                          /\ clients[q] # c => clients2[q] = clients[q]
  BY SignalingAssumption
  DEF SocketInv, SocketTypes, RegistrationMatchesSockets
<1> HIDE DEF clients2
<1>5. \A d \in Conns : \/ ready'[d] = closed[d]
                       \/ closed[d] = "open" /\ ready'[d] = "closing"
  <2> HIDE DEF closed
  <2>1. CASE ready' = closed
    BY <2>1
  <2>2. CASE ready' = SendTo(closed, Listed(clients2, Peers))
    BY <2>2, <1>3, SendToOnlyCloses
  <2>3. QED  BY <1>2, <2>1, <2>2
<1>6. ready' \in [Conns -> SocketStates]
  <2> HIDE DEF closed
  <2>1. QED  BY <1>2, <1>3, SendToOnlyCloses
<1>7. QED  BY <1>1, <1>4, <1>5, <1>6 DEF SocketInv, SocketTypes

LEMMA DisconnectionKeepsSocketInv ==
    ASSUME SocketInv, NEW c \in Conns, HandleDisconnection(c)
    PROVE  SocketInv'
<1>1. /\ connections' = connections \ {c} /\ c \in connections
      /\ peerOf' = [peerOf EXCEPT ![c] = None]
  BY DEF HandleDisconnection, Forget
<1>2. /\ ready' \in [Conns -> SocketStates]
      /\ \A d \in Conns : /\ ready'[d] = "open" => ready[d] = "open" /\ d # c
                          /\ ready'[d] = "closed" => ready[d] = "closed" \/ d = c
      /\ clients' \in [Peers -> Conns \cup {None}]
      /\ \A q \in Peers : clients'[q] # None => clients'[q] = clients[q]
      /\ \A q \in Peers : clients'[q] # c
      /\ \A q \in Peers : clients[q] # c => clients'[q] = clients[q]
  BY DisconnectionCloses
<1>3. SocketTypes'
  BY <1>1, <1>2 DEF SocketInv, SocketTypes
<1>4. FreshSockets'
  BY <1>1, <1>2 DEF SocketInv, SocketTypes, FreshSockets
<1>5. RegistrationMatchesSockets'
  BY <1>1, <1>2
  DEF SocketInv, SocketTypes, RegistrationMatchesSockets, Open
<1>6. QED  BY <1>3, <1>4, <1>5 DEF SocketInv

\* A registration closes the socket that it replaces; the socket that registers
\* stays open only if the whole of the queue was written to it.
LEMMA RegistrationCloses ==
    ASSUME SocketInv, NEW c \in Conns, NEW p \in Peers, HandleRegister(c, p)
    PROVE  /\ OnlyCloses
           /\ clients[p] \in Conns \ {c} => ready'[clients[p]] # "open"
           /\ ready'[c] = "open" => Deliver(p, Deliverable(queues[p]))
<1> DEFINE previous == clients[p]
           replaced == IF previous \in Conns \ {c} THEN Closing(ready, previous)
                       ELSE ready
           answered == SendTo(replaced, {c})
           others   == Listed([clients EXCEPT ![p] = c], Peers \ {p})
<1>1. \/ answered[c] # "open" /\ ready' = SendTo(answered, others)
      \/ /\ Deliver(p, Deliverable(queues[p]))
         /\ ready' = SendTo(answered, others)
      \/ ready' = SendTo(Closing(answered, c), others)
  BY DEF HandleRegister
<1>2. /\ replaced \in [Conns -> SocketStates]
      /\ \A d \in Conns : \/ replaced[d] = ready[d]
                          \/ ready[d] = "open" /\ replaced[d] = "closing"
      /\ previous \in Conns \ {c} => replaced[previous] # "open"
  BY ClosingOnlyCloses DEF SocketInv, SocketTypes
<1> HIDE DEF replaced, others, previous
<1>3. /\ answered \in [Conns -> SocketStates]
      /\ \A d \in Conns : \/ answered[d] = replaced[d]
                          \/ replaced[d] = "open" /\ answered[d] = "closing"
  BY <1>2, SendToOnlyCloses
<1> HIDE DEF answered
<1>4. /\ Closing(answered, c) \in [Conns -> SocketStates]
      /\ Closing(answered, c)[c] # "open"
      /\ \A d \in Conns : \/ Closing(answered, c)[d] = answered[d]
                          \/ /\ answered[d] = "open"
                             /\ Closing(answered, c)[d] = "closing"
  BY <1>3, ClosingOnlyCloses
<1>5. /\ ready' \in [Conns -> SocketStates]
      /\ \A d \in Conns :
           \/ ready'[d] = answered[d]
           \/ answered[d] = "open" /\ ready'[d] = "closing"
      /\ ready'[c] = "open" => Deliver(p, Deliverable(queues[p]))
  <2>1. CASE ready' = SendTo(answered, others)
    <3>1. /\ ready' \in [Conns -> SocketStates]
          /\ \A d \in Conns : \/ ready'[d] = answered[d]
                              \/ answered[d] = "open" /\ ready'[d] = "closing"
      BY <2>1, <1>3, SendToOnlyCloses
    <3>2. CASE answered[c] # "open"
      BY <3>1, <3>2
    <3>3. CASE ready' = SendTo(Closing(answered, c), others)
      <4>1. ready'[c] # "open"
        BY <3>3, <1>4, SendToOnlyCloses
      <4>2. QED  BY <3>1, <4>1
    <3>4. QED  BY <3>1, <3>2, <3>3, <1>1
  <2>2. CASE ready' = SendTo(Closing(answered, c), others)
    <3>1. /\ ready' \in [Conns -> SocketStates]
          /\ \A d \in Conns : \/ ready'[d] = Closing(answered, c)[d]
                              \/ /\ Closing(answered, c)[d] = "open"
                                 /\ ready'[d] = "closing"
      BY <2>2, <1>4, SendToOnlyCloses
    <3>2. QED  BY <3>1, <1>4
  <2>3. QED  BY <1>1, <2>1, <2>2
<1>6. OnlyCloses
  BY <1>2, <1>3, <1>5 DEF OnlyCloses
<1>7. previous \in Conns \ {c} => ready'[previous] # "open"
  BY <1>2, <1>3, <1>5
<1>8. QED  BY <1>5, <1>6, <1>7 DEF previous

LEMMA RegisterKeepsSocketInv ==
    ASSUME SocketInv, NEW c \in Conns, NEW p \in Peers, HandleRegister(c, p)
    PROVE  SocketInv'
<1>1. /\ c \in connections /\ peerOf[c] \in {None, p}
      /\ peerOf' = [peerOf EXCEPT ![c] = p]
      /\ clients' = [clients EXCEPT ![p] = c]
      /\ UNCHANGED connections
  BY DEF HandleRegister, Receives
<1>2. OnlyCloses /\ (clients[p] \in Conns \ {c} => ready'[clients[p]] # "open")
  BY RegistrationCloses
<1>3. SocketTypes'
  BY <1>1, <1>2 DEF SocketInv, SocketTypes, OnlyCloses
<1>4. FreshSockets'
  BY <1>1, <1>2 DEF SocketInv, SocketTypes, FreshSockets, OnlyCloses
<1>5. ASSUME NEW q \in Peers, clients'[q] # None
      PROVE  clients'[q] \in connections' /\ peerOf'[clients'[q]] = q
  BY <1>1, <1>5, SignalingAssumption
  DEF SocketInv, SocketTypes, RegistrationMatchesSockets
<1>6. ASSUME NEW d \in connections', ready'[d] = "open", peerOf'[d] # None
      PROVE  clients'[peerOf'[d]] = d
  <2>1. CASE d = c
    BY <2>1, <1>1 DEF SocketInv, SocketTypes
  <2>2. CASE d # c
    <3>1. ready[d] = "open" /\ peerOf'[d] = peerOf[d] /\ d \in Conns
          /\ d \in connections
      BY <2>2, <1>1, <1>2, <1>6 DEF SocketInv, SocketTypes, OnlyCloses
    <3>2. clients[peerOf[d]] = d /\ peerOf[d] \in Peers
      BY <3>1, <1>6 DEF SocketInv, SocketTypes, RegistrationMatchesSockets, Open
    <3>3. peerOf[d] # p
      BY <3>1, <3>2, <2>2, <1>2, <1>6
    <3>4. QED  BY <1>1, <3>1, <3>2, <3>3 DEF SocketInv, SocketTypes
  <2>3. QED  BY <2>1, <2>2
<1>7. RegistrationMatchesSockets'
  BY <1>5, <1>6 DEF RegistrationMatchesSockets, Open
<1>8. QED  BY <1>3, <1>4, <1>7 DEF SocketInv

LEMMA StepKeepsSocketInv == SocketInv /\ [Next]_vars => SocketInv'
<1> SUFFICES ASSUME SocketInv, [Next]_vars PROVE SocketInv'
  OBVIOUS
<1> USE DEF SocketInv, SocketTypes
<1>1. CASE Heartbeat
  <2>1. OnlyCloses
    BY <1>1 DEF Heartbeat, OnlyCloses, Closing, SocketStates
  <2>2. QED  BY <1>1, <2>1, ClosingKeepsSocketInv DEF Heartbeat
<1>2. CASE Cleanup
  <2>1. OnlyCloses /\ UNCHANGED <<peerOf, connections, clients>>
    BY <1>2 DEF Cleanup, OnlyCloses, socketVars
  <2>2. QED  BY <2>1, ClosingKeepsSocketInv
<1>3. CASE Stop
  BY <1>3 DEF Stop, SocketStates, FreshSockets, RegistrationMatchesSockets, Open
<1>4. ASSUME NEW c \in Conns, Handle(c) PROVE SocketInv'
  <2>1. CASE HandleConnection(c)
    BY <2>1, ConnectionKeepsSocketInv
  <2>2. CASE HandleDisconnection(c)
    BY <2>2, DisconnectionKeepsSocketInv
  <2>3. CASE StartClosing(c)
    <3>1. OnlyCloses
      BY <2>3, ClosingOnlyCloses DEF StartClosing, OnlyCloses
    <3>2. QED  BY <2>3, <3>1, ClosingKeepsSocketInv DEF StartClosing
  <2>4. CASE Pong(c)
    <3>1. OnlyCloses
      BY <2>4 DEF Pong, OnlyCloses
    <3>2. QED  BY <2>4, <3>1, ClosingKeepsSocketInv DEF Pong
  <2>5. ASSUME NEW p \in Peers, HandleRegister(c, p) PROVE SocketInv'
    BY <2>5, RegisterKeepsSocketInv
  <2>6. ASSUME NEW p \in Peers, NEW k \in Kinds, HandleMessage(c, p, k)
        PROVE  SocketInv'
    <3>1. ready' = SendTo(ready, {clients[p]}) \/ ready' = SendTo(ready, {c})
      BY <2>6 DEF HandleMessage, Forward, Enqueue
    <3>2. OnlyCloses
      BY <3>1, SendToOnlyCloses DEF OnlyCloses
    <3>3. QED  BY <2>6, <3>2, ClosingKeepsSocketInv DEF HandleMessage
  <2>7. QED  BY <1>4, <2>1, <2>2, <2>3, <2>4, <2>5, <2>6 DEF Handle
<1>5. ASSUME NEW c \in Conns, World(c) PROVE SocketInv'
  <2>1. OnlyCloses /\ UNCHANGED <<peerOf, connections, clients>>
    BY <1>5 DEF World, Congest, Drain, FallSilent, OnlyCloses, socketVars
  <2>2. QED  BY <2>1, ClosingKeepsSocketInv
<1>6. CASE Start \/ UNCHANGED vars
  <2>1. OnlyCloses /\ UNCHANGED <<peerOf, connections, clients>>
    BY <1>6 DEF Start, vars, socketVars, OnlyCloses
  <2>2. QED  BY <2>1, ClosingKeepsSocketInv
<1>7. QED  BY <1>1, <1>2, <1>3, <1>4, <1>5, <1>6 DEF Next

-----------------------------------------------------------------------------

\* In every reachable state registrations and sockets agree, however frames
\* and close events of old and new sockets of a peer interleave.
THEOREM RegistrationsCorrect == Spec => []RegistrationMatchesSockets
<1>1. SocketInv => RegistrationMatchesSockets
  BY DEF SocketInv
<1>2. QED  BY <1>1, SocketInvInit, StepKeepsSocketInv, PTL DEF Spec

LEMMA StepLosesWithTarget ==
    ASSUME SocketInv, Next
    PROVE  \A m \in dropped' \ dropped : m.kind # "oversized" =>
             clients[m.to] # None /\ ready'[clients[m.to]] # "open"
<1>1. SUFFICES ASSUME NEW m \in dropped' \ dropped, m.kind # "oversized"
               PROVE  clients[m.to] # None /\ ready'[clients[m.to]] # "open"
  OBVIOUS
<1>2. PICK c \in Conns, p \in Peers, k \in Kinds : HandleMessage(c, p, k)
  BY <1>1 DEF Next, Heartbeat, Cleanup, Stop, Start, Handle, World, Congest,
     Drain, FallSilent, HandleConnection, HandleDisconnection, StartClosing, Pong,
     HandleRegister, history
<1> DEFINE n == [id |-> sent + 1, kind |-> k, to |-> p]
<1>3. Forward(p, n)
  BY <1>1, <1>2 DEF HandleMessage, Enqueue
<1>4. m = n /\ m.to = p /\ n.kind = m.kind
  BY <1>1, <1>3 DEF Forward
<1> HIDE DEF n
<1>5. clients[p] # None /\ clients[p] \in slow /\ ready[clients[p]] = "open"
  BY <1>1, <1>3, <1>4 DEF Forward, Online, Open
<1>6. clients[p] \in Conns /\ ready' = SendTo(ready, {clients[p]})
  BY <1>3, <1>5 DEF Forward, SocketInv, SocketTypes
<1>7. QED  BY <1>4, <1>5, <1>6 DEF SendTo

\* A message that fits in a frame is lost without a word only in a step that
\* closes the connection it was for.
THEOREM LossIsNoticed == Spec => LossClosesTarget
<1>1. SocketInv /\ [Next]_vars =>
        [\A m \in dropped' \ dropped : m.kind # "oversized" =>
           clients[m.to] # None /\ ready'[clients[m.to]] # "open"]_vars
  BY StepLosesWithTarget
<1>2. QED
  BY <1>1, SocketInvInit, StepKeepsSocketInv, PTL DEF Spec, LossClosesTarget

-----------------------------------------------------------------------------
(* The store.  An entry is a peer and a place in its queue; the lemmas say *)
(* what storing a message and taking messages from the front of queues do  *)
(* to the number of entries.                                               *)

Message == [id : Nat, kind : AllKinds, to : Peers]

Slots(qs) == UNION {{p} \X DOMAIN qs[p] : p \in Peers}

Heavy(qs, es) == {e \in es : qs[e[1]][e[2]].kind # "plain"}

\* Taking k[p] messages from the front of each queue: what goes, what is left.
Front(qs, k) == {e \in Slots(qs) : e[2] <= k[e[1]]}

Rest(qs, k) == [p \in Peers |-> SubSeq(qs[p], k[p] + 1, Len(qs[p]))]

\* n messages of one peer.
Only(p, n) == [q \in Peers |-> IF q = p THEN n ELSE 0]

HeavyPlaces(q) == {i \in DOMAIN q : q[i].kind # "plain"}

\* A set of natural numbers that is not empty has a least element.
LEMMA LeastNumber ==
    ASSUME NEW T, T \subseteq Nat, T # {}
    PROVE  \E x \in T : \A y \in T : x <= y
<1> DEFINE R == {ss \in Nat \X Nat : ss[1] < ss[2]}
<1>1. IsWellFoundedOn(R, Nat)
  BY NatLessThanWellFounded DEF OpToRel
<1>2. PICK x \in T : \A y \in T : ~ (<<y, x>> \in R)
  <2> HIDE DEF R
  <2>1. QED  BY <1>1, WFMin
<1>3. \A y \in T : x \in Nat /\ y \in Nat /\ ~(y < x)
  BY <1>2
<1>4. QED  BY <1>3

\* The places of a queue, and of a queue that lost its first messages.
LEMMA SlotsAre ==
    ASSUME NEW qs \in [Peers -> Seq(Message)]
    PROVE  /\ Slots(qs) \subseteq Peers \X Nat
           /\ \A p \in Peers, i \in Int : <<p, i>> \in Slots(qs) <=> i \in 1 .. Len(qs[p])
<1>1. \A p \in Peers : DOMAIN qs[p] = 1 .. Len(qs[p]) /\ Len(qs[p]) \in Nat
  BY LenProperties
<1>2. QED  BY <1>1 DEF Slots

LEMMA FrontGone ==
    ASSUME NEW q \in Seq(Message), NEW k \in 0 .. Len(q)
    PROVE  LET rest == SubSeq(q, k + 1, Len(q)) IN
           /\ rest \in Seq(Message) /\ Len(rest) = Len(q) - k
           /\ \A i \in 1 .. Len(rest) : rest[i] = q[i + k]
<1>1. Len(q) \in Nat /\ \A i \in 1 .. Len(q) : q[i] \in Message
  BY LenProperties
<1>2. \A i \in (k + 1) .. Len(q) : q[i] \in Message
  BY <1>1
<1>3. k + 1 \in Int /\ Len(q) \in Int /\ k \in Int
  BY <1>1
<1> DEFINE rest == SubSeq(q, k + 1, Len(q))
<1>4. /\ rest \in Seq(Message)
      /\ Len(rest) = IF k + 1 <= Len(q) THEN Len(q) - (k + 1) + 1 ELSE 0
      /\ \A i \in 1 .. Len(q) - (k + 1) + 1 : rest[i] = q[(k + 1) + i - 1]
  BY <1>2, <1>3, SubSeqProperties
<1> HIDE DEF rest
<1>5. Len(rest) = Len(q) - k
  BY <1>1, <1>4
<1>6. ASSUME NEW i \in 1 .. Len(rest) PROVE rest[i] = q[i + k]
  BY <1>1, <1>4, <1>5, (k + 1) + i - 1 = i + k
<1>7. QED  BY <1>4, <1>5, <1>6 DEF rest

\* Moving every place of a set forward, by as much for one peer, keeps their number.
LEMMA ShiftCounts ==
    ASSUME NEW k \in [Peers -> Nat],
           NEW A \in SUBSET (Peers \X Int), IsFiniteSet(A),
           NEW B \in SUBSET (Peers \X Int),
           \A p \in Peers, i \in Int : <<p, i>> \in B <=> <<p, i + k[p]>> \in A
    PROVE  IsFiniteSet(B) /\ Cardinality(B) = Cardinality(A)
<1> DEFINE f == [e \in A |-> <<e[1], e[2] - k[e[1]]>>]
<1>1. ASSUME NEW e \in A
      PROVE  f[e] \in B /\ f[e] = <<e[1], e[2] - k[e[1]]>>
  <2>1. PICK p \in Peers, i \in Int : e = <<p, i>>
    OBVIOUS
  <2>2. (i - k[p]) \in Int /\ (i - k[p]) + k[p] = i
    OBVIOUS
  <2>3. QED  BY <2>1, <2>2
<1>2. f \in [A -> B]
  BY <1>1
<1>3. \A d, e \in A : f[d] = f[e] => d = e
  BY <1>1
<1>4. \A b \in B : \E a \in A : f[a] = b
  <2> SUFFICES ASSUME NEW b \in B PROVE \E a \in A : f[a] = b
    OBVIOUS
  <2>1. PICK p \in Peers, i \in Int : b = <<p, i>>
    OBVIOUS
  <2>2. <<p, i + k[p]>> \in A
    BY <2>1
  <2>3. f[<<p, i + k[p]>>] = <<p, (i + k[p]) - k[p]>> /\ (i + k[p]) - k[p] = i
    BY <2>2
  <2>4. QED  BY <2>1, <2>2, <2>3
<1> HIDE DEF f
<1>5. ExistsBijection(A, B)
  BY <1>2, <1>3, <1>4
  DEF ExistsBijection, Bijection, Injection, Surjection, IsInjective
<1>6. QED  BY <1>5, FS_Bijection

\* What is taken from the front of the queues is what the store is short of.
LEMMA FrontsCount ==
    ASSUME NEW qs \in [Peers -> Seq(Message)], NEW k \in [Peers -> Nat],
           \A p \in Peers : k[p] <= Len(qs[p]),
           IsFiniteSet(Slots(qs))
    PROVE  LET rest == Rest(qs, k)
               gone == Front(qs, k)
           IN
           /\ rest \in [Peers -> Seq(Message)]
           /\ IsFiniteSet(Slots(rest))
           /\ Cardinality(Slots(rest)) = Cardinality(Slots(qs)) - Cardinality(gone)
           /\ Cardinality(Heavy(rest, Slots(rest))) =
                Cardinality(Heavy(qs, Slots(qs))) - Cardinality(Heavy(qs, gone))
           /\ Cardinality(gone) \in Nat /\ Cardinality(Heavy(qs, gone)) \in Nat
           /\ Cardinality(gone) <= Cardinality(Slots(qs))
           /\ Cardinality(Heavy(qs, gone)) <= Cardinality(Heavy(qs, Slots(qs)))
<1> DEFINE rest == Rest(qs, k)
           gone == Front(qs, k)
           kept == Slots(qs) \ gone
<1>1. /\ rest \in [Peers -> Seq(Message)]
      /\ \A p \in Peers :
           /\ Len(qs[p]) \in Nat /\ Len(rest[p]) = Len(qs[p]) - k[p]
           /\ \A i \in 1 .. Len(rest[p]) : rest[p][i] = qs[p][i + k[p]]
  <2>1. ASSUME NEW p \in Peers
        PROVE  /\ Len(qs[p]) \in Nat /\ rest[p] \in Seq(Message)
               /\ Len(rest[p]) = Len(qs[p]) - k[p]
               /\ \A i \in 1 .. Len(rest[p]) : rest[p][i] = qs[p][i + k[p]]
    <3>1. Len(qs[p]) \in Nat
      BY LenProperties
    <3>2. k[p] \in 0 .. Len(qs[p])
      BY <3>1
    <3>3. QED  BY <3>1, <3>2, FrontGone DEF Rest
  <2>2. QED  BY <2>1 DEF Rest
<1> HIDE DEF rest
<1>2. /\ Slots(qs) \subseteq Peers \X Nat
      /\ \A p \in Peers, i \in Int : <<p, i>> \in Slots(qs) <=> i \in 1 .. Len(qs[p])
  BY SlotsAre
<1>3. /\ Slots(rest) \subseteq Peers \X Nat
      /\ \A p \in Peers, i \in Int : <<p, i>> \in Slots(rest) <=> i \in 1 .. Len(rest[p])
  BY <1>1, SlotsAre
<1>4. \A p \in Peers, i \in Int : <<p, i>> \in gone <=> <<p, i>> \in Slots(qs) /\ i <= k[p]
  BY DEF Front
<1>5. \A p \in Peers, i \in Int : <<p, i>> \in Slots(rest) <=> <<p, i + k[p]>> \in kept
  <2> SUFFICES ASSUME NEW p \in Peers, NEW i \in Int
               PROVE  <<p, i>> \in Slots(rest) <=> <<p, i + k[p]>> \in kept
    OBVIOUS
  <2>1. i + k[p] \in Int
    OBVIOUS
  <2>2. <<p, i + k[p]>> \in kept <=> i + k[p] \in 1 .. Len(qs[p]) /\ ~(i + k[p] <= k[p])
    BY <1>1, <1>2, <1>4, <2>1
  <2>3. QED  BY <1>1, <1>3, <2>2
<1>6. gone \subseteq Slots(qs) /\ kept \subseteq Slots(qs) /\ kept = Slots(qs) \ gone
  BY DEF Front
<1> HIDE DEF gone, kept
<1>7. IsFiniteSet(kept) /\ IsFiniteSet(gone)
      /\ Cardinality(kept) \in Nat /\ Cardinality(gone) \in Nat
      /\ Cardinality(kept) = Cardinality(Slots(qs)) - Cardinality(gone)
      /\ Cardinality(Slots(qs)) \in Nat
  <2>1. IsFiniteSet(kept) /\ IsFiniteSet(gone)
    BY <1>6, FS_Subset
  <2>2. Cardinality(Slots(qs) \ gone) =
          Cardinality(Slots(qs)) - Cardinality(Slots(qs) \cap gone)
    BY FS_Difference, <2>1
  <2>3. Slots(qs) \cap gone = gone
    BY <1>6
  <2>4. QED  BY <1>6, <2>1, <2>2, <2>3, FS_CardinalityType
<1>8. IsFiniteSet(Slots(rest)) /\ Cardinality(Slots(rest)) = Cardinality(kept)
  <2>1. kept \in SUBSET (Peers \X Int) /\ Slots(rest) \in SUBSET (Peers \X Int)
    BY <1>2, <1>3, <1>6
  <2>2. QED  BY <1>5, <1>7, <2>1, ShiftCounts
<1>9. Cardinality(Heavy(rest, Slots(rest))) = Cardinality(Heavy(qs, kept))
  <2>1. Heavy(qs, kept) \in SUBSET (Peers \X Int)
        /\ Heavy(rest, Slots(rest)) \in SUBSET (Peers \X Int)
        /\ Heavy(qs, kept) \in SUBSET kept
    BY <1>2, <1>3, <1>6 DEF Heavy
  <2>2. IsFiniteSet(Heavy(qs, kept))
    BY <1>7, <2>1, FS_Subset
  <2>3. ASSUME NEW p \in Peers, NEW i \in Int
        PROVE  <<p, i>> \in Heavy(rest, Slots(rest)) <=> <<p, i + k[p]>> \in Heavy(qs, kept)
    <3>1. <<p, i>> \in Heavy(rest, Slots(rest))
            <=> <<p, i>> \in Slots(rest) /\ rest[p][i].kind # "plain"
      BY DEF Heavy
    <3>2. <<p, i + k[p]>> \in Heavy(qs, kept)
            <=> <<p, i + k[p]>> \in kept /\ qs[p][i + k[p]].kind # "plain"
      BY DEF Heavy
    <3>3. <<p, i>> \in Slots(rest) => rest[p][i] = qs[p][i + k[p]]
      BY <1>1, <1>3
    <3>4. QED  BY <1>5, <3>1, <3>2, <3>3
  <2>4. QED  BY <2>1, <2>2, <2>3, ShiftCounts
<1>10. /\ Cardinality(Heavy(qs, kept)) =
            Cardinality(Heavy(qs, Slots(qs))) - Cardinality(Heavy(qs, gone))
       /\ Cardinality(Heavy(qs, gone)) \in Nat
       /\ Cardinality(Heavy(qs, kept)) \in Nat
       /\ Cardinality(Heavy(qs, Slots(qs))) \in Nat
  <2>1. /\ Heavy(qs, kept) = Heavy(qs, Slots(qs)) \ Heavy(qs, gone)
        /\ Heavy(qs, gone) = Heavy(qs, Slots(qs)) \cap Heavy(qs, gone)
        /\ Heavy(qs, gone) \subseteq gone /\ Heavy(qs, Slots(qs)) \subseteq Slots(qs)
        /\ Heavy(qs, kept) \subseteq kept
    BY <1>6 DEF Heavy
  <2>2. IsFiniteSet(Heavy(qs, gone)) /\ IsFiniteSet(Heavy(qs, Slots(qs)))
        /\ IsFiniteSet(Heavy(qs, kept))
    BY <1>7, <2>1, FS_Subset
  <2>3. Cardinality(Heavy(qs, Slots(qs)) \ Heavy(qs, gone)) =
          Cardinality(Heavy(qs, Slots(qs)))
            - Cardinality(Heavy(qs, Slots(qs)) \cap Heavy(qs, gone))
    BY <2>2, FS_Difference
  <2>4. QED  BY <2>1, <2>2, <2>3, FS_CardinalityType
<1>11. QED
  <2>1. Cardinality(gone) <= Cardinality(Slots(qs))
    BY <1>7
  <2>2. Cardinality(Heavy(qs, gone)) <= Cardinality(Heavy(qs, Slots(qs)))
    BY <1>10
  <2>3. Cardinality(Slots(rest)) = Cardinality(Slots(qs)) - Cardinality(gone)
    BY <1>7, <1>8
  <2>4. Cardinality(Heavy(rest, Slots(rest))) =
                Cardinality(Heavy(qs, Slots(qs))) - Cardinality(Heavy(qs, gone))
    BY <1>9, <1>10
  <2>5. QED  BY <1>1, <1>7, <1>8, <1>10, <2>1, <2>2, <2>3, <2>4 DEF rest, gone

\* The bytes of a queue are bounded by those of what it was taken from, and a
\* message that is stored adds its own.
LEMMA PlacesOf ==
    ASSUME NEW q \in Seq(Message)
    PROVE  /\ IsFiniteSet(HeavyPlaces(q)) /\ Cardinality(HeavyPlaces(q)) \in Nat
           /\ QueueBytes(q) = Len(q) + Cardinality(HeavyPlaces(q))
           /\ Len(q) \in Nat /\ QueueBytes(q) \in Nat
<1>1. Len(q) \in Nat /\ DOMAIN q = 1 .. Len(q)
  BY LenProperties
<1>2. IsFiniteSet(1 .. Len(q))
  BY <1>1, FS_Interval
<1>3. HeavyPlaces(q) \in SUBSET (1 .. Len(q))
  BY <1>1 DEF HeavyPlaces
<1>4. IsFiniteSet(HeavyPlaces(q)) /\ Cardinality(HeavyPlaces(q)) \in Nat
  BY <1>2, <1>3, FS_Subset, FS_CardinalityType
<1>5. QueueBytes(q) = Len(q) + Cardinality(HeavyPlaces(q))
  BY DEF QueueBytes, HeavyPlaces
<1>6. QED  BY <1>1, <1>4, <1>5

LEMMA FrontBytes ==
    ASSUME NEW q \in Seq(Message), NEW k \in 0 .. Len(q)
    PROVE  QueueBytes(SubSeq(q, k + 1, Len(q))) <= QueueBytes(q)
<1> DEFINE rest == SubSeq(q, k + 1, Len(q))
<1>1. /\ rest \in Seq(Message) /\ Len(rest) = Len(q) - k
      /\ \A i \in 1 .. Len(rest) : rest[i] = q[i + k]
  BY FrontGone
<1> HIDE DEF rest
<1>2. /\ DOMAIN q = 1 .. Len(q) /\ Len(q) \in Nat
      /\ DOMAIN rest = 1 .. Len(rest) /\ Len(rest) \in Nat
  BY <1>1, LenProperties
<1> DEFINE f == [i \in HeavyPlaces(rest) |-> i + k]
<1>3. ASSUME NEW i \in HeavyPlaces(rest)
      PROVE  i \in Int /\ i + k \in HeavyPlaces(q)
  BY <1>1, <1>2 DEF HeavyPlaces
<1>4. f \in Injection(HeavyPlaces(rest), HeavyPlaces(q))
  BY <1>3 DEF Injection, IsInjective
<1>5. IsFiniteSet(HeavyPlaces(q))
  BY PlacesOf
<1>6. Cardinality(HeavyPlaces(rest)) <= Cardinality(HeavyPlaces(q))
  BY <1>4, <1>5, FS_Injection
<1>7. /\ QueueBytes(q) = Len(q) + Cardinality(HeavyPlaces(q))
      /\ QueueBytes(rest) = Len(rest) + Cardinality(HeavyPlaces(rest))
      /\ Cardinality(HeavyPlaces(q)) \in Nat /\ Cardinality(HeavyPlaces(rest)) \in Nat
  BY <1>1, PlacesOf
<1>8. QueueBytes(rest) <= QueueBytes(q)
  BY <1>1, <1>2, <1>6, <1>7
<1>9. QED  BY <1>8 DEF rest

LEMMA StoredBytes ==
    ASSUME NEW q \in Seq(Message), NEW m \in Message
    PROVE  /\ Append(q, m) \in Seq(Message) /\ Append(q, m) # <<>>
           /\ Len(Append(q, m)) = Len(q) + 1
           /\ \A i \in 1 .. Len(q) : Append(q, m)[i] = q[i]
           /\ Append(q, m)[Len(q) + 1] = m
           /\ QueueBytes(Append(q, m)) = QueueBytes(q) + Bytes(m)
<1> DEFINE r == Append(q, m)
<1>1. /\ r \in Seq(Message) /\ r # <<>>
      /\ Len(r) = Len(q) + 1
      /\ \A i \in 1 .. Len(q) : r[i] = q[i]
      /\ r[Len(q) + 1] = m
  BY AppendProperties
<1> HIDE DEF r
<1>2. /\ DOMAIN q = 1 .. Len(q) /\ Len(q) \in Nat
      /\ DOMAIN r = 1 .. Len(r)
  BY <1>1, LenProperties
<1>3. HeavyPlaces(r) = IF m.kind = "plain" THEN HeavyPlaces(q)
                       ELSE HeavyPlaces(q) \cup {Len(q) + 1}
  BY <1>1, <1>2 DEF HeavyPlaces
<1>4. Len(q) + 1 \notin HeavyPlaces(q)
  BY <1>2 DEF HeavyPlaces
<1>5. /\ IsFiniteSet(HeavyPlaces(q)) /\ Cardinality(HeavyPlaces(q)) \in Nat
      /\ QueueBytes(q) = Len(q) + Cardinality(HeavyPlaces(q))
      /\ QueueBytes(r) = Len(r) + Cardinality(HeavyPlaces(r))
  BY <1>1, PlacesOf
<1>6. Cardinality(HeavyPlaces(q) \cup {Len(q) + 1}) = Cardinality(HeavyPlaces(q)) + 1
  BY <1>4, <1>5, FS_AddElement
<1>7. QueueBytes(r) = QueueBytes(q) + Bytes(m)
  <2>1. CASE m.kind = "plain"
    BY <2>1, <1>1, <1>2, <1>3, <1>5 DEF Bytes
  <2>2. CASE m.kind # "plain"
    BY <2>2, <1>1, <1>2, <1>3, <1>5, <1>6 DEF Bytes
  <2>3. QED  BY <2>1, <2>2
<1>8. QED  BY <1>1, <1>7 DEF r

\* Storing a message adds one entry.
LEMMA StoredCounts ==
    ASSUME NEW qs \in [Peers -> Seq(Message)], NEW p \in Peers, NEW m \in Message,
           IsFiniteSet(Slots(qs))
    PROVE  LET more == [qs EXCEPT ![p] = Append(@, m)] IN
           /\ more \in [Peers -> Seq(Message)]
           /\ IsFiniteSet(Slots(more))
           /\ Cardinality(Slots(more)) = Cardinality(Slots(qs)) + 1
           /\ Cardinality(Heavy(more, Slots(more))) =
                Cardinality(Heavy(qs, Slots(qs))) + (Bytes(m) - 1)
<1> DEFINE more == [qs EXCEPT ![p] = Append(@, m)]
           new == <<p, Len(qs[p]) + 1>>
<1>1. /\ Append(qs[p], m) \in Seq(Message)
      /\ Len(Append(qs[p], m)) = Len(qs[p]) + 1
      /\ \A i \in 1 .. Len(qs[p]) : Append(qs[p], m)[i] = qs[p][i]
      /\ Append(qs[p], m)[Len(qs[p]) + 1] = m
  BY StoredBytes
<1>2. more \in [Peers -> Seq(Message)] /\ more[p] = Append(qs[p], m)
      /\ \A r \in Peers \ {p} : more[r] = qs[r]
  BY <1>1
<1> HIDE DEF more
<1>3. /\ Slots(qs) \subseteq Peers \X Nat
      /\ \A r \in Peers, i \in Int : <<r, i>> \in Slots(qs) <=> i \in 1 .. Len(qs[r])
  BY SlotsAre
<1>4. /\ Slots(more) \subseteq Peers \X Nat
      /\ \A r \in Peers, i \in Int : <<r, i>> \in Slots(more) <=> i \in 1 .. Len(more[r])
  BY <1>2, SlotsAre
<1>5. Len(qs[p]) \in Nat
  BY LenProperties
<1>6. \A r \in Peers, i \in Nat :
        <<r, i>> \in Slots(more) <=> <<r, i>> \in Slots(qs) \/ <<r, i>> = new
  <2> SUFFICES ASSUME NEW r \in Peers, NEW i \in Nat
               PROVE  <<r, i>> \in Slots(more) <=> <<r, i>> \in Slots(qs) \/ <<r, i>> = new
    OBVIOUS
  <2>1. CASE r = p
    BY <2>1, <1>1, <1>2, <1>3, <1>4, <1>5
  <2>2. CASE r # p
    BY <2>2, <1>2, <1>3, <1>4
  <2>3. QED  BY <2>1, <2>2
<1>7. new \in Peers \X Nat /\ new \notin Slots(qs)
  <2>1. Len(qs[p]) + 1 \in Nat /\ Len(qs[p]) + 1 \in Int
        /\ Len(qs[p]) + 1 \notin 1 .. Len(qs[p])
    BY <1>5
  <2>2. QED  BY <2>1, <1>3
<1>8. Slots(more) = Slots(qs) \cup {new}
  <2> HIDE DEF new
  <2>1. \A e \in Peers \X Nat : e \in Slots(more) <=> e \in Slots(qs) \cup {new}
    BY <1>6
  <2>2. Slots(qs) \cup {new} \subseteq Peers \X Nat
    BY <1>3, <1>7
  <2>3. QED  BY <2>1, <2>2, <1>4
<1>9. IsFiniteSet(Slots(more)) /\ Cardinality(Slots(more)) = Cardinality(Slots(qs)) + 1
  <2> HIDE DEF new
  <2>1. QED  BY <1>7, <1>8, FS_AddElement
<1>10. Heavy(more, Slots(more)) = IF m.kind = "plain" THEN Heavy(qs, Slots(qs))
                                  ELSE Heavy(qs, Slots(qs)) \cup {new}
  <2>1. ASSUME NEW e \in Slots(qs) PROVE more[e[1]][e[2]] = qs[e[1]][e[2]]
    <3>1. PICK r \in Peers, i \in Nat : e = <<r, i>>
      BY <1>3
    <3>2. i \in 1 .. Len(qs[r])
      BY <3>1, <1>3
    <3>3. more[r][i] = qs[r][i]
      BY <3>2, <1>1, <1>2
    <3>4. QED  BY <3>1, <3>3
  <2>2. more[new[1]][new[2]] = m
    BY <1>1, <1>2
  <2> HIDE DEF new
  <2>3. QED  BY <2>1, <2>2, <1>8 DEF Heavy
<1>11. /\ Heavy(qs, Slots(qs)) \in SUBSET Slots(qs) /\ new \notin Heavy(qs, Slots(qs))
       /\ IsFiniteSet(Heavy(qs, Slots(qs)))
  <2>1. Heavy(qs, Slots(qs)) \in SUBSET Slots(qs)
    BY DEF Heavy
  <2>2. QED  BY <2>1, <1>7, FS_Subset
<1> HIDE DEF new
<1>12. /\ Cardinality(Heavy(qs, Slots(qs)) \cup {new}) = Cardinality(Heavy(qs, Slots(qs))) + 1
       /\ Cardinality(Heavy(qs, Slots(qs))) \in Nat
  BY <1>11, FS_AddElement, FS_CardinalityType
<1>13. Cardinality(Heavy(more, Slots(more))) =
         Cardinality(Heavy(qs, Slots(qs))) + (Bytes(m) - 1)
  <2>1. CASE m.kind = "plain"
    BY <2>1, <1>10, <1>12 DEF Bytes
  <2>2. CASE m.kind # "plain"
    BY <2>2, <1>10, <1>12 DEF Bytes
  <2>3. QED  BY <2>1, <2>2
<1>14. QED  BY <1>2, <1>9, <1>13 DEF more

\* Delivery takes its messages from the front of one queue.
LEMMA DeliveredCounts ==
    ASSUME NEW qs \in [Peers -> Seq(Message)], NEW p \in Peers,
           NEW n \in 0 .. Len(qs[p]), IsFiniteSet(Slots(qs))
    PROVE  LET gone == Front(qs, Only(p, n))
               out  == SubSeq(qs[p], 1, n)
           IN
           /\ [qs EXCEPT ![p] = SubSeq(@, n + 1, Len(@))] = Rest(qs, Only(p, n))
           /\ Cardinality(gone) = n
           /\ QueueBytes(out) = n + Cardinality(Heavy(qs, gone))
           /\ out \in Seq(Message) /\ Len(out) = n
           /\ \A i \in 1 .. n : out[i] = qs[p][i]
<1> DEFINE k == Only(p, n)
           gone == Front(qs, k)
           out == SubSeq(qs[p], 1, n)
<1>1. /\ Len(qs[p]) \in Nat /\ n \in Nat
      /\ \A i \in 1 .. Len(qs[p]) : qs[p][i] \in Message
  BY LenProperties
<1>2. /\ out \in Seq(Message) /\ Len(out) = n
      /\ \A i \in 1 .. n : out[i] = qs[p][i]
  <2>1. \A i \in 1 .. n : qs[p][i] \in Message
    BY <1>1
  <2>2. /\ out \in Seq(Message) /\ Len(out) = IF 1 <= n THEN n - 1 + 1 ELSE 0
        /\ \A i \in 1 .. n - 1 + 1 : out[i] = qs[p][1 + i - 1]
    BY <1>1, <2>1, SubSeqProperties
  <2> HIDE DEF out
  <2>3. n - 1 + 1 = n /\ \A i \in 1 .. n : 1 + i - 1 = i
    BY <1>1
  <2>4. QED  BY <2>2, <2>3, <1>1
<1>3. [qs EXCEPT ![p] = SubSeq(@, n + 1, Len(@))] = Rest(qs, k)
  <2>1. \A q \in Peers : SubSeq(qs[q], 0 + 1, Len(qs[q])) = qs[q]
    BY SubSeqFull
  <2>2. QED  BY <2>1 DEF Rest, Only
<1>4. /\ Slots(qs) \subseteq Peers \X Nat
      /\ \A q \in Peers, i \in Int : <<q, i>> \in Slots(qs) <=> i \in 1 .. Len(qs[q])
  BY SlotsAre
<1>5. \A q \in Peers, i \in Int : <<q, i>> \in gone <=> q = p /\ i \in 1 .. n
  <2> SUFFICES ASSUME NEW q \in Peers, NEW i \in Int
               PROVE  <<q, i>> \in gone <=> q = p /\ i \in 1 .. n
    OBVIOUS
  <2>1. <<q, i>> \in gone <=> <<q, i>> \in Slots(qs) /\ i <= k[q]
    BY DEF Front
  <2>2. CASE q = p
    BY <2>1, <2>2, <1>1, <1>4 DEF Only
  <2>3. CASE q # p
    BY <2>1, <2>3, <1>4 DEF Only
  <2>4. QED  BY <2>2, <2>3
<1>6. gone \subseteq {p} \X (1 .. n)
  <2>1. gone \subseteq Slots(qs)
    BY DEF Front
  <2> HIDE DEF gone
  <2>2. QED  BY <2>1, <1>4, <1>5
<1> HIDE DEF gone, k, out
<1>7. ASSUME NEW I \in SUBSET (1 .. n), NEW G \in SUBSET gone,
             \A i \in 1 .. n : i \in I <=> <<p, i>> \in G
      PROVE  IsFiniteSet(I) /\ Cardinality(G) = Cardinality(I)
  <2> DEFINE f == [i \in I |-> <<p, i>>]
  <2>1. f \in [I -> G] /\ \A i, j \in I : f[i] = f[j] => i = j
    BY <1>7
  <2>2. ASSUME NEW g \in G PROVE \E i \in I : f[i] = g
    <3>1. PICK i \in 1 .. n : g = <<p, i>>
      BY <1>6
    <3>2. QED  BY <3>1, <1>7
  <2> HIDE DEF f
  <2>3. ExistsBijection(I, G)
    BY <2>1, <2>2 DEF ExistsBijection, Bijection, Injection, Surjection, IsInjective
  <2>4. IsFiniteSet(1 .. n)
    BY <1>1, FS_Interval
  <2>5. IsFiniteSet(I)
    BY <2>4, FS_Subset
  <2>6. QED  BY <2>3, <2>5, FS_Bijection
<1>8. Cardinality(gone) = n
  <2>1. \A i \in 1 .. n : i \in 1 .. n <=> <<p, i>> \in gone
    BY <1>5
  <2>2. Cardinality(1 .. n) = n
    BY <1>1, FS_Interval
  <2>3. 1 .. n \in SUBSET (1 .. n) /\ gone \in SUBSET gone
    OBVIOUS
  <2>4. QED  BY <2>1, <2>2, <2>3, <1>7
<1>9. Cardinality(Heavy(qs, gone)) = Cardinality(HeavyPlaces(out))
  <2>1. DOMAIN out = 1 .. n
    BY <1>2, LenProperties
  <2>2. HeavyPlaces(out) \in SUBSET (1 .. n) /\ Heavy(qs, gone) \in SUBSET gone
    BY <2>1 DEF HeavyPlaces, Heavy
  <2>3. \A i \in 1 .. n : i \in HeavyPlaces(out) <=> <<p, i>> \in Heavy(qs, gone)
    BY <2>1, <1>2, <1>5 DEF HeavyPlaces, Heavy
  <2>4. QED  BY <2>2, <2>3, <1>7
<1>10. QueueBytes(out) = n + Cardinality(Heavy(qs, gone))
  BY <1>2, <1>9, PlacesOf
<1>11. QED  BY <1>2, <1>3, <1>8, <1>10 DEF gone, k, out

\* The longest part that can be written exists, and is all of a queue whose
\* messages all fit in a frame.
LEMMA DeliverableIs ==
    ASSUME NEW q \in Seq(Message)
    PROVE  /\ Deliverable(q) \in 0 .. Len(q)
           /\ (\A i \in 1 .. Len(q) : q[i].kind \in Wrappable) => Deliverable(q) = Len(q)
<1> DEFINE Fits(n) == /\ \A i \in 1 .. n : q[i].kind \in Wrappable
                      /\ n < Len(q) => q[n + 1].kind \notin Wrappable
<1>1. Len(q) \in Nat
  BY LenProperties
<1>2. \E n \in 0 .. Len(q) : Fits(n)
  <2>1. CASE \A i \in 1 .. Len(q) : q[i].kind \in Wrappable
    BY <2>1, <1>1
  <2>2. CASE \E i \in 1 .. Len(q) : q[i].kind \notin Wrappable
    <3> DEFINE T == {i \in 1 .. Len(q) : q[i].kind \notin Wrappable}
    <3>1. T \subseteq Nat /\ T # {}
      BY <2>2
    <3>2. PICK x \in T : \A y \in T : x <= y
      <4> HIDE DEF T
      <4>1. QED  BY <3>1, LeastNumber
    <3>3. x - 1 \in 0 .. Len(q) /\ (x - 1) + 1 = x
      BY <1>1
    <3>4. ASSUME NEW i \in 1 .. (x - 1) PROVE q[i].kind \in Wrappable
      <4>1. i \in 1 .. Len(q) /\ ~(x <= i)
        BY <3>3, <1>1
      <4>2. QED  BY <4>1, <3>2
    <3>5. Fits(x - 1)
      BY <3>3, <3>4
    <3>6. QED  BY <3>3, <3>5
  <2>3. QED  BY <2>1, <2>2
<1>3. Deliverable(q) = CHOOSE n \in 0 .. Len(q) : Fits(n)
  BY DEF Deliverable
<1>4. Deliverable(q) \in 0 .. Len(q) /\ Fits(Deliverable(q))
  <2> HIDE DEF Fits
  <2>1. QED  BY <1>2, <1>3
<1>5. ASSUME \A i \in 1 .. Len(q) : q[i].kind \in Wrappable
      PROVE  Deliverable(q) = Len(q)
  <2>1. CASE Deliverable(q) < Len(q)
    <3>1. Deliverable(q) + 1 \in 1 .. Len(q)
      BY <2>1, <1>1, <1>4
    <3>2. QED  BY <3>1, <2>1, <1>4, <1>5
  <2>2. QED  BY <2>1, <1>1, <1>4
<1>6. QED  BY <1>4, <1>5

\* In a queue that is in the order of sending, what is old enough is its front.
LEMMA ExpiredIs ==
    ASSUME NEW q \in Seq(Message), NEW n \in Nat,
           \A i, j \in 1 .. Len(q) : i < j => q[i].id < q[j].id
    PROVE  /\ Expired(q, n) \in 0 .. Len(q)
           /\ \A i \in 1 .. Len(q) : q[i].id <= n <=> i <= Expired(q, n)
<1> DEFINE Old(k) == \A i \in DOMAIN q : q[i].id <= n <=> i <= k
<1>1. /\ Len(q) \in Nat /\ DOMAIN q = 1 .. Len(q)
      /\ \A i \in 1 .. Len(q) : q[i].id \in Nat
  <2>1. Len(q) \in Nat /\ DOMAIN q = 1 .. Len(q) /\ \A i \in 1 .. Len(q) : q[i] \in Message
    BY LenProperties
  <2>2. QED  BY <2>1 DEF Message
<1>2. \E k \in 0 .. Len(q) : Old(k)
  <2>1. CASE \A i \in 1 .. Len(q) : q[i].id <= n
    <3>1. Old(Len(q))
      BY <2>1, <1>1
    <3>2. QED  BY <3>1, <1>1
  <2>2. CASE \E i \in 1 .. Len(q) : ~(q[i].id <= n)
    <3> DEFINE T == {i \in 1 .. Len(q) : ~(q[i].id <= n)}
    <3>1. T \subseteq Nat /\ T # {}
      BY <2>2
    <3>2. PICK x \in T : \A y \in T : x <= y
      <4> HIDE DEF T
      <4>1. QED  BY <3>1, LeastNumber
    <3>3. x - 1 \in 0 .. Len(q)
      BY <1>1
    <3>4. ASSUME NEW i \in 1 .. Len(q) PROVE q[i].id <= n <=> i <= x - 1
      <4>1. CASE i < x
        <5>1. ~(x <= i)
          BY <4>1
        <5>2. QED  BY <5>1, <4>1, <3>2
      <4>2. CASE i = x
        BY <4>2
      <4>3. CASE x < i
        <5>1. q[x].id < q[i].id /\ ~(q[x].id <= n)
          BY <4>3
        <5>2. QED  BY <5>1, <4>3, <1>1
      <4>4. QED  BY <4>1, <4>2, <4>3
    <3>5. Old(x - 1)
      BY <3>4, <1>1
    <3>6. QED  BY <3>3, <3>5
  <2>3. QED  BY <2>1, <2>2
<1>3. Expired(q, n) = CHOOSE k \in 0 .. Len(q) : Old(k)
  BY DEF Expired
<1>4. Expired(q, n) \in 0 .. Len(q) /\ Old(Expired(q, n))
  <2> HIDE DEF Old
  <2>1. QED  BY <1>2, <1>3
<1>5. QED  BY <1>1, <1>4

-----------------------------------------------------------------------------
(* The counters of the store, for every mix of messages.                   *)

Waiting == {p \in Peers : queues[p] # <<>>}

StoreTypes ==
    /\ queues \in [Peers -> Seq(Message)]
    /\ totalMessages \in Nat /\ totalBytes \in Nat /\ sent \in Nat
    /\ limits \in Limits

\* A queue is in the order in which its messages came.
QueuesInOrder ==
    \A p \in Peers : \A i \in 1 .. Len(queues[p]) :
        /\ queues[p][i].id <= sent
        /\ \A j \in 1 .. Len(queues[p]) :
             i < j => queues[p][i].id < queues[p][j].id

Counted == IsFiniteSet(Slots(queues)) /\ IsFiniteSet(Waiting) /\ StoreCountsRight

StoreInv == StoreTypes /\ QueuesInOrder /\ Counted

LEMMA EntriesAreSlots ==
    /\ Entries = Slots(queues)
    /\ \A es : BytesOf(es) = Cardinality(es) + Cardinality(Heavy(queues, es))
BY DEF Entries, Slots, BytesOf, Heavy

LEMMA Remainder ==
    \A a, b, c, d \in Nat : c <= a /\ d <= b =>
      /\ (a + b) - (c + d) = (a - c) + (b - d)
      /\ a - c \in Nat /\ b - d \in Nat /\ (a - c) + (b - d) \in Nat
      /\ \A max \in Nat : a <= max => a - c <= max
      /\ \A max \in Nat : a + b <= max => (a - c) + (b - d) <= max
OBVIOUS

LEMMA LimitsAreNumbers ==
    ASSUME limits \in Limits
    PROVE  /\ limits.maxQueuePeers \in Nat /\ limits.maxQueueSize \in Nat
           /\ limits.maxTotalMessages \in Nat /\ limits.maxQueueBytes \in Nat
           /\ limits.maxTotalQueueBytes \in Nat
BY SignalingAssumption DEF LegalLimits

\* Taking messages from the front of queues and out of the counters.
LEMMA FrontsKeepStore ==
    ASSUME StoreInv, NEW k \in [Peers -> Nat],
           \A p \in Peers : k[p] <= Len(queues[p]),
           queues' = Rest(queues, k),
           totalMessages' = totalMessages - Cardinality(Front(queues, k)),
           totalBytes' = totalBytes - BytesOf(Front(queues, k)),
           UNCHANGED <<limits, sent>>
    PROVE  StoreInv'
<1> DEFINE gone == Front(queues, k)
<1>0. /\ totalMessages' = totalMessages - Cardinality(gone)
      /\ totalBytes' = totalBytes
                         - (Cardinality(gone) + Cardinality(Heavy(queues, gone)))
  BY EntriesAreSlots
<1> HIDE DEF gone
<1>1. /\ queues' \in [Peers -> Seq(Message)]
      /\ IsFiniteSet(Slots(queues'))
      /\ Cardinality(Slots(queues')) = Cardinality(Slots(queues)) - Cardinality(gone)
      /\ Cardinality(Heavy(queues', Slots(queues'))) =
           Cardinality(Heavy(queues, Slots(queues))) - Cardinality(Heavy(queues, gone))
      /\ Cardinality(gone) \in Nat /\ Cardinality(Heavy(queues, gone)) \in Nat
      /\ Cardinality(gone) <= Cardinality(Slots(queues))
      /\ Cardinality(Heavy(queues, gone)) <= Cardinality(Heavy(queues, Slots(queues)))
  BY FrontsCount DEF StoreInv, StoreTypes, Counted, gone
<1>2. /\ totalMessages = Cardinality(Slots(queues))
      /\ totalBytes = Cardinality(Slots(queues)) + Cardinality(Heavy(queues, Slots(queues)))
      /\ totalMessages <= limits.maxTotalMessages
      /\ totalBytes <= limits.maxTotalQueueBytes
      /\ totalMessages \in Nat /\ totalBytes \in Nat
  BY EntriesAreSlots DEF StoreInv, StoreTypes, Counted, StoreCountsRight
<1>3. limits.maxTotalMessages \in Nat /\ limits.maxTotalQueueBytes \in Nat
  BY LimitsAreNumbers DEF StoreInv, StoreTypes
<1>4. Cardinality(Slots(queues)) \in Nat
      /\ Cardinality(Heavy(queues, Slots(queues))) \in Nat
  <2>1. Heavy(queues, Slots(queues)) \in SUBSET Slots(queues)
    BY DEF Heavy
  <2>2. QED  BY <2>1, FS_Subset, FS_CardinalityType DEF StoreInv, Counted
<1>5. /\ totalMessages' = Cardinality(Slots(queues'))
      /\ totalBytes' = Cardinality(Slots(queues')) + Cardinality(Heavy(queues', Slots(queues')))
      /\ totalMessages' <= limits.maxTotalMessages
      /\ totalBytes' <= limits.maxTotalQueueBytes
      /\ totalMessages' \in Nat /\ totalBytes' \in Nat
  <2> DEFINE a == Cardinality(Slots(queues))
             b == Cardinality(Heavy(queues, Slots(queues)))
             c == Cardinality(gone)
             d == Cardinality(Heavy(queues, gone))
  <2>1. a \in Nat /\ b \in Nat /\ c \in Nat /\ d \in Nat /\ c <= a /\ d <= b
    BY <1>1, <1>4
  <2>2. /\ Cardinality(Slots(queues')) = a - c
        /\ Cardinality(Heavy(queues', Slots(queues'))) = b - d
    BY <1>1
  <2>3. /\ totalMessages' = a - c /\ totalBytes' = (a + b) - (c + d)
        /\ a <= limits.maxTotalMessages /\ a + b <= limits.maxTotalQueueBytes
    BY <1>0, <1>2
  <2> HIDE DEF a, b, c, d
  <2>4. /\ (a + b) - (c + d) = (a - c) + (b - d)
        /\ a - c \in Nat /\ (a - c) + (b - d) \in Nat
    BY <2>1, Remainder
  <2>5. /\ a - c <= limits.maxTotalMessages
        /\ (a - c) + (b - d) <= limits.maxTotalQueueBytes
    BY <2>1, <2>3, <1>3, Remainder
  <2>6. QED  BY <2>2, <2>3, <2>4, <2>5
<1>6. ASSUME NEW p \in Peers
      PROVE  /\ Len(queues[p]) \in Nat /\ Len(queues'[p]) \in Nat
             /\ Len(queues'[p]) <= Len(queues[p])
             /\ \A i \in 1 .. Len(queues'[p]) :
                  i + k[p] \in 1 .. Len(queues[p]) /\ queues'[p][i] = queues[p][i + k[p]]
             /\ QueueBytes(queues'[p]) <= QueueBytes(queues[p])
             /\ queues[p] = <<>> => queues'[p] = <<>>
  <2>1. queues[p] \in Seq(Message) /\ Len(queues[p]) \in Nat
    BY LenProperties DEF StoreInv, StoreTypes
  <2>2. k[p] \in 0 .. Len(queues[p])
    BY <2>1
  <2>3. queues'[p] = SubSeq(queues[p], k[p] + 1, Len(queues[p]))
    BY DEF Rest
  <2>4. /\ queues'[p] \in Seq(Message) /\ Len(queues'[p]) = Len(queues[p]) - k[p]
        /\ \A i \in 1 .. Len(queues'[p]) : queues'[p][i] = queues[p][i + k[p]]
    <3> DEFINE q == queues[p]
               rest == SubSeq(q, k[p] + 1, Len(q))
    <3>1. /\ rest \in Seq(Message) /\ Len(rest) = Len(q) - k[p]
          /\ \A i \in 1 .. Len(rest) : rest[i] = q[i + k[p]]
      BY <2>1, <2>2, FrontGone
    <3>2. queues'[p] = rest
      BY <2>3
    <3> HIDE DEF rest
    <3>3. QED  BY <3>1, <3>2
  <2>5. QueueBytes(queues'[p]) <= QueueBytes(queues[p])
    BY <2>1, <2>2, <2>3, FrontBytes
  <2>6. queues[p] = <<>> => queues'[p] = <<>>
    BY <2>1, <2>2, <2>4, EmptySeq
  <2>7. \A i \in 1 .. Len(queues'[p]) : i + k[p] \in 1 .. Len(queues[p])
    BY <2>1, <2>2, <2>4
  <2>8. QED  BY <2>1, <2>2, <2>4, <2>5, <2>6, <2>7
<1>7. IsFiniteSet(Waiting') /\ Cardinality(Waiting') <= limits.maxQueuePeers
  <2>1. IsFiniteSet(Waiting) /\ Cardinality(Waiting) <= limits.maxQueuePeers
        /\ Waiting' \in SUBSET Waiting
    BY <1>6 DEF StoreInv, Counted, StoreCountsRight, Waiting
  <2>2. IsFiniteSet(Waiting') /\ Cardinality(Waiting') <= Cardinality(Waiting)
    BY <2>1, FS_Subset
  <2>3. /\ Cardinality(Waiting) \in Nat
        /\ Cardinality(Waiting') \in Nat
        /\ limits.maxQueuePeers \in Nat
    BY <2>1, <2>2, FS_CardinalityType, LimitsAreNumbers DEF StoreInv, StoreTypes
  <2>4. QED  BY <2>1, <2>2, <2>3
<1>8. ASSUME NEW p \in Peers
      PROVE  /\ Len(queues'[p]) <= limits.maxQueueSize
             /\ QueueBytes(queues'[p]) <= limits.maxQueueBytes
  <2>1. /\ QueueBytes(queues[p]) \in Nat /\ QueueBytes(queues'[p]) \in Nat
        /\ limits.maxQueueSize \in Nat /\ limits.maxQueueBytes \in Nat
    BY <1>1, PlacesOf, LimitsAreNumbers DEF StoreInv, StoreTypes
  <2>2. /\ Len(queues[p]) <= limits.maxQueueSize
        /\ QueueBytes(queues[p]) <= limits.maxQueueBytes
    BY DEF StoreInv, Counted, StoreCountsRight
  <2>3. QED  BY <2>1, <2>2, <1>6
<1>9. QueuesInOrder'
  <2> SUFFICES ASSUME NEW p \in Peers, NEW i \in 1 .. Len(queues'[p])
               PROVE  /\ queues'[p][i].id <= sent
                      /\ \A j \in 1 .. Len(queues'[p]) :
                           i < j => queues'[p][i].id < queues'[p][j].id
    BY DEF QueuesInOrder
  <2>1. i + k[p] \in 1 .. Len(queues[p]) /\ queues'[p][i] = queues[p][i + k[p]]
    BY <1>6
  <2>2. ASSUME NEW j \in 1 .. Len(queues'[p]), i < j
        PROVE  queues'[p][i].id < queues'[p][j].id
    <3>1. j + k[p] \in 1 .. Len(queues[p]) /\ queues'[p][j] = queues[p][j + k[p]]
      BY <1>6
    <3>2. i + k[p] < j + k[p]
      BY <2>2, <1>6
    <3>3. QED  BY <2>1, <3>1, <3>2 DEF StoreInv, QueuesInOrder
  <2>3. QED  BY <2>1, <2>2 DEF StoreInv, QueuesInOrder
<1>10. Entries' = Slots(queues') /\
       BytesOf(Entries)' = Cardinality(Slots(queues')) + Cardinality(Heavy(queues', Slots(queues')))
  BY DEF Entries, Slots, BytesOf, Heavy
<1>11. Counted'
  BY <1>1, <1>5, <1>7, <1>8, <1>10 DEF Counted, StoreCountsRight, Waiting
<1>12. StoreTypes'
  BY <1>1, <1>5 DEF StoreInv, StoreTypes
<1>13. QED  BY <1>9, <1>11, <1>12 DEF StoreInv

\* Storing the next message where there is room for it.
LEMMA EnqueueKeepsStore ==
    ASSUME StoreInv, NEW p \in Peers, NEW m \in Message, m.id = sent + 1,
           HasRoom(p, m),
           queues' = [queues EXCEPT ![p] = Append(@, m)],
           totalMessages' = totalMessages + 1,
           totalBytes' = totalBytes + Bytes(m),
           sent' = sent + 1, UNCHANGED limits
    PROVE  StoreInv'
<1> DEFINE a == Cardinality(Slots(queues))
           b == Cardinality(Heavy(queues, Slots(queues)))
<1>1. /\ queues' \in [Peers -> Seq(Message)]
      /\ IsFiniteSet(Slots(queues'))
      /\ Cardinality(Slots(queues')) = a + 1
      /\ Cardinality(Heavy(queues', Slots(queues'))) = b + (Bytes(m) - 1)
  <2>1. queues \in [Peers -> Seq(Message)] /\ IsFiniteSet(Slots(queues))
    BY DEF StoreInv, StoreTypes, Counted
  <2> DEFINE more == [queues EXCEPT ![p] = Append(@, m)]
  <2>2. /\ more \in [Peers -> Seq(Message)]
        /\ IsFiniteSet(Slots(more))
        /\ Cardinality(Slots(more)) = a + 1
        /\ Cardinality(Heavy(more, Slots(more))) = b + (Bytes(m) - 1)
    BY <2>1, StoredCounts
  <2>3. queues' = more
    OBVIOUS
  <2> HIDE DEF more, a, b
  <2>4. QED  BY <2>2, <2>3
<1>2. a \in Nat /\ b \in Nat
  <2>1. Heavy(queues, Slots(queues)) \in SUBSET Slots(queues)
    BY DEF Heavy
  <2>2. QED  BY <2>1, FS_Subset, FS_CardinalityType DEF StoreInv, Counted
<1>3. totalMessages = a /\ totalBytes = a + b
  BY EntriesAreSlots DEF StoreInv, Counted, StoreCountsRight
<1>4. Bytes(m) \in {1, 2}
  BY DEF Bytes
<1>5. /\ limits.maxTotalMessages \in Nat
      /\ limits.maxTotalQueueBytes \in Nat
      /\ limits.maxQueuePeers \in Nat
      /\ limits.maxQueueSize \in Nat /\ limits.maxQueueBytes \in Nat
  BY LimitsAreNumbers DEF StoreInv, StoreTypes
<1> HIDE DEF a, b
<1>6. /\ totalMessages' = Cardinality(Slots(queues'))
      /\ totalBytes' = Cardinality(Slots(queues')) + Cardinality(Heavy(queues', Slots(queues')))
      /\ totalMessages' \in Nat /\ totalBytes' \in Nat
  BY <1>1, <1>2, <1>3, <1>4
<1>7. /\ totalMessages' <= limits.maxTotalMessages
      /\ totalBytes' <= limits.maxTotalQueueBytes
  BY <1>2, <1>3, <1>4, <1>5 DEF HasRoom
<1>8. /\ queues[p] \in Seq(Message) /\ Len(queues[p]) \in Nat
      /\ queues'[p] = Append(queues[p], m)
      /\ Append(queues[p], m) # <<>>
      /\ Len(queues'[p]) = Len(queues[p]) + 1
      /\ \A i \in 1 .. Len(queues[p]) : queues'[p][i] = queues[p][i]
      /\ queues'[p][Len(queues[p]) + 1] = m
      /\ QueueBytes(queues'[p]) = QueueBytes(queues[p]) + Bytes(m)
  <2>1. queues[p] \in Seq(Message) /\ queues'[p] = Append(queues[p], m)
    BY DEF StoreInv, StoreTypes
  <2>2. Len(queues[p]) \in Nat
    BY <2>1, LenProperties
  <2>3. QED  BY <2>1, <2>2, StoredBytes
<1>9. \A q \in Peers \ {p} : queues'[q] = queues[q]
  BY DEF StoreInv, StoreTypes
<1>10. \A q \in Peers : /\ Len(queues'[q]) <= limits.maxQueueSize
                        /\ QueueBytes(queues'[q]) <= limits.maxQueueBytes
  <2>1. /\ Len(queues[p]) < limits.maxQueueSize
        /\ QueueBytes(queues[p]) + Bytes(m) <= limits.maxQueueBytes
    BY DEF HasRoom
  <2>2. /\ Len(queues'[p]) <= limits.maxQueueSize
        /\ QueueBytes(queues'[p]) <= limits.maxQueueBytes
    BY <2>1, <1>5, <1>8
  <2>3. QED  BY <2>2, <1>9 DEF StoreInv, Counted, StoreCountsRight
<1>11. IsFiniteSet(Waiting') /\ Cardinality(Waiting') <= limits.maxQueuePeers
  <2>1. /\ IsFiniteSet(Waiting) /\ Cardinality(Waiting) <= limits.maxQueuePeers
        /\ queues[p] = <<>> => Cardinality(Waiting) < limits.maxQueuePeers
    BY DEF StoreInv, Counted, StoreCountsRight, HasRoom, Waiting
  <2>2. Waiting' = Waiting \cup {p} /\ (p \in Waiting <=> queues[p] # <<>>)
    BY <1>8, <1>9 DEF Waiting
  <2>3. /\ IsFiniteSet(Waiting')
        /\ Cardinality(Waiting') = IF p \in Waiting THEN Cardinality(Waiting)
                                   ELSE Cardinality(Waiting) + 1
        /\ Cardinality(Waiting) \in Nat
    BY <2>1, <2>2, FS_AddElement, FS_CardinalityType
  <2>4. QED  BY <2>1, <2>2, <2>3, <1>5
<1>12. QueuesInOrder'
  <2> SUFFICES ASSUME NEW q \in Peers, NEW i \in 1 .. Len(queues'[q])
               PROVE  /\ queues'[q][i].id <= sent'
                      /\ \A j \in 1 .. Len(queues'[q]) :
                           i < j => queues'[q][i].id < queues'[q][j].id
    BY DEF QueuesInOrder
  <2>1. ASSUME NEW r \in Peers, NEW j \in 1 .. Len(queues[r])
        PROVE  queues[r][j].id \in Nat /\ queues[r][j].id <= sent /\ sent \in Nat
    <3>1. queues[r][j] \in Message
      BY LenProperties DEF StoreInv, StoreTypes
    <3>2. QED  BY <3>1 DEF Message, StoreInv, StoreTypes, QueuesInOrder
  <2>2. CASE q # p
    BY <2>1, <2>2, <1>9 DEF StoreInv, QueuesInOrder
  <2>3. CASE q = p
    <3>1. ASSUME NEW j \in 1 .. Len(queues'[p])
          PROVE  \/ j \in 1 .. Len(queues[p]) /\ queues'[p][j] = queues[p][j]
                 \/ j = Len(queues[p]) + 1 /\ queues'[p][j] = m
      BY <1>8
    <3>2. queues'[p][i].id <= sent'
      BY <3>1, <2>1, <2>3 DEF StoreInv, StoreTypes
    <3>3. ASSUME NEW j \in 1 .. Len(queues'[p]), i < j
          PROVE  queues'[p][i].id < queues'[p][j].id
      <4>1. i \in 1 .. Len(queues[p]) /\ queues'[p][i] = queues[p][i]
        BY <3>1, <3>3, <2>3, <1>8
      <4>2. CASE j \in 1 .. Len(queues[p])
        BY <4>1, <4>2, <3>1, <3>3, <1>8 DEF StoreInv, QueuesInOrder
      <4>3. CASE j = Len(queues[p]) + 1
        <5>1. queues'[p][j].id = sent + 1
          BY <4>3, <1>8
        <5>2. queues[p][i].id \in Nat /\ queues[p][i].id <= sent /\ sent \in Nat
          BY <4>1, <2>1
        <5>3. QED  BY <4>1, <5>1, <5>2, <2>3
      <4>4. QED  BY <4>2, <4>3, <3>1
    <3>4. QED  BY <3>2, <3>3, <2>3
  <2>4. QED  BY <2>2, <2>3
<1>13. Entries' = Slots(queues') /\
       BytesOf(Entries)' = Cardinality(Slots(queues')) + Cardinality(Heavy(queues', Slots(queues')))
  BY DEF Entries, Slots, BytesOf, Heavy
<1>14. Counted'
  BY <1>1, <1>6, <1>7, <1>10, <1>11, <1>13 DEF Counted, StoreCountsRight, Waiting
<1>15. StoreTypes'
  BY <1>1, <1>6 DEF StoreInv, StoreTypes
<1>16. QED  BY <1>12, <1>14, <1>15 DEF StoreInv

\* Other messages are counted, but leave the store alone.
LEMMA SameStore ==
    ASSUME StoreInv, UNCHANGED <<limits, storeVars>>, sent' \in Nat,
           sent <= sent'
    PROVE  StoreInv'
<1>1. StoreTypes' /\ Counted'
  BY DEF StoreInv, StoreTypes, Counted, StoreCountsRight, Entries, BytesOf, Waiting,
     storeVars
<1>2. ASSUME NEW p \in Peers, NEW i \in 1 .. Len(queues[p])
      PROVE  queues[p][i].id <= sent'
  <2>1. queues[p][i] \in Message
    BY LenProperties DEF StoreInv, StoreTypes
  <2>2. queues[p][i].id \in Nat /\ queues[p][i].id <= sent /\ sent \in Nat
    BY <2>1 DEF Message, StoreInv, StoreTypes, QueuesInOrder
  <2>3. QED  BY <2>2
<1>3. QueuesInOrder'
  BY <1>2 DEF StoreInv, QueuesInOrder, storeVars
<1>4. QED  BY <1>1, <1>3 DEF StoreInv

\* An empty store is in order.
LEMMA EmptyStore ==
    ASSUME queues' = [p \in Peers |-> <<>>], totalMessages' = 0, totalBytes' = 0,
           sent' \in Nat, limits \in Limits, UNCHANGED limits
    PROVE  StoreInv'
<1>1. <<>> \in Seq(Message) /\ Len(<<>>) = 0
  BY EmptySeq
<1>2. queues' \in [Peers -> Seq(Message)]
  BY <1>1
<1>3. Slots(queues') = {} /\ Waiting' = {} /\ Heavy(queues', {}) = {}
  BY DEF Slots, Waiting, Heavy
<1>4. IsFiniteSet({}) /\ Cardinality({}) = 0
  BY FS_EmptySet
<1>5. Entries' = {} /\ BytesOf(Entries)' = 0
  <2>1. Entries' = {}
    BY <1>3 DEF Entries, Slots
  <2>2. BytesOf(Entries)' = Cardinality(Entries') + Cardinality(Heavy(queues', Entries'))
    BY DEF BytesOf, Heavy
  <2>3. Heavy(queues', Entries') = {}
    BY <2>1 DEF Heavy
  <2>4. Cardinality(Entries') = 0 /\ Cardinality(Heavy(queues', Entries')) = 0
    BY <2>1, <2>3, <1>4
  <2>5. BytesOf(Entries)' = 0 + 0
    BY <2>2, <2>4
  <2>6. QED  BY <2>1, <2>5
<1>6. QueueBytes(<<>>) = 0
  BY <1>1, <1>4 DEF QueueBytes
<1>7. /\ limits.maxTotalMessages \in Nat
      /\ limits.maxTotalQueueBytes \in Nat
      /\ limits.maxQueuePeers \in Nat
      /\ limits.maxQueueSize \in Nat /\ limits.maxQueueBytes \in Nat
  BY LimitsAreNumbers
<1>8. Counted'
  <2>1. /\ totalMessages' = Cardinality(Entries') /\ totalBytes' = BytesOf(Entries)'
        /\ totalMessages' <= limits'.maxTotalMessages
        /\ totalBytes' <= limits'.maxTotalQueueBytes
    BY <1>4, <1>5, <1>7
  <2>2. Cardinality(Waiting') <= limits'.maxQueuePeers
    BY <1>3, <1>4, <1>7
  <2>3. \A p \in Peers : /\ Len(queues'[p]) <= limits'.maxQueueSize
                         /\ QueueBytes(queues'[p]) <= limits'.maxQueueBytes
    BY <1>1, <1>6, <1>7
  <2>4. IsFiniteSet(Slots(queues')) /\ IsFiniteSet(Waiting')
    BY <1>3, <1>4
  <2>5. QED
    BY <2>1, <2>2, <2>3, <2>4 DEF Counted, StoreCountsRight, Waiting
<1>9. QueuesInOrder'
  BY <1>1 DEF QueuesInOrder
<1>10. StoreTypes'
  BY <1>2 DEF StoreTypes
<1>11. QED  BY <1>8, <1>9, <1>10 DEF StoreInv

LEMMA DeliverKeepsStore ==
    ASSUME StoreInv, NEW p \in Peers, NEW n \in 0 .. Len(queues[p]),
           Deliver(p, n), UNCHANGED <<limits, sent>>
    PROVE  StoreInv'
<1>1. queues \in [Peers -> Seq(Message)] /\ IsFiniteSet(Slots(queues))
  BY DEF StoreInv, StoreTypes, Counted
<1>2. \A q \in Peers : Len(queues[q]) \in Nat
  BY <1>1, LenProperties
<1>3. Only(p, n) \in [Peers -> Nat] /\ \A q \in Peers : Only(p, n)[q] <= Len(queues[q])
  BY <1>2 DEF Only
<1>4. /\ [queues EXCEPT ![p] = SubSeq(@, n + 1, Len(@))] = Rest(queues, Only(p, n))
      /\ Cardinality(Front(queues, Only(p, n))) = n
      /\ QueueBytes(SubSeq(queues[p], 1, n))
           = n + Cardinality(Heavy(queues, Front(queues, Only(p, n))))
  <2>1. [queues EXCEPT ![p] = SubSeq(@, n + 1, Len(@))] = Rest(queues, Only(p, n))
    <3>1. \A q \in Peers : SubSeq(queues[q], 0 + 1, Len(queues[q])) = queues[q]
      BY <1>1, SubSeqFull
    <3>2. QED  BY <1>1, <3>1 DEF Rest, Only
  <2>2. Cardinality(Front(queues, Only(p, n))) = n
    BY <1>1, DeliveredCounts
  <2>3. QueueBytes(SubSeq(queues[p], 1, n))
          = n + Cardinality(Heavy(queues, Front(queues, Only(p, n))))
    BY <1>1, DeliveredCounts
  <2>4. QED  BY <2>1, <2>2, <2>3
<1>5. /\ queues' = [queues EXCEPT ![p] = SubSeq(@, n + 1, Len(@))]
      /\ totalMessages' = totalMessages - n
      /\ totalBytes' = totalBytes - QueueBytes(SubSeq(queues[p], 1, n))
  BY DEF Deliver
<1>6. QED  BY <1>3, <1>4, <1>5, EntriesAreSlots, FrontsKeepStore

LEMMA CleanupKeepsStore ==
    ASSUME StoreInv, Cleanup
    PROVE  StoreInv'
<1>1. PICK n \in 1 .. sent :
        /\ queues' = [p \in Peers |->
              SubSeq(queues[p], Expired(queues[p], n) + 1, Len(queues[p]))]
        /\ totalMessages' = totalMessages
              - Cardinality({e \in Entries : queues[e[1]][e[2]].id <= n})
        /\ totalBytes' = totalBytes
              - BytesOf({e \in Entries : queues[e[1]][e[2]].id <= n})
        /\ UNCHANGED <<limits, sent>>
  BY DEF Cleanup, history
<1>2. n \in Nat
  BY DEF StoreInv, StoreTypes
<1> DEFINE k == [p \in Peers |-> Expired(queues[p], n)]
           gone == Front(queues, k)
<1>3. ASSUME NEW p \in Peers
      PROVE  /\ k[p] \in Nat /\ k[p] <= Len(queues[p])
             /\ \A i \in 1 .. Len(queues[p]) : queues[p][i].id <= n <=> i <= k[p]
  <2>1. queues[p] \in Seq(Message) /\ Len(queues[p]) \in Nat
    BY LenProperties DEF StoreInv, StoreTypes
  <2>2. \A i, j \in 1 .. Len(queues[p]) : i < j => queues[p][i].id < queues[p][j].id
    BY DEF StoreInv, QueuesInOrder
  <2>3. /\ Expired(queues[p], n) \in 0 .. Len(queues[p])
        /\ \A i \in 1 .. Len(queues[p]) : queues[p][i].id <= n <=> i <= Expired(queues[p], n)
    BY <2>1, <2>2, <1>2, ExpiredIs
  <2>4. QED  BY <2>1, <2>3
<1>4. k \in [Peers -> Nat] /\ \A p \in Peers : k[p] <= Len(queues[p])
  BY <1>3
<1>5. queues' = Rest(queues, k)
  BY <1>1 DEF Rest
<1> HIDE DEF k
<1>6. \A p \in Peers, i \in Int : <<p, i>> \in Slots(queues) <=> i \in 1 .. Len(queues[p])
  BY SlotsAre DEF StoreInv, StoreTypes
<1>7. {e \in Entries : queues[e[1]][e[2]].id <= n} = gone
  <2>1. ASSUME NEW e \in Slots(queues)
        PROVE  queues[e[1]][e[2]].id <= n <=> e[2] <= k[e[1]]
    <3>1. PICK p \in Peers, i \in Nat : e = <<p, i>>
      BY SlotsAre DEF StoreInv, StoreTypes
    <3>2. i \in 1 .. Len(queues[p])
      BY <3>1, <1>6
    <3>3. QED  BY <3>1, <3>2, <1>3
  <2>2. QED  BY <2>1, EntriesAreSlots DEF Front
<1>8. QED  BY <1>1, <1>4, <1>5, <1>7, FrontsKeepStore

\* What a registration delivers, at most all of the queue.
LEMMA RegisterDelivers ==
    ASSUME StoreInv, NEW c \in Conns, NEW p \in Peers, HandleRegister(c, p)
    PROVE  \E n \in 0 .. Len(queues[p]) : Deliver(p, n)
<1>1. Deliverable(queues[p]) \in 0 .. Len(queues[p]) /\ Len(queues[p]) \in Nat
  BY DeliverableIs, LenProperties DEF StoreInv, StoreTypes
<1>2. \/ Deliver(p, 0) \/ Deliver(p, Deliverable(queues[p]))
      \/ \E n \in 0 .. Deliverable(queues[p]) - 1 : Deliver(p, n)
  BY DEF HandleRegister
<1>3. QED  BY <1>1, <1>2

LEMMA StepKeepsStore == StoreInv /\ [Next]_vars => StoreInv'
<1> SUFFICES ASSUME StoreInv, [Next]_vars PROVE StoreInv'
  OBVIOUS
<1>1. CASE UNCHANGED <<limits, queues, totalMessages, totalBytes, sent>>
  BY <1>1, SameStore DEF StoreInv, StoreTypes, storeVars
<1>2. CASE Cleanup
  BY <1>2, CleanupKeepsStore
<1>3. CASE Stop
  BY <1>3, EmptyStore DEF Stop, history, StoreInv, StoreTypes
<1>4. ASSUME NEW c \in Conns, NEW p \in Peers, HandleRegister(c, p) PROVE StoreInv'
  <2>1. PICK n \in 0 .. Len(queues[p]) : Deliver(p, n)
    BY <1>4, RegisterDelivers
  <2>2. QED  BY <1>4, <2>1, DeliverKeepsStore DEF HandleRegister
<1>5. ASSUME NEW c \in Conns, NEW p \in Peers, NEW kind \in Kinds,
             HandleMessage(c, p, kind)
      PROVE  StoreInv'
  <2> DEFINE m == [id |-> sent + 1, kind |-> kind, to |-> p]
  <2>1. m \in Message /\ m.id = sent + 1
    BY SignalingAssumption DEF Message, StoreInv, StoreTypes
  <2>2. /\ sent' = sent + 1 /\ UNCHANGED limits
        /\ Forward(p, m) \/ Enqueue(c, p, m)
    BY <1>5 DEF HandleMessage
  <2> HIDE DEF m
  <2>3. CASE UNCHANGED storeVars
    BY <2>2, <2>3, SameStore DEF StoreInv, StoreTypes
  <2>4. CASE /\ HasRoom(p, m)
             /\ queues' = [queues EXCEPT ![p] = Append(@, m)]
             /\ totalMessages' = totalMessages + 1
             /\ totalBytes' = totalBytes + Bytes(m)
    BY <2>1, <2>2, <2>4, EnqueueKeepsStore
  <2>5. QED  BY <2>2, <2>3, <2>4 DEF Forward, Enqueue
<1>6. QED
  BY <1>1, <1>2, <1>3, <1>4, <1>5
  DEF Next, Heartbeat, Start, Handle, HandleConnection, HandleDisconnection,
      StartClosing, Pong, World, Congest, Drain, FallSilent, vars, storeVars, history

LEMMA StoreInvInit == Init => StoreInv
<1> SUFFICES ASSUME Init PROVE StoreInv
  OBVIOUS
<1>1. <<>> \in Seq(Message) /\ Len(<<>>) = 0
  BY EmptySeq
<1>2. IsFiniteSet({}) /\ Cardinality({}) = 0
  BY FS_EmptySet
<1>3. Slots(queues) = {} /\ Waiting = {} /\ Heavy(queues, {}) = {}
  BY DEF Init, Slots, Waiting, Heavy
<1>4. QueueBytes(<<>>) = 0
  BY <1>1, <1>2 DEF QueueBytes
<1>5. Entries = {} /\ BytesOf(Entries) = 0 + 0
  BY <1>2, <1>3, EntriesAreSlots
<1>6. /\ limits.maxTotalMessages \in Nat
      /\ limits.maxTotalQueueBytes \in Nat
      /\ limits.maxQueuePeers \in Nat
      /\ limits.maxQueueSize \in Nat /\ limits.maxQueueBytes \in Nat
  BY LimitsAreNumbers DEF Init
<1>7. totalMessages = 0 /\ totalBytes = 0 /\ \A p \in Peers : queues[p] = <<>>
  BY DEF Init
<1>8. StoreCountsRight
  <2>1. totalMessages = Cardinality(Entries) /\ totalBytes = BytesOf(Entries)
    BY <1>2, <1>5, <1>7
  <2>2. Cardinality({p \in Peers : queues[p] # <<>>}) <= limits.maxQueuePeers
    <3>1. Cardinality(Waiting) <= limits.maxQueuePeers
      BY <1>2, <1>3, <1>6
    <3>2. QED  BY <3>1 DEF Waiting
  <2>3. \A p \in Peers : /\ Len(queues[p]) <= limits.maxQueueSize
                         /\ QueueBytes(queues[p]) <= limits.maxQueueBytes
    BY <1>1, <1>4, <1>6, <1>7
  <2>4. /\ totalMessages <= limits.maxTotalMessages
        /\ totalBytes <= limits.maxTotalQueueBytes
    BY <1>6, <1>7
  <2>5. QED  BY <2>1, <2>2, <2>3, <2>4 DEF StoreCountsRight
<1>9. Counted
  BY <1>2, <1>3, <1>8 DEF Counted
<1>10. StoreTypes /\ QueuesInOrder
  BY <1>1 DEF Init, StoreTypes, QueuesInOrder
<1>11. QED  BY <1>9, <1>10 DEF StoreInv

LEMMA StoreInvHolds == Spec => []StoreInv
BY StoreInvInit, StepKeepsStore, PTL DEF Spec

\* The counters of the store are those of its queues and its limits hold, for
\* any number of peers and messages of any kind, whatever is stored, delivered
\* in part, or expires.
THEOREM StoreIsCounted == Spec => []StoreCountsRight
<1>1. StoreInv => StoreCountsRight
  BY DEF StoreInv, Counted
<1>2. QED  BY <1>1, StoreInvHolds, PTL

-----------------------------------------------------------------------------
(* Order.  What one peer was sent and what waits for it, q and r, when s   *)
(* messages were sent so far: the lemmas say that what a step does to them *)
(* keeps the messages in their order, each of them in one place.           *)

WrappableQueue(q) == \A i \in 1 .. Len(q) : q[i].kind \in Wrappable

Backlog(q, r, s) ==
    /\ q \in Seq(Message) /\ r \in Seq(Nat) /\ s \in Nat
    /\ \A i \in 1 .. Len(q) : q[i].id <= s
    /\ \A i \in 1 .. Len(r) : r[i] <= s
    /\ \A i, j \in 1 .. Len(q) : i < j => q[i].id < q[j].id
    /\ \A i, j \in 1 .. Len(r) : i < j => r[i] < r[j]
    /\ \A i \in 1 .. Len(r) : \A j \in 1 .. Len(q) : r[i] < q[j].id

LEMMA BacklogTypes ==
    ASSUME NEW q, NEW r, NEW s, Backlog(q, r, s)
    PROVE  /\ Len(q) \in Nat /\ Len(r) \in Nat /\ s \in Nat
           /\ \A i \in 1 .. Len(q) : q[i] \in Message /\ q[i].id \in Nat
           /\ \A i \in 1 .. Len(r) : r[i] \in Nat
           /\ DOMAIN r = 1 .. Len(r)
<1>1. q \in Seq(Message) /\ r \in Seq(Nat) /\ s \in Nat
  BY DEF Backlog
<1>2. /\ Len(q) \in Nat /\ Len(r) \in Nat
      /\ \A i \in 1 .. Len(q) : q[i] \in Message
      /\ \A i \in 1 .. Len(r) : r[i] \in Nat
      /\ DOMAIN r = 1 .. Len(r)
  BY <1>1, LenProperties
<1>3. \A i \in 1 .. Len(q) : q[i].id \in Nat
  BY <1>2 DEF Message
<1>4. QED  BY <1>1, <1>2, <1>3

LEMMA FrontExpires ==
    ASSUME NEW q, NEW r, NEW s, Backlog(q, r, s), NEW k \in 0 .. Len(q)
    PROVE  Backlog(SubSeq(q, k + 1, Len(q)), r, s)
<1> DEFINE rest == SubSeq(q, k + 1, Len(q))
<1>1. /\ rest \in Seq(Message) /\ Len(rest) = Len(q) - k
      /\ \A i \in 1 .. Len(rest) : rest[i] = q[i + k]
  BY FrontGone DEF Backlog
<1>2. Len(q) \in Nat
  BY BacklogTypes
<1> HIDE DEF rest
<1>3. \A i \in 1 .. Len(rest) : i + k \in 1 .. Len(q) /\ rest[i] = q[i + k]
  BY <1>1, <1>2
<1>4. \A i, j \in 1 .. Len(rest) : i < j => i + k < j + k
  BY <1>1, <1>2
<1>5. Backlog(rest, r, s)
  BY <1>1, <1>3, <1>4 DEF Backlog
<1>6. QED  BY <1>5 DEF rest

LEMMA NumbersOf ==
    ASSUME NEW q \in Seq(Message)
    PROVE  /\ Ids(q) \in Seq(Nat) /\ Len(Ids(q)) = Len(q)
           /\ \A i \in 1 .. Len(q) : Ids(q)[i] = q[i].id
<1>1. /\ Len(q) \in Nat /\ DOMAIN q = 1 .. Len(q)
      /\ \A i \in 1 .. Len(q) : q[i] \in Message
  BY LenProperties
<1>2. \A i \in 1 .. Len(q) : q[i].id \in Nat
  BY <1>1 DEF Message
<1>3. Ids(q) = [i \in 1 .. Len(q) |-> q[i].id]
  BY <1>1 DEF Ids
<1>4. Ids(q) \in [1 .. Len(q) -> Nat]
  BY <1>2, <1>3
<1>5. Ids(q) \in Seq(Nat)
  BY <1>1, <1>4, SeqDef
<1>6. Len(Ids(q)) = Len(q)
  BY <1>1, <1>3, <1>5
<1>7. QED  BY <1>3, <1>5, <1>6

LEMMA FrontWritten ==
    ASSUME NEW q, NEW r, NEW s, Backlog(q, r, s), NEW k \in 0 .. Len(q)
    PROVE  Backlog(SubSeq(q, k + 1, Len(q)), r \o Ids(SubSeq(q, 1, k)), s)
<1> DEFINE rest == SubSeq(q, k + 1, Len(q))
           out == SubSeq(q, 1, k)
           w == r \o Ids(out)
<1>1. /\ Len(q) \in Nat /\ Len(r) \in Nat /\ s \in Nat
      /\ \A i \in 1 .. Len(q) : q[i] \in Message /\ q[i].id \in Nat
      /\ \A i \in 1 .. Len(r) : r[i] \in Nat
  BY BacklogTypes
<1>2. /\ out \in Seq(Message) /\ Len(out) = k
      /\ \A i \in 1 .. k : out[i] = q[i]
  <2>1. \A i \in 1 .. k : q[i] \in Message
    BY <1>1
  <2>2. 1 \in Int /\ k \in Int
    OBVIOUS
  <2>3. /\ out \in Seq(Message) /\ Len(out) = IF 1 <= k THEN k - 1 + 1 ELSE 0
        /\ \A i \in 1 .. k - 1 + 1 : out[i] = q[1 + i - 1]
    BY <2>1, <2>2, SubSeqProperties
  <2> HIDE DEF out
  <2>4. k - 1 + 1 = k /\ \A i \in 1 .. k : 1 + i - 1 = i
    BY <1>1
  <2>5. QED  BY <2>3, <2>4, <1>1
<1> HIDE DEF out
<1>3. /\ Ids(out) \in Seq(Nat) /\ Len(Ids(out)) = k
      /\ \A i \in 1 .. k : Ids(out)[i] = q[i].id
  BY <1>2, NumbersOf
<1>4. /\ w \in Seq(Nat) /\ Len(w) = Len(r) + k
      /\ \A i \in 1 .. Len(r) + k :
           w[i] = IF i <= Len(r) THEN r[i] ELSE Ids(out)[i - Len(r)]
  BY <1>3, ConcatProperties DEF Backlog
<1> HIDE DEF w
<1>5. ASSUME NEW i \in 1 .. Len(w)
      PROVE  \/ i \in 1 .. Len(r) /\ w[i] = r[i]
             \/ i - Len(r) \in 1 .. k /\ i - Len(r) \in 1 .. Len(q)
                /\ w[i] = q[i - Len(r)].id
  BY <1>1, <1>3, <1>4
<1>6. Backlog(rest, r, s)
  BY FrontExpires
<1>7. /\ Len(rest) = Len(q) - k
      /\ \A j \in 1 .. Len(rest) : rest[j] = q[j + k]
  BY FrontGone DEF Backlog
<1> HIDE DEF rest
<1>8. \A i \in 1 .. Len(w) : w[i] <= s
  BY <1>5 DEF Backlog
<1>9. ASSUME NEW i \in 1 .. Len(w), NEW j \in 1 .. Len(w), i < j
      PROVE  w[i] < w[j]
  <2>1. CASE j \in 1 .. Len(r) /\ w[j] = r[j]
    <3>1. i \in 1 .. Len(r) /\ w[i] = r[i]
      BY <2>1, <1>1, <1>4, <1>9
    <3>2. QED  BY <2>1, <3>1, <1>9 DEF Backlog
  <2>2. CASE /\ j - Len(r) \in 1 .. k /\ j - Len(r) \in 1 .. Len(q)
             /\ w[j] = q[j - Len(r)].id
    <3>1. CASE i \in 1 .. Len(r) /\ w[i] = r[i]
      BY <2>2, <3>1 DEF Backlog
    <3>2. CASE /\ i - Len(r) \in 1 .. k /\ i - Len(r) \in 1 .. Len(q)
               /\ w[i] = q[i - Len(r)].id
      <4>1. i - Len(r) < j - Len(r)
        BY <1>1, <1>9
      <4>2. QED  BY <2>2, <3>2, <4>1 DEF Backlog
    <3>3. QED  BY <3>1, <3>2, <1>5
  <2>3. QED  BY <2>1, <2>2, <1>5
<1>10. ASSUME NEW i \in 1 .. Len(w), NEW j \in 1 .. Len(rest)
       PROVE  w[i] < rest[j].id
  <2>1. j + k \in 1 .. Len(q) /\ rest[j] = q[j + k]
    BY <1>1, <1>7
  <2>2. CASE i \in 1 .. Len(r) /\ w[i] = r[i]
    BY <2>1, <2>2 DEF Backlog
  <2>3. CASE /\ i - Len(r) \in 1 .. k /\ i - Len(r) \in 1 .. Len(q)
             /\ w[i] = q[i - Len(r)].id
    <3>1. i - Len(r) < j + k
      BY <2>3
    <3>2. QED  BY <2>1, <2>3, <3>1 DEF Backlog
  <2>4. QED  BY <2>2, <2>3, <1>5
<1>11. Backlog(rest, w, s)
  BY <1>4, <1>6, <1>8, <1>9, <1>10 DEF Backlog
<1>12. QED  BY <1>11 DEF rest, w, out

LEMMA LastStored ==
    ASSUME NEW q, NEW r, NEW s, Backlog(q, r, s), NEW m \in Message, m.id = s + 1
    PROVE  Backlog(Append(q, m), r, s + 1)
<1> DEFINE t == Append(q, m)
<1>1. /\ Len(q) \in Nat /\ Len(r) \in Nat /\ s \in Nat
      /\ \A i \in 1 .. Len(q) : q[i] \in Message /\ q[i].id \in Nat
      /\ \A i \in 1 .. Len(r) : r[i] \in Nat
  BY BacklogTypes
<1>2. /\ t \in Seq(Message) /\ Len(t) = Len(q) + 1
      /\ \A i \in 1 .. Len(q) : t[i] = q[i]
      /\ t[Len(q) + 1] = m
  BY StoredBytes DEF Backlog
<1> HIDE DEF t
<1>3. \A i \in 1 .. Len(t) : \/ i \in 1 .. Len(q) /\ t[i].id = q[i].id
                             \/ i = Len(q) + 1 /\ t[i].id = s + 1
  BY <1>1, <1>2
<1>4. (\A i \in 1 .. Len(q) : q[i].id <= s) /\ (\A i \in 1 .. Len(r) : r[i] <= s)
  BY DEF Backlog
<1>5. (\A i \in 1 .. Len(t) : t[i].id <= s + 1) /\ (\A i \in 1 .. Len(r) : r[i] <= s + 1)
  BY <1>1, <1>3, <1>4
<1>6. ASSUME NEW i \in 1 .. Len(t), NEW j \in 1 .. Len(t), i < j
      PROVE  t[i].id < t[j].id
  <2>1. i \in 1 .. Len(q) /\ t[i].id = q[i].id
    BY <1>1, <1>2, <1>3, <1>6
  <2>2. CASE j \in 1 .. Len(q) /\ t[j].id = q[j].id
    BY <2>1, <2>2, <1>6 DEF Backlog
  <2>3. CASE t[j].id = s + 1
    BY <2>1, <2>3, <1>1, <1>4
  <2>4. QED  BY <2>2, <2>3, <1>3
<1>7. ASSUME NEW i \in 1 .. Len(r), NEW j \in 1 .. Len(t)
      PROVE  r[i] < t[j].id
  <2>1. CASE j \in 1 .. Len(q) /\ t[j].id = q[j].id
    BY <2>1 DEF Backlog
  <2>2. CASE t[j].id = s + 1
    BY <2>2, <1>1, <1>4
  <2>3. QED  BY <2>1, <2>2, <1>3
<1>8. Backlog(t, r, s + 1)
  BY <1>1, <1>2, <1>5, <1>6, <1>7 DEF Backlog
<1>9. QED  BY <1>8 DEF t

LEMMA LastWritten ==
    ASSUME NEW q, NEW r, NEW s, Backlog(q, r, s), q = <<>>
    PROVE  Backlog(q, Append(r, s + 1), s + 1)
<1> DEFINE t == Append(r, s + 1)
<1>1. /\ Len(q) = 0 /\ Len(r) \in Nat /\ s \in Nat /\ s + 1 \in Nat
      /\ \A i \in 1 .. Len(r) : r[i] \in Nat /\ r[i] <= s
  BY BacklogTypes, EmptySeq DEF Backlog
<1>2. /\ t \in Seq(Nat) /\ Len(t) = Len(r) + 1
      /\ \A i \in 1 .. Len(r) : t[i] = r[i]
      /\ t[Len(r) + 1] = s + 1
  BY <1>1, AppendProperties DEF Backlog
<1> HIDE DEF t
<1>3. \A i \in 1 .. Len(t) : \/ i \in 1 .. Len(r) /\ t[i] = r[i]
                             \/ i = Len(r) + 1 /\ t[i] = s + 1
  BY <1>1, <1>2
<1>4. \A i \in 1 .. Len(t) : t[i] <= s + 1
  BY <1>1, <1>3
<1>5. ASSUME NEW i \in 1 .. Len(t), NEW j \in 1 .. Len(t), i < j
      PROVE  t[i] < t[j]
  <2>1. i \in 1 .. Len(r) /\ t[i] = r[i]
    BY <1>1, <1>2, <1>3, <1>5
  <2>2. CASE j \in 1 .. Len(r) /\ t[j] = r[j]
    BY <2>1, <2>2, <1>5 DEF Backlog
  <2>3. CASE t[j] = s + 1
    BY <2>1, <2>3, <1>1
  <2>4. QED  BY <2>2, <2>3, <1>3
<1>6. Backlog(q, t, s + 1)
  BY <1>1, <1>2, <1>4, <1>5 DEF Backlog
<1>7. QED  BY <1>6 DEF t

LEMMA OneMoreSent ==
    ASSUME NEW q, NEW r, NEW s, Backlog(q, r, s)
    PROVE  Backlog(q, r, s + 1)
<1>1. /\ s \in Nat
      /\ \A i \in 1 .. Len(q) : q[i].id \in Nat
      /\ \A i \in 1 .. Len(r) : r[i] \in Nat
  BY BacklogTypes
<1>2. (\A i \in 1 .. Len(q) : q[i].id <= s + 1) /\ (\A i \in 1 .. Len(r) : r[i] <= s + 1)
  BY <1>1 DEF Backlog
<1>3. QED  BY <1>1, <1>2 DEF Backlog

-----------------------------------------------------------------------------
(* What a step does to one peer: the front of its queue is removed, or     *)
(* written to it, or a new message is stored, written, or was for another. *)

Loses(p) ==
    /\ \E k \in 0 .. Len(queues[p]) :
         queues'[p] = SubSeq(queues[p], k + 1, Len(queues[p]))
    /\ received'[p] = received[p] /\ sent' = sent

GetsBacklog(p) ==
    /\ \E k \in 0 .. Len(queues[p]) :
         /\ queues'[p] = SubSeq(queues[p], k + 1, Len(queues[p]))
         /\ received'[p] = received[p] \o Ids(SubSeq(queues[p], 1, k))
    /\ sent' = sent

Stores(p) ==
    /\ ~ Online(p)
    /\ \E m \in Message : /\ m.id = sent + 1 /\ m.kind \in Kinds
                          /\ queues'[p] = Append(queues[p], m)
    /\ received'[p] = received[p] /\ sent' = sent + 1

Gets(p) ==
    /\ Online(p)
    /\ received'[p] = Append(received[p], sent + 1)
    /\ queues'[p] = queues[p] /\ sent' = sent + 1

Misses(p) ==
    queues'[p] = queues[p] /\ received'[p] = received[p] /\ sent' = sent + 1

PeerStep(p) == Loses(p) \/ GetsBacklog(p) \/ Stores(p) \/ Gets(p) \/ Misses(p)

LEMMA NothingLost ==
    ASSUME StoreInv, NEW p \in Peers, queues'[p] = queues[p],
           received'[p] = received[p], sent' = sent
    PROVE  PeerStep(p)
<1>1. queues[p] \in Seq(Message) /\ Len(queues[p]) \in Nat
  BY LenProperties DEF StoreInv, StoreTypes
<1>2. SubSeq(queues[p], 0 + 1, Len(queues[p])) = queues[p]
  BY <1>1, SubSeqFull
<1>3. 0 \in 0 .. Len(queues[p])
  BY <1>1
<1>4. QED  BY <1>2, <1>3 DEF PeerStep, Loses

\* Every step is one of these for every peer.
LEMMA StepOfPeer ==
    ASSUME StoreInv, [Next]_vars, received \in [Peers -> Seq(Nat)], NEW p \in Peers
    PROVE  PeerStep(p)
<1>1. /\ queues \in [Peers -> Seq(Message)] /\ queues[p] \in Seq(Message)
      /\ Len(queues[p]) \in Nat /\ sent \in Nat
  BY LenProperties DEF StoreInv, StoreTypes
<1>2. CASE UNCHANGED <<queues, received, sent>>
  BY <1>2, NothingLost
<1>3. CASE Cleanup
  <2>1. PICK n \in 1 .. sent :
          queues'[p] = SubSeq(queues[p], Expired(queues[p], n) + 1, Len(queues[p]))
    BY <1>3 DEF Cleanup
  <2>2. Expired(queues[p], n) \in 0 .. Len(queues[p])
    <3>1. \A i, j \in 1 .. Len(queues[p]) : i < j => queues[p][i].id < queues[p][j].id
      BY DEF StoreInv, QueuesInOrder
    <3>2. n \in Nat
      BY <1>1
    <3>3. QED  BY <1>1, <3>1, <3>2, ExpiredIs
  <2>3. UNCHANGED <<received, sent>>
    BY <1>3 DEF Cleanup, history
  <2>4. QED  BY <2>1, <2>2, <2>3 DEF PeerStep, Loses
<1>4. CASE Stop
  <2>1. queues'[p] = <<>> /\ UNCHANGED <<received, sent>>
    BY <1>4 DEF Stop, history
  <2>2. SubSeq(queues[p], Len(queues[p]) + 1, Len(queues[p])) = <<>>
    BY <1>1, SubSeqEmpty
  <2>3. Len(queues[p]) \in 0 .. Len(queues[p])
    BY <1>1
  <2>4. QED  BY <2>1, <2>2, <2>3 DEF PeerStep, Loses
<1>5. ASSUME NEW c \in Conns, NEW q \in Peers, HandleRegister(c, q)
      PROVE  PeerStep(p)
  <2>1. PICK n \in 0 .. Len(queues[q]) : Deliver(q, n)
    BY <1>5, RegisterDelivers
  <2>2. UNCHANGED sent
    BY <1>5 DEF HandleRegister
  <2>3. /\ queues' = [queues EXCEPT ![q] = SubSeq(@, n + 1, Len(@))]
        /\ received' = [received EXCEPT ![q] = @ \o Ids(SubSeq(queues[q], 1, n))]
    BY <2>1 DEF Deliver
  <2>4. CASE p = q
    <3>1. /\ queues'[p] = SubSeq(queues[p], n + 1, Len(queues[p]))
          /\ received'[p] = received[p] \o Ids(SubSeq(queues[p], 1, n))
          /\ n \in 0 .. Len(queues[p])
      BY <2>3, <2>4, <1>1
    <3>2. QED  BY <2>2, <3>1 DEF PeerStep, GetsBacklog
  <2>5. CASE p # q
    <3>1. queues'[p] = queues[p] /\ received'[p] = received[p]
      BY <2>3, <2>5, <1>1
    <3>2. QED  BY <2>2, <3>1, NothingLost
  <2>6. QED  BY <2>4, <2>5
<1>6. ASSUME NEW c \in Conns, NEW q \in Peers, NEW kind \in Kinds,
             HandleMessage(c, q, kind)
      PROVE  PeerStep(p)
  <2> DEFINE m == [id |-> sent + 1, kind |-> kind, to |-> q]
  <2>1. m \in Message /\ m.id = sent + 1 /\ m.kind \in Kinds
    BY <1>1, SignalingAssumption DEF Message
  <2>2. sent' = sent + 1 /\ (Forward(q, m) \/ Enqueue(c, q, m))
    BY <1>6 DEF HandleMessage
  <2> HIDE DEF m
  <2>3. CASE UNCHANGED <<queues, received>>
    BY <2>2, <2>3 DEF PeerStep, Misses
  <2>4. CASE /\ Online(q) /\ received' = [received EXCEPT ![q] = Append(@, m.id)]
             /\ UNCHANGED queues
    <3>1. CASE p = q
      BY <2>1, <2>2, <2>4, <3>1 DEF PeerStep, Gets
    <3>2. CASE p # q
      BY <2>2, <2>4, <3>2 DEF PeerStep, Misses
    <3>3. QED  BY <3>1, <3>2
  <2>5. CASE /\ ~ Online(q) /\ queues' = [queues EXCEPT ![q] = Append(@, m)]
             /\ UNCHANGED received
    <3>1. CASE p = q
      <4>1. queues'[p] = Append(queues[p], m) /\ received'[p] = received[p]
        BY <2>5, <3>1, <1>1
      <4>2. QED  BY <2>1, <2>2, <2>5, <3>1, <4>1 DEF PeerStep, Stores
    <3>2. CASE p # q
      BY <2>2, <2>5, <3>2, <1>1 DEF PeerStep, Misses
    <3>3. QED  BY <3>1, <3>2
  <2>6. QED  BY <2>2, <2>3, <2>4, <2>5 DEF Forward, Enqueue, storeVars
<1>7. QED
  BY <1>2, <1>3, <1>4, <1>5, <1>6
  DEF Next, Heartbeat, Start, Handle, HandleConnection, HandleDisconnection,
      StartClosing, Pong, World, Congest, Drain, FallSilent, vars, storeVars, history

\* A peer goes online only by registering, on the socket it registers with.
LEMMA OnlineByRegistration ==
    ASSUME SocketInv, [Next]_vars, NEW p \in Peers, Online(p)',
           ~ \E c \in Conns : HandleRegister(c, p)
    PROVE  Online(p)
<1>1. CASE OnlyCloses /\ (clients'[p] = clients[p])
  BY <1>1 DEF OnlyCloses, Online, Open, SocketInv, SocketTypes
<1>2. ASSUME NEW c \in Conns, HandleConnection(c) PROVE Online(p)
  BY <1>2
  DEF HandleConnection, Online, Open, SocketInv, SocketTypes, FreshSockets,
      RegistrationMatchesSockets
<1>3. ASSUME NEW c \in Conns, HandleDisconnection(c) PROVE Online(p)
  BY <1>3, DisconnectionCloses DEF Online, Open, SocketInv, SocketTypes
<1>4. ASSUME NEW c \in Conns, NEW q \in Peers, HandleRegister(c, q) PROVE Online(p)
  <2>1. q # p
    BY <1>4
  <2>2. clients'[p] = clients[p]
    BY <1>4, <2>1 DEF HandleRegister, SocketInv, SocketTypes
  <2>3. QED  BY <1>1, <1>4, <2>2, RegistrationCloses
<1>5. ASSUME NEW c \in Conns, NEW q \in Peers, NEW kind \in Kinds,
             HandleMessage(c, q, kind)
      PROVE  Online(p)
  <2>1. ready' = SendTo(ready, {clients[q]}) \/ ready' = SendTo(ready, {c})
    BY <1>5 DEF HandleMessage, Forward, Enqueue
  <2>2. OnlyCloses
    BY <2>1, SendToOnlyCloses DEF OnlyCloses, SocketInv, SocketTypes
  <2>3. QED  BY <1>1, <1>5, <2>2 DEF HandleMessage
<1>6. CASE Stop
  BY <1>6 DEF Stop, Online
<1>7. CASE Heartbeat
  <2>1. OnlyCloses
    BY <1>7 DEF Heartbeat, OnlyCloses, Closing, SocketStates, SocketInv, SocketTypes
  <2>2. QED  BY <1>1, <1>7, <2>1 DEF Heartbeat
<1>8. ASSUME NEW c \in Conns, StartClosing(c) PROVE Online(p)
  <2>1. OnlyCloses
    BY <1>8, ClosingOnlyCloses DEF StartClosing, OnlyCloses, SocketInv, SocketTypes
  <2>2. QED  BY <1>1, <1>8, <2>1 DEF StartClosing
<1>9. CASE UNCHANGED <<ready, clients>>
  BY <1>9 DEF Online, Open
<1>10. QED
  BY <1>2, <1>3, <1>4, <1>5, <1>6, <1>7, <1>8, <1>9
  DEF Next, Cleanup, Start, Handle, Pong, World, Congest, Drain, FallSilent, vars,
      socketVars

-----------------------------------------------------------------------------
(* Where every message still fits in a frame when it is wrapped.           *)

OrderInv ==
    /\ received \in [Peers -> Seq(Nat)]
    /\ \A p \in Peers : Backlog(queues[p], received[p], sent) /\ WrappableQueue(queues[p])
    /\ NoBacklogWhileOnline

LEMMA OrderInvInit == Init => OrderInv
<1> SUFFICES ASSUME Init PROVE OrderInv
  OBVIOUS
<1>1. <<>> \in Seq(Message) /\ <<>> \in Seq(Nat) /\ Len(<<>>) = 0
  BY EmptySeq
<1>2. Backlog(<<>>, <<>>, 0) /\ WrappableQueue(<<>>)
  BY <1>1 DEF Backlog, WrappableQueue
<1>3. QED  BY <1>1, <1>2 DEF Init, OrderInv, NoBacklogWhileOnline

\* What is left of a queue still fits, message by message.
LEMMA WrappableFront ==
    ASSUME NEW q \in Seq(Message), WrappableQueue(q), NEW k \in 0 .. Len(q)
    PROVE  WrappableQueue(SubSeq(q, k + 1, Len(q)))
<1> DEFINE rest == SubSeq(q, k + 1, Len(q))
<1>1. /\ rest \in Seq(Message) /\ Len(rest) = Len(q) - k
      /\ \A i \in 1 .. Len(rest) : rest[i] = q[i + k]
  BY FrontGone
<1>2. Len(q) \in Nat
  BY LenProperties
<1> HIDE DEF rest
<1>3. WrappableQueue(rest)
  BY <1>1, <1>2 DEF WrappableQueue
<1>4. QED  BY <1>3 DEF rest

\* A step keeps the order of what a peer gets, and its queue wrappable; a
\* queue that is empty only fills while the peer is away.
LEMMA PeerStepKeepsOrder ==
    ASSUME Kinds \subseteq Wrappable, NEW p \in Peers, PeerStep(p),
           Backlog(queues[p], received[p], sent), WrappableQueue(queues[p]),
           Online(p) => queues[p] = <<>>
    PROVE  /\ Backlog(queues'[p], received'[p], sent') /\ WrappableQueue(queues'[p])
           /\ Online(p) => queues'[p] = <<>>
<1>1. queues[p] \in Seq(Message) /\ Len(queues[p]) \in Nat
  BY LenProperties DEF Backlog
<1>2. ASSUME NEW k \in 0 .. Len(queues[p]), queues[p] = <<>>
      PROVE  SubSeq(queues[p], k + 1, Len(queues[p])) = <<>>
  <2>1. Len(queues[p]) = 0
    BY <1>2, EmptySeq
  <2>2. QED  BY <2>1, SubSeqEmpty
<1>3. CASE Loses(p)
  BY <1>1, <1>2, <1>3, FrontExpires, WrappableFront DEF Loses
<1>4. CASE GetsBacklog(p)
  BY <1>1, <1>2, <1>4, FrontWritten, WrappableFront DEF GetsBacklog
<1>5. CASE Stores(p)
  <2>1. PICK m \in Message : /\ m.id = sent + 1 /\ m.kind \in Wrappable
                             /\ queues'[p] = Append(queues[p], m)
    BY <1>5 DEF Stores
  <2>2. Backlog(queues'[p], received'[p], sent')
    BY <1>5, <2>1, LastStored DEF Stores
  <2>3. /\ Len(queues'[p]) = Len(queues[p]) + 1
        /\ \A i \in 1 .. Len(queues[p]) : queues'[p][i] = queues[p][i]
        /\ queues'[p][Len(queues[p]) + 1] = m
    BY <1>1, <2>1, StoredBytes
  <2>4. WrappableQueue(queues'[p])
    BY <1>1, <2>1, <2>3 DEF WrappableQueue
  <2>5. QED  BY <1>5, <2>2, <2>4 DEF Stores
<1>6. CASE Gets(p)
  BY <1>6, LastWritten DEF Gets
<1>7. CASE Misses(p)
  BY <1>7, OneMoreSent DEF Misses
<1>8. QED  BY <1>3, <1>4, <1>5, <1>6, <1>7 DEF PeerStep

LEMMA StepKeepsOrderInv ==
    ASSUME Kinds \subseteq Wrappable, SocketInv, StoreInv, OrderInv, [Next]_vars
    PROVE  OrderInv'
<1>1. ASSUME NEW p \in Peers
      PROVE  /\ Backlog(queues'[p], received'[p], sent') /\ WrappableQueue(queues'[p])
             /\ Online(p) => queues'[p] = <<>>
  <2>1. PeerStep(p)
    BY StepOfPeer DEF OrderInv
  <2>2. QED
    BY <2>1, PeerStepKeepsOrder DEF OrderInv, NoBacklogWhileOnline
<1>2. received' \in [Peers -> Seq(Nat)]
  <2>1. /\ received \in [Peers -> Seq(Nat)]
        /\ \A p \in Peers : received'[p] \in Seq(Nat)
    BY <1>1 DEF OrderInv, Backlog
  <2>2. \/ UNCHANGED received
        \/ \E p \in Peers : \E w : received' = [received EXCEPT ![p] = w]
    <3>1. ASSUME NEW c \in Conns, NEW p \in Peers, HandleRegister(c, p)
          PROVE  \E w : received' = [received EXCEPT ![p] = w]
      BY <3>1 DEF HandleRegister, Deliver
    <3>2. ASSUME NEW c \in Conns, NEW p \in Peers, NEW kind \in Kinds,
                 HandleMessage(c, p, kind)
          PROVE  UNCHANGED received \/ \E w : received' = [received EXCEPT ![p] = w]
      BY <3>2 DEF HandleMessage, Forward, Enqueue
    <3>3. QED
      BY <3>1, <3>2
      DEF Next, Heartbeat, Cleanup, Stop, Start, Handle, HandleConnection,
          HandleDisconnection, StartClosing, Pong, World, Congest, Drain,
          FallSilent, vars, history
  <2>3. QED  BY <2>1, <2>2
<1>3. ASSUME NEW p \in Peers, Online(p)' PROVE queues'[p] = <<>>
  <2>1. CASE Online(p)
    BY <1>1, <2>1
  <2>2. CASE ~ Online(p)
    <3>1. PICK c \in Conns : HandleRegister(c, p)
      BY <1>3, <2>2, OnlineByRegistration
    <3>2. clients'[p] = c /\ ready'[c] = "open"
      BY <1>3, <3>1 DEF HandleRegister, Online, Open, SocketInv, SocketTypes
    <3>3. Deliver(p, Deliverable(queues[p]))
      BY <3>1, <3>2, RegistrationCloses
    <3>4. queues[p] \in Seq(Message) /\ WrappableQueue(queues[p]) /\ Len(queues[p]) \in Nat
      BY LenProperties DEF OrderInv, Backlog
    <3>5. Deliverable(queues[p]) = Len(queues[p])
      BY <3>4, DeliverableIs DEF WrappableQueue
    <3>6. queues'[p] = SubSeq(queues[p], Len(queues[p]) + 1, Len(queues[p]))
      BY <3>3, <3>5 DEF Deliver, StoreInv, StoreTypes
    <3>7. QED  BY <3>4, <3>6, SubSeqEmpty
  <2>3. QED  BY <2>1, <2>2
<1>4. NoBacklogWhileOnline'
  BY <1>3 DEF NoBacklogWhileOnline
<1>5. QED  BY <1>1, <1>2, <1>4 DEF OrderInv

\* Where every stored message fits in a frame when it is delivered, none waits
\* for a peer that is connected and registered.
THEOREM NothingWaitsOnline ==
    ASSUME Kinds \subseteq Wrappable
    PROVE  Spec => []NoBacklogWhileOnline
<1>1. SocketInv /\ StoreInv /\ OrderInv /\ [Next]_vars => OrderInv'
  BY StepKeepsOrderInv
<1>2. OrderInv => NoBacklogWhileOnline
  BY DEF OrderInv
<1>3. QED
  BY <1>1, <1>2, SocketInvInit, StepKeepsSocketInv, StoreInvHolds, OrderInvInit, PTL
  DEF Spec

\* There the messages to a peer, relayed or stored, are written in the order in
\* which they came and none twice, over all its reconnects and the server's
\* restarts.
THEOREM MessagesArriveInOrder ==
    ASSUME Kinds \subseteq Wrappable
    PROVE  Spec => []WrittenInOrder
<1>1. SocketInv /\ StoreInv /\ OrderInv /\ [Next]_vars => OrderInv'
  BY StepKeepsOrderInv
<1>2. OrderInv => WrittenInOrder
  BY BacklogTypes DEF OrderInv, Backlog, WrittenInOrder
<1>3. QED
  BY <1>1, <1>2, SocketInvInit, StepKeepsSocketInv, StoreInvHolds, OrderInvInit, PTL
  DEF Spec
=============================================================================
