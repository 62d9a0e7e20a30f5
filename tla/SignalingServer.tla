--------------------------- MODULE SignalingServer ---------------------------
(***************************************************************************)
(* The signaling server (signaling-server/index.js) with its offline       *)
(* message store (offline-message-store.js): it relays messages between    *)
(* registered peers and keeps those for peers that are away.               *)
(*                                                                         *)
(* The server is one event loop: a handler runs to its end, so a handler   *)
(* is an action.  What interleaves is the world around it: frames that     *)
(* still arrive on a socket the server is closing, close events that come  *)
(* later, sockets that stop draining, peers that connect again before      *)
(* their old socket is gone.                                               *)
(*                                                                         *)
(* A message is its number and its kind.  A "plain" one fits in a frame    *)
(* however it is wrapped, as does a "long" one, which has twice its bytes; *)
(* a "bulky" one fits as it is relayed but not inside an offline-message;  *)
(* an "oversized" one does not even fit with the sender and timestamp that *)
(* relaying adds.                                                          *)
(***************************************************************************)
EXTENDS Naturals, Sequences, FiniteSets

CONSTANTS
    Conns,              \* sockets; a closed one stands for the next to connect
    Peers,              \* peer ids
    None,
    Kinds,              \* the kinds of messages that are sent
    MaxMessages,        \* bound on messages sent
    Watched,            \* whether sockets fall silent and the heartbeat runs
    Limits              \* the limits that a server may be started with

AllKinds == {"plain", "long", "bulky", "oversized"}

\* The kinds that an offline-message can carry.
Wrappable == {"plain", "long"}

\* What resolveLimits lets pass.
LegalLimits ==
    {l \in [maxConnections : Nat \ {0}, maxQueuePeers : Nat \ {0},
            maxQueueSize : Nat \ {0}, maxTotalMessages : Nat \ {0},
            maxQueueBytes : Nat \ {0}, maxTotalQueueBytes : Nat \ {0}] :
        /\ l.maxQueueSize <= l.maxTotalMessages
        /\ l.maxQueueBytes <= l.maxTotalQueueBytes}

ASSUME SignalingAssumption ==
    /\ None \notin Conns \cup Peers
    /\ Kinds \subseteq AllKinds
    /\ MaxMessages \in Nat /\ Watched \in BOOLEAN
    /\ \A l \in Limits : l \in LegalLimits

VARIABLES
    limits,          \* this.limits, from the configuration
    up,              \* the server is started
    ready,           \* readyState of each socket
    peerOf,          \* ws.peerId
    connections,     \* this.connections
    clients,         \* this.clients: the socket registered for each peer
    queues,          \* the offline queue of each peer
    totalMessages,   \* counters of the store
    totalBytes,
    unanswered,      \* sockets with isAlive = false
    slow,            \* sockets whose bufferedAmount is above the limit
    silent,          \* sockets whose other end is gone without a word
    sent,            \* messages sent so far
    received,        \* numbers written to the sockets of each peer
    dropped          \* messages neither written, stored nor answered

socketVars == <<ready, peerOf, connections, clients, unanswered>>
storeVars  == <<queues, totalMessages, totalBytes>>
worldVars  == <<slow, silent>>
history    == <<sent, received, dropped>>
vars == <<limits, up, ready, peerOf, connections, clients, unanswered,
          queues, totalMessages, totalBytes, slow, silent,
          sent, received, dropped>>

Open(c) == ready[c] = "open"

Bytes(m) == IF m.kind = "plain" THEN 1 ELSE 2

QueueBytes(q) ==
    Len(q) + Cardinality({i \in DOMAIN q : q[i].kind # "plain"})

\* The entries of the store, each by its peer and its place, and their bytes.
Entries == UNION {{p} \X DOMAIN queues[p] : p \in Peers}

BytesOf(es) ==
    Cardinality(es)
      + Cardinality({e \in es : queues[e[1]][e[2]].kind # "plain"})

\* Mutant: without the close of a slow consumer.
SendToPatiently(states, targets) == states

\* What sending to each of a set of sockets does: slow consumers are closed.
SendTo(states, targets) ==
    [c \in Conns |-> IF c \in targets \cap slow /\ states[c] = "open"
                     THEN "closing" ELSE states[c]]

Closing(states, c) ==
    [states EXCEPT ![c] = IF @ = "open" THEN "closing" ELSE @]

\* The peer's registered socket is open.
Online(p) == clients[p] # None /\ Open(clients[p])

Listed(table, peers) == {table[p] : p \in peers} \ {None}

Init ==
    /\ limits \in Limits
    /\ up = TRUE
    /\ ready = [c \in Conns |-> "closed"]
    /\ peerOf = [c \in Conns |-> None]
    /\ connections = {} /\ unanswered = {} /\ slow = {} /\ silent = {}
    /\ clients = [p \in Peers |-> None]
    /\ queues = [p \in Peers |-> <<>>]
    /\ totalMessages = 0 /\ totalBytes = 0 /\ sent = 0
    /\ received = [p \in Peers |-> <<>>]
    /\ dropped = {}

-----------------------------------------------------------------------------
(* Sockets.  One too many is closed at once and leaves no trace.           *)

HandleConnection(c) ==
    /\ up /\ ready[c] = "closed"
    /\ Cardinality(connections) < limits.maxConnections
    /\ ready' = [ready EXCEPT ![c] = "open"]
    /\ connections' = connections \cup {c}
    /\ UNCHANGED <<limits, up, peerOf, clients, unanswered, storeVars,
                   worldVars, history>>

\* Frames arrive on a socket until its close event, also while it is closing.
Receives(c) == up /\ c \in connections /\ c \notin silent

\* Either end starts the closing handshake: the peer leaves, a frame is too
\* large, or there are too many of them.
StartClosing(c) ==
    /\ Receives(c) /\ Open(c)
    /\ ready' = Closing(ready, c)
    /\ UNCHANGED <<limits, up, peerOf, connections, clients, unanswered,
                   storeVars, worldVars, history>>

\* Nothing is left of a socket that is closed.
Forget(c) ==
    /\ peerOf' = [peerOf EXCEPT ![c] = None]
    /\ unanswered' = unanswered \ {c}
    /\ slow' = slow \ {c} /\ silent' = silent \ {c}

\* Mutant: the closing socket is not compared with the registered one.
DisconnectPeer(c) ==
    LET p == peerOf[c]
        leaves == p # None /\ clients[p] # None
        clients2 == IF leaves THEN [clients EXCEPT ![p] = None] ELSE clients
    IN
    /\ up /\ c \in connections /\ ready[c] = "closing"
    /\ connections' = connections \ {c}
    /\ clients' = clients2
    /\ ready' = LET closed == [ready EXCEPT ![c] = "closed"] IN
                IF leaves THEN SendTo(closed, Listed(clients2, Peers))
                ELSE closed
    /\ Forget(c)
    /\ UNCHANGED <<limits, up, storeVars, history>>

\* The close event.  Only the socket that is registered takes the peer along.
HandleDisconnection(c) ==
    LET p == peerOf[c]
        leaves == p # None /\ clients[p] = c
        clients2 == IF leaves THEN [clients EXCEPT ![p] = None] ELSE clients
    IN
    /\ up /\ c \in connections /\ ready[c] = "closing"
    /\ connections' = connections \ {c}
    /\ clients' = clients2
    /\ ready' = LET closed == [ready EXCEPT ![c] = "closed"] IN
                IF leaves THEN SendTo(closed, Listed(clients2, Peers))
                ELSE closed
    /\ Forget(c)
    /\ UNCHANGED <<limits, up, storeVars, history>>

\* Mutant: without the check of the answer to the last ping.
OnlyPing ==
    /\ up /\ Watched
    /\ unanswered' = connections
    /\ unanswered' # unanswered
    /\ UNCHANGED <<limits, up, ready, peerOf, connections, clients, storeVars,
                   worldVars, history>>

\* The heartbeat: terminate who has not answered the last ping, ping the rest.
Heartbeat ==
    /\ up /\ Watched
    /\ ready' = [c \in Conns |-> IF c \in unanswered THEN Closing(ready, c)[c]
                                 ELSE ready[c]]
    /\ unanswered' = connections
    /\ unanswered' # unanswered \/ ready' # ready
    /\ UNCHANGED <<limits, up, peerOf, connections, clients, storeVars,
                   worldVars, history>>

Pong(c) ==
    /\ Receives(c) /\ c \in unanswered
    /\ unanswered' = unanswered \ {c}
    /\ UNCHANGED <<limits, up, ready, peerOf, connections, clients, storeVars,
                   worldVars, history>>

-----------------------------------------------------------------------------
(* Registration and delivery of what was stored.                           *)

\* Mutant: a loop that stops one short.
AllButLast(q) ==
    CHOOSE n \in 0 .. Len(q) :
        /\ \A i \in 1 .. n : q[i].kind \in Wrappable
        /\ n + 1 < Len(q) => q[n + 1].kind \notin Wrappable

\* The longest part of a queue that can be written: it ends before a message
\* whose wrapped form is too large for a frame.
Deliverable(q) ==
    CHOOSE n \in 0 .. Len(q) :
        /\ \A i \in 1 .. n : q[i].kind \in Wrappable
        /\ n < Len(q) => q[n + 1].kind \notin Wrappable

Ids(q) == [i \in DOMAIN q |-> q[i].id]

\* Mutant: without the acknowledge.
DeliverUnacknowledged(p, n) ==
    /\ received' = [received EXCEPT ![p] = @ \o Ids(SubSeq(queues[p], 1, n))]
    /\ UNCHANGED storeVars

\* Write n stored messages of p and acknowledge each of them.
Deliver(p, n) ==
    LET out == SubSeq(queues[p], 1, n) IN
    /\ queues' = [queues EXCEPT ![p] = SubSeq(@, n + 1, Len(@))]
    /\ totalMessages' = totalMessages - n
    /\ totalBytes' = totalBytes - QueueBytes(out)
    /\ received' = [received EXCEPT ![p] = @ \o Ids(out)]

HandleRegister(c, p) ==
    LET previous == clients[p]
        replaced == IF previous \in Conns \ {c} THEN Closing(ready, previous)
                    ELSE ready
        answered == SendTo(replaced, {c})
        clients2 == [clients EXCEPT ![p] = c]
        others   == Listed(clients2, Peers \ {p})
    IN
    /\ Receives(c) /\ peerOf[c] \in {None, p}
    /\ peerOf' = [peerOf EXCEPT ![c] = p]
    /\ clients' = clients2
    /\ \/ /\ answered[c] # "open"
          /\ Deliver(p, 0) /\ ready' = SendTo(answered, others)
       \/ /\ answered[c] = "open"
          /\ Deliver(p, Deliverable(queues[p]))
          /\ ready' = SendTo(answered, others)
       \/ /\ answered[c] = "open"    \* its buffer fills up in between
          /\ \E n \in 0 .. Deliverable(queues[p]) - 1 : Deliver(p, n)
          /\ ready' = SendTo(Closing(answered, c), others)
    /\ UNCHANGED <<limits, up, connections, unanswered, worldVars, sent,
                   dropped>>

-----------------------------------------------------------------------------
(* Messages.                                                               *)

\* Mutant: the totals compared before the message is counted.
HasRoomBefore(p, m) ==
    /\ queues[p] = <<>> =>
         Cardinality({q \in Peers : queues[q] # <<>>}) < limits.maxQueuePeers
    /\ Len(queues[p]) < limits.maxQueueSize
    /\ totalMessages <= limits.maxTotalMessages
    /\ QueueBytes(queues[p]) + Bytes(m) <= limits.maxQueueBytes
    /\ totalBytes <= limits.maxTotalQueueBytes

\* The admission of the offline store.
HasRoom(p, m) ==
    /\ queues[p] = <<>> =>
         Cardinality({q \in Peers : queues[q] # <<>>}) < limits.maxQueuePeers
    /\ Len(queues[p]) < limits.maxQueueSize
    /\ totalMessages < limits.maxTotalMessages
    /\ QueueBytes(queues[p]) + Bytes(m) <= limits.maxQueueBytes
    /\ totalBytes + Bytes(m) <= limits.maxTotalQueueBytes

\* To a peer whose socket is open: write it, or lose it.
Forward(p, m) ==
    LET target == clients[p] IN
    /\ Online(p)
    /\ ready' = SendTo(ready, {target})
    /\ IF target \in slow \/ m.kind = "oversized"
       THEN dropped' = dropped \cup {m} /\ UNCHANGED received
       ELSE /\ received' = [received EXCEPT ![p] = Append(@, m.id)]
            /\ UNCHANGED dropped
    /\ UNCHANGED storeVars

\* To a peer that is away: store it, or tell the sender that there is no room.
Enqueue(c, p, m) ==
    /\ ~Online(p)
    /\ IF HasRoom(p, m)
       THEN /\ queues' = [queues EXCEPT ![p] = Append(@, m)]
            /\ totalMessages' = totalMessages + 1
            /\ totalBytes' = totalBytes + Bytes(m)
       ELSE UNCHANGED storeVars
    /\ ready' = SendTo(ready, {c})
    /\ UNCHANGED <<received, dropped>>

HandleMessage(c, p, kind) ==
    LET m == [id |-> sent + 1, kind |-> kind, to |-> p] IN
    /\ Receives(c) /\ peerOf[c] # None /\ sent < MaxMessages
    /\ sent' = sent + 1
    /\ Forward(p, m) \/ Enqueue(c, p, m)
    /\ UNCHANGED <<limits, up, peerOf, connections, clients, unanswered,
                   worldVars>>

\* How many messages of a queue were stored up to some time: they are its
\* first ones, for every message is stored behind those that are there.
Expired(q, n) ==
    CHOOSE k \in 0 .. Len(q) : \A i \in DOMAIN q : q[i].id <= n <=> i <= k

\* The cleanup timer removes what was stored before some time.
Cleanup ==
    \E n \in 1 .. sent :
        LET gone == {e \in Entries : queues[e[1]][e[2]].id <= n} IN
        /\ up /\ gone # {}
        /\ queues' = [p \in Peers |->
              SubSeq(queues[p], Expired(queues[p], n) + 1, Len(queues[p]))]
        /\ totalMessages' = totalMessages - Cardinality(gone)
        /\ totalBytes' = totalBytes - BytesOf(gone)
        /\ UNCHANGED <<limits, up, socketVars, worldVars, history>>

\* Shutdown; the process exits, and what it kept is gone.
Stop ==
    /\ up /\ up' = FALSE
    /\ ready' = [c \in Conns |-> "closed"]
    /\ peerOf' = [c \in Conns |-> None]
    /\ connections' = {} /\ unanswered' = {} /\ slow' = {} /\ silent' = {}
    /\ clients' = [p \in Peers |-> None]
    /\ queues' = [p \in Peers |-> <<>>]
    /\ totalMessages' = 0 /\ totalBytes' = 0
    /\ UNCHANGED <<limits, history>>

Start ==
    /\ ~up /\ up' = TRUE
    /\ UNCHANGED <<limits, socketVars, storeVars, worldVars, history>>

-----------------------------------------------------------------------------
(* The world: sockets stop draining and drain again, or fall silent.       *)

Congest(c) ==
    /\ up /\ c \in connections \ slow /\ slow' = slow \cup {c}
    /\ UNCHANGED <<limits, up, socketVars, storeVars, silent, history>>

Drain(c) ==
    /\ up /\ c \in connections \cap slow /\ slow' = slow \ {c}
    /\ UNCHANGED <<limits, up, socketVars, storeVars, silent, history>>

FallSilent(c) ==
    /\ up /\ Watched /\ c \in connections \ silent
    /\ silent' = silent \cup {c}
    /\ UNCHANGED <<limits, up, socketVars, storeVars, slow, history>>

Handle(c) ==
    \/ HandleConnection(c) \/ HandleDisconnection(c)
    \/ StartClosing(c) \/ Pong(c)
    \/ \E p \in Peers : HandleRegister(c, p)
    \/ \E p \in Peers, k \in Kinds : HandleMessage(c, p, k)

World(c) == Congest(c) \/ Drain(c) \/ FallSilent(c)

Next ==
    \/ Heartbeat \/ Cleanup \/ Stop \/ Start
    \/ \E c \in Conns : Handle(c) \/ World(c)

Spec == Init /\ [][Next]_vars

\* The heartbeat timer fires, and a socket that is closing, or was terminated,
\* gets its close event (the websocket library gives up on a handshake).
FairSpec ==
    /\ Spec
    /\ WF_vars(Heartbeat)
    /\ \A c \in Conns : WF_vars(HandleDisconnection(c))

-----------------------------------------------------------------------------
(* Properties.                                                             *)

SignalingTypeOK ==
    /\ up \in BOOLEAN
    /\ ready \in [Conns -> {"open", "closing", "closed"}]
    /\ peerOf \in [Conns -> Peers \cup {None}]
    /\ connections \subseteq Conns /\ unanswered \subseteq connections
    /\ clients \in [Peers -> Conns \cup {None}]
    /\ \A p \in Peers : \A i \in DOMAIN queues[p] :
         queues[p][i] \in [id : 1 .. sent, kind : Kinds, to : {p}]
    /\ limits \in Limits
    /\ totalMessages \in 0 .. limits.maxTotalMessages
    /\ totalBytes \in 0 .. limits.maxTotalQueueBytes
    /\ slow \subseteq Conns /\ silent \subseteq Conns
    /\ sent \in 0 .. MaxMessages

\* The counters of the store are those of its queues, and its limits hold,
\* after any mix of stores, deliveries that stop half way and expiries.
StoreCountsRight ==
    /\ totalMessages = Cardinality(Entries) /\ totalBytes = BytesOf(Entries)
    /\ totalMessages <= limits.maxTotalMessages
    /\ totalBytes <= limits.maxTotalQueueBytes
    /\ Cardinality({p \in Peers : queues[p] # <<>>}) <= limits.maxQueuePeers
    /\ \A p \in Peers :
         /\ Len(queues[p]) <= limits.maxQueueSize
         /\ QueueBytes(queues[p]) <= limits.maxQueueBytes

\* Registrations and sockets agree: a registration is of a live connection of
\* this peer, and every open socket of a peer is the registered one.
RegistrationMatchesSockets ==
    /\ \A p \in Peers : clients[p] # None =>
         clients[p] \in connections /\ peerOf[clients[p]] = p
    /\ \A c \in connections :
         Open(c) /\ peerOf[c] # None => clients[peerOf[c]] = c

\* No stored message waits for a peer that is connected and registered, as long
\* as every message still fits in a frame when it is wrapped.  (A bulky one and
\* those behind it do wait.)
NoBacklogWhileOnline ==
    \A p \in Peers :
        Online(p) => queues[p] = <<>>

\* Relayed or stored, the messages to a peer are written in the order in
\* which they came, and none twice, over all its reconnects.
WrittenInOrder ==
    \A p \in Peers : \A i, j \in DOMAIN received[p] :
        i < j => received[p][i] < received[p][j]

\* A message that fits in a frame is lost without a word only together with
\* the connection it was for: the receiver learns that it must connect again.
\* (What was stored and expires, or is lost with the process, is not counted.)
LossClosesTarget ==
    [][\A m \in dropped' \ dropped : m.kind # "oversized" =>
         clients[m.to] # None /\ ready'[clients[m.to]] # "open"]_vars

\* While the registered socket of a peer is open only an open socket replaces
\* it: one that is closing cannot take the registration back.
ReplacementIsKept ==
    [][\A p \in Peers : Online(p) /\ clients'[p] \notin {None, clients[p]} =>
         ready[clients'[p]] = "open"]_vars

\* A connection whose other end vanished is removed, with its registration.
SilentConnectionsLeave ==
    \A c \in Conns :
        (c \in silent /\ c \in connections) ~> (c \notin connections)
=============================================================================
