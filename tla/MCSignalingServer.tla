-------------------------- MODULE MCSignalingServer --------------------------
EXTENDS SignalingServer, TLC

CONSTANTS c1, c2, c3, p1, p2

Symmetry == Permutations(Conns)

Config(conns, peers, size, total, bytes, totalBytes_) ==
    [maxConnections |-> conns, maxQueuePeers |-> peers,
     maxQueueSize |-> size, maxTotalMessages |-> total,
     maxQueueBytes |-> bytes, maxTotalQueueBytes |-> totalBytes_]

\* Two sockets and a full configuration with one queue; then, with one socket,
\* configurations whose bytes, whose queue and whose total are met first.
TightLimits ==
    {Config(2, 1, 2, 2, 3, 3),      \* maxQueuePeers
     Config(1, 2, 2, 2, 2, 3),      \* maxQueueBytes and maxTotalQueueBytes
     Config(1, 2, 1, 2, 2, 3),      \* maxQueueSize
     Config(1, 2, 1, 1, 2, 3)}      \* maxTotalMessages

OneQueue == {Config(2, 1, 2, 2, 2, 2)}
=============================================================================
