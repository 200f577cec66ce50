CONSTANTS
    p1 = p1
    p2 = p2
    p3 = p3
    r1 = r1
    r2 = r2
    Peer <- TwoPeers
    IP <- TwoIPs
    Req <- TwoReqs
    Serial = FALSE
    NoPeer = NoPeer
    MaxRequests = 4
    MaxKeys = 1
    MaxRestarts = 1
SYMMETRY Symmetry
SPECIFICATION Spec
INVARIANTS
    NoSharedAddress
\* The bound on requests ends a behaviour.
CHECK_DEADLOCK FALSE
