CONSTANTS
    p1 = p1
    p2 = p2
    p3 = p3
    r1 = r1
    r2 = r2
    Peer <- TwoPeers
    IP <- TwoIPs
    Req <- OneReq
    Serial = TRUE
    NoPeer = NoPeer
    MaxRequests = 0
    MaxKeys = 1
    MaxRestarts = 1
SPECIFICATION Spec
INVARIANTS
    SuspendedNotServed
