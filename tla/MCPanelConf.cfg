CONSTANTS
    p1 = p1
    p2 = p2
    p3 = p3
    r1 = r1
    r2 = r2
    Peer <- ThreePeers
    IP <- TwoIPs
    Req <- OneReq
    Serial = TRUE
    NoPeer = NoPeer
    MaxRequests = 0
    MaxKeys = 2
    MaxRestarts = 2
SPECIFICATION Spec
INVARIANTS
    AcknowledgedStays
    SuspendedMarkedUndisturbed
    DaemonInStep
    ListedLive
