CONSTANTS
    a1 = a1
    a2 = a2
    NoClient = NoClient
    Peer = Peer
    Clients <- TwoClients
    Paths <- Server
    Configs <- PaddedOnly
    MaxBatch = 2
    DataLens = {32, 64, 148, 2990}
    Outer = {13, 17}
    Tails = {0, 1, 3}
    MaxOuter = 34
SPECIFICATION Spec
INVARIANTS
    StaticIsFine
