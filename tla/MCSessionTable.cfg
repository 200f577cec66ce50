CONSTANTS
    a1 = a1
    a2 = a2
    NoAddr = NoAddr
    Size = 2
    Probe = 2
    Index <- ThreeIndices
    Addr <- TwoAddrs
    MaxPuts = 3
SPECIFICATION FairLookupSpec
INVARIANTS
    WellFormed
    NoTornAddress
    QuietReadExact
    PeerOfEntry
PROPERTIES
    ReadTerminates
    IsMap
