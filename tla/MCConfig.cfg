CONSTANTS
    k1 = k1  k2 = k2  k3 = k3  s1 = s1  s2 = s2
    zero = zero  unreadable = unreadable  blank = blank  none = none
    MaxSegments = 3
    MaxStatic = 1500
    MaxPacket = 1500
    SizeRange = 65536
    Unreadable = unreadable
    Blank = blank
    None = none
    ZeroKey = zero
    IntSize = 1048576
    MaxPeers = 2
    MaxLines = 5
    MaxMerged = 4
    Lines <- MCLines
    PublicOf <- MCPublicOf
    Envs <- MCEnvs
    FlagSets <- MCFlagSets
SPECIFICATION Spec
INVARIANTS ParsedRight RightSource DerivedFresh PacketsFit ReconnectsBeforeExit
CHECK_DEADLOCK FALSE
