CONSTANTS
    Configs <- MCConfigs
    Descriptors <- MCDescriptors
    MaxStartDelay = 20
    MaxBackoff = 10
    MaxResolve = 2
    Horizon = 73
SPECIFICATION StartFairSpec
INVARIANTS DescriptorsOwned DnsExitRight StopWithin
PROPERTIES StartsOrEnds
