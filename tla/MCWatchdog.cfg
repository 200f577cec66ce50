CONSTANTS
    Grace = 2
    Horizon = 13
    Configs <- AllConfigs
SPECIFICATION FairSpec
INVARIANTS
    ExitOnlyWithClient
    ExitInTime
PROPERTIES
    NoEarlyTrigger
    RecoveryRotatesUnlessEchoed
    RequestServed
\* The process may have exited.
CHECK_DEADLOCK FALSE
