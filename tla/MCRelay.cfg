CONSTANTS
    Fd <- TwoFds
    Port <- TwoPorts
    SrcPortDrift = TRUE
SPECIFICATION FairSpec
INVARIANTS
    NoFdLeak
    PublishedIsOpen
    PortApplied
    DestIsClient
PROPERTIES
    StopTerminates
    ShutIsReplacedGro
\* The process may have stopped.
CHECK_DEADLOCK FALSE
