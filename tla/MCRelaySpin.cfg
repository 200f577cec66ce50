CONSTANTS
    Fd <- TwoFds
    Port <- OnePort
    SrcPortDrift = TRUE
SPECIFICATION FairSpec
PROPERTIES
    ShutIsReplaced
\* The process may have stopped.
CHECK_DEADLOCK FALSE
