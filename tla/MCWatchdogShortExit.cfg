CONSTANTS
    Grace = 12
    Horizon = 7
    Configs <- ShortExitConfigs
SPECIFICATION Spec
INVARIANTS
    TriedBeforeExit
\* The process may have exited.
CHECK_DEADLOCK FALSE
