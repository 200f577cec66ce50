CONSTANTS
    Grace = 2
    Horizon = 13
    Configs <- BatchConfigs
SPECIFICATION Spec
INVARIANTS
    ExitGuard
\* The process may have exited.
CHECK_DEADLOCK FALSE
