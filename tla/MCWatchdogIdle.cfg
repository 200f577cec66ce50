CONSTANTS
    Grace = 12
    Horizon = 41
    Configs <- DefaultConfigs
SPECIFICATION Spec
INVARIANTS
    ExitMeansClient
\* The process may have exited.
CHECK_DEADLOCK FALSE
