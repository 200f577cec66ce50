CONSTANTS
    Grace = 2
    Horizon = 13
    Configs <- GroConfigs
SPECIFICATION Spec
INVARIANTS
    SilenceContinuous
\* The process may have exited.
CHECK_DEADLOCK FALSE
