CONSTANTS
    Grace = 2
    Horizon = 13
    Configs <- BatchConfigs
SPECIFICATION Spec
PROPERTIES
    RecoveryRotates
\* The process may have exited.
CHECK_DEADLOCK FALSE
