SPECIFICATION FairSpec
CONSTANTS
    MaxReplicas = 2
    DefaultMaxRetries = 1
    MaxFaults = 2
INVARIANT NothingOrphaned
PROPERTIES NodesMoveForward SettlesOrReports
CHECK_DEADLOCK FALSE
