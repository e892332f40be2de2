SPECIFICATION FairSpec
CHECK_DEADLOCK FALSE
CONSTANTS
    Replicas = {p1}
    Limit = 1
    Drops = FALSE
    MaxTurns = 3
    MaxWindows = 0
    MaxFaults = 1
PROPERTIES
    SilenceReported
