SPECIFICATION FairSpec
CONSTANTS
    PerSecond = 1
    Triggers <- TwoTriggers
    Interval = 20
    InitEnabled = FALSE
    CacheLag = FALSE
    Slow <- Instant
    MaxTime = 7
    MaxRequests = 1
    MaxEdits = 1
    MaxRotations = 6
    MaxFaults = 1
PROPERTIES TriggersServed
CHECK_DEADLOCK FALSE
