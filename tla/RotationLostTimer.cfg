SPECIFICATION FairSpec
CONSTANTS
    PerSecond = 1
    Triggers <- OneTrigger
    Interval = 2
    InitEnabled = TRUE
    CacheLag = FALSE
    Slow <- AllSlow
    MaxTime = 9
    MaxRequests = 0
    MaxEdits = 0
    MaxRotations = 3
    MaxFaults = 0
PROPERTIES TriggersServed
CHECK_DEADLOCK FALSE
