SPECIFICATION Spec
CONSTANTS
    PerSecond = 2
    Triggers <- OneTrigger
    Interval = 9
    InitEnabled = TRUE
    CacheLag = TRUE
    Slow <- PromptAnswer
    MaxTime = 6
    MaxRequests = 2
    MaxEdits = 0
    MaxRotations = 3
    MaxFaults = 1
INVARIANTS RotatedOncePerCause HandledMeansRotated
PROPERTIES RotatedAtMonotone
CHECK_DEADLOCK FALSE
