SPECIFICATION FairWatchSpec
CONSTANTS
    N = 2
    Bad <- NoneBad
    CacheLag = FALSE
    Deadlines = FALSE
    MaxTemplates = 1
    MaxRotations = 1
    MaxEdits = 0
    MaxFaults = 0
    MaxLag = 2
    MaxToggles = 2
    Prompt = TRUE
INVARIANTS PassedMeansRotated RequesterSeesOrder
PROPERTIES RolloutCompletesBeforeNext WatchEnds WatchedConverges
CHECK_DEADLOCK FALSE
