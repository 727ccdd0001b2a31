SPECIFICATION FairSpec
CONSTANTS
    N = 2
    Bad <- FirstBadAtStart
    CacheLag = FALSE
    Deadlines = TRUE
    MaxTemplates = 2
    MaxRotations = 0
    MaxEdits = 1
    MaxFaults = 1
PROPERTIES Converges
CHECK_DEADLOCK FALSE
