SPECIFICATION Spec
CONSTANTS
    N = 2
    Bad <- NoneBad
    CacheLag = TRUE
    Deadlines = FALSE
    MaxTemplates = 1
    MaxRotations = 1
    MaxEdits = 0
    MaxFaults = 1
INVARIANTS HashAnnouncedFirst TokenInv
PROPERTIES HandledAfterRollout SpreadsInOrder ImplementsHandover
CHECK_DEADLOCK FALSE
