SPECIFICATION FairSpec
CONSTANTS
    MaxRetries = 1
    MaxEdits = 3
    MaxFaults = 2
INVARIANTS StatusOfGeneration FaultsAbsorbed
PROPERTIES StatusSettles StatusMirrored
CHECK_DEADLOCK FALSE
