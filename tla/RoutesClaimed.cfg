SPECIFICATION FairSpec
CONSTANTS
    N = 3
    k1 = k1  k2 = k2
    Key = {k1, k2}
    NameOf <- Distinct
    KeySets <- Overlapping
    MaxEdits = 2
    MaxFaults = 1
INVARIANTS OneOwner ClaimInv QuietMeansSettled
PROPERTIES OwnersKeepClaims AcceptedIsServed Converges
CHECK_DEADLOCK FALSE
