SPECIFICATION Spec
CONSTANTS
    c1 = c1  c2 = c2
    Class = {c1, c2}
    Ours = {c1}
    Lags = {FALSE}
    Kind = {"Secret", "Deployment"}
    MaxUID = 2
    MaxEdits = 2
    MaxFaults = 0
INVARIANTS StatusCollectable
CHECK_DEADLOCK FALSE
