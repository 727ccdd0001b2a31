SPECIFICATION FairSpec
CONSTANTS
    c1 = c1  c2 = c2
    Class = {c1, c2}
    Ours = {c1, c2}
    Lags = {FALSE}
    Kind = {"Secret", "Deployment"}
    MaxUID = 2
    MaxEdits = 3
    MaxFaults = 1
INVARIANTS TunnelKept ConnectorsHaveTunnel LeftUnowned ClassOutlivesTunnel FinalizersReleased
PROPERTIES DeletionCompletes Converges
CHECK_DEADLOCK FALSE
