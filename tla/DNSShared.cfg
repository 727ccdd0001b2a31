SPECIFICATION FairSpec
CONSTANTS
    g1 = g1  g2 = g2  ra = ra  rab = rab  a = a  b = b  za = za  zb = zb
    Gateway = {g1, g2}
    Route = {ra, rab}
    Host = {a, b}
    Zone = {za, zb}
    HostsOf <- Hosts
    ZoneOf <- Zones
    Deep <- DeepB
    Policy <- Policies
    NoRecord = NoRecord
    Foreign = Foreign
    Faults = {"call", "crash"}
    MaxEdits = 3
    MaxFaults = 1
INVARIANTS NoDanglingRecords
PROPERTIES PublishedRecordsKept AppliedMeansRecord Converges
CHECK_DEADLOCK FALSE
