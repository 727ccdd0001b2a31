SPECIFICATION Spec
CONSTANTS
    p1 = p1
    p2 = p2
    b1 = b1
    b2 = b2
    n1 = n1
    n2 = n2
    Proxy = {p1, p2}
    Host = {"h"}
    Backend = {b1, b2}
    Name = {n1, n2}
    Char = {"/", "a", "b", "x"}
    Path <- Paths
    Contents <- Some
    Start <- Normal
    MaxUpdates = 1
    MaxTime = 4
    MaxOpen = 2
SYMMETRY Pods
INVARIANTS SessionSticks SessionsExpire LongestPrefixWins
PROPERTIES Drained
CHECK_DEADLOCK FALSE
