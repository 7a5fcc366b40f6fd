SPECIFICATION Spec
CONSTANTS
    a = a
    b = b
    Containers = {a}
    Me = a
    Maps <- MCMaps
    IntMax = 3
    RawIds = {0, 5}
    ReqKinds = {0, 2}
    Sent <- AllRequests
    HostSets = {}
    Blks = {1}
INVARIANT SyncNeedsSpecial
CHECK_DEADLOCK FALSE
