SPECIFICATION Spec
CONSTANTS
    a = a
    b = b
    Containers = {a, b}
    Me = b
    Maps <- MCMaps
    IntMax = 3
    RawIds = {0, 1, 2, 5, 8}
    ReqKinds = {0}
    Sent <- IdRequests
    HostSets = {4, 5}
    Blks = {1, 2}
INVARIANT TypeOK
PROPERTIES OnlyOwnIds PrivateTables
CHECK_DEADLOCK FALSE
