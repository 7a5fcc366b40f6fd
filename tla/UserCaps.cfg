SPECIFICATION Spec
CONSTANTS
    Hosts <- AllHosts
    FsStates <- MCFsStates
    Denies <- MCDenies
    NoLabel = "none"
    None = "none"
    Here = "host"
    MaxRequests = 2
    MaxChanges = 2
INVARIANT TypeOK
INVARIANT EnteredIsTheCallers
INVARIANT RefusedForCause
CHECK_DEADLOCK FALSE
