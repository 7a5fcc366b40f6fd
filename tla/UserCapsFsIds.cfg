SPECIFICATION Spec
CONSTANTS
    Hosts <- TightHost
    FsStates <- MCFsStates
    Denies <- MCDenies
    NoLabel = "none"
    None = "none"
    Here = "host"
    MaxRequests = 2
    MaxChanges = 2
INVARIANT SwitchesFsIds
CHECK_DEADLOCK FALSE
