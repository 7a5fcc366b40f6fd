SPECIFICATION Spec
CONSTANTS
    Minors = 16
    Majors = 8
    Mids = 4
    Highs = 2
    Tops = 2
    Perms = 2
    ModeWord = 64
    IntMax = 7
    AT_FDCWD <- MCFdcwd
    PathMax = 3
    Fds <- MCFds
    Requests <- MCRequests
    MaxNodes = 1
INVARIANT NodesAreListed
INVARIANT MadeAsAsked
INVARIANT ListedIsMade
