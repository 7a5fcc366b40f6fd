SPECIFICATION Spec
CONSTANTS
    Minors = 16
    Majors = 8
    Mids = 4
    Highs = 2
    Tops = 4
    Perms = 2
    ModeWord = 64
    IntMax = 7
    AT_FDCWD <- MCFdcwd
    PathMax = 3
    Fds <- MCFds
    Requests <- FdRequests
    MaxNodes = 1
INVARIANT NegativeFdsPassAsIs
