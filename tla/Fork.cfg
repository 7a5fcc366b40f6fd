SPECIFICATION FairSpec
CONSTANTS
    c1 = c1
    c2 = c2
    Calls = {c1, c2}
    Daemon = daemon
    NWorkers = 2
    Hung = {c2}
    Vals = {0}
    Errnos = {14}
    EFAULT = 14
    None = None
INVARIANTS TypeOK ReturnedMeansReaped OwnResult WaitIsShort PidIsOurs
PROPERTIES Refinement EveryCallReturns DeliveredIsReturned DeadIsReturnedUnlessHeld
CHECK_DEADLOCK FALSE
