SPECIFICATION FairSpec
CONSTANTS
    Conns = {k1, k2}
    Hung = {k1}
    FdLimit = 2
    Backlog = 1
    MaxGen = 3
    MaxFaults = 1
PROPERTY HangupIsFinal
PROPERTY NobodyWaitsForever
PROPERTY ComesBack
CHECK_DEADLOCK FALSE
