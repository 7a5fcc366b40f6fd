SPECIFICATION FairSpec
CONSTANTS
    k1 = k1
    k2 = k2
    Conns = {k1, k2}
    MaxMsgs = 1
    MaxCookie = 1
    Shapes <- SomeShapes
    Hung <- HungCall
    Vals = {0}
    Errnos = {14}
    EFAULT = 14
    None = None
INVARIANTS RepliesAreTrue DescriptorsBounded DroppedIsSeen
PROPERTIES AnsweredOrHungUp OthersAreServed
CHECK_DEADLOCK FALSE
