SPECIFICATION Spec
CONSTANTS
    k1 = k1
    k2 = k2
    Conns = {k1}
    MaxMsgs = 3
    MaxCookie = 1
    Shapes <- MoreShapes
    Hung = {}
    Vals = {0}
    Errnos = {14, 22}
    EFAULT = 14
    None = None
INVARIANTS TypeOK RepliesAreTrue DescriptorsBounded
PROPERTY EffectBeforeReply
CHECK_DEADLOCK FALSE
