SPECIFICATION FairSpec
CONSTANTS
    MaxUnits = 3
    MaxTicks = 3
INVARIANTS NoLostWakeup WorkersNeverBlock
PROPERTY EveryUnitIsUsed
PROPERTY ClosingIsSeen
CHECK_DEADLOCK FALSE
