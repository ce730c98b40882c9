SPECIFICATION FairSpec
CONSTANTS
    i1 = i1
    i2 = i2
    l1 = l1
    l2 = l2
    Inst = {i1, i2}
    HoldTicks = 2
    MaxFreq = 1
    Loop = {l1, l2}
    NoLoop = NoLoop
INVARIANTS
    NoneLeftStopped
    EmergencyHolds
PROPERTY
    Recovers
