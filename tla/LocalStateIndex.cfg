\* Three commands update the index of one checkout.
CONSTANTS
    Process = {p1, p2, p3}
    NoProcess = NoProcess
SPECIFICATION FairSpec
PROPERTY OriginalIsKept
PROPERTY IsAtomic
PROPERTY LockIsReleased
CHECK_DEADLOCK FALSE
