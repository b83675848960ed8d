\* The finding about the effects of earlier checkpoints.
CONSTANTS
    Parts = {"checkpoint"}
    MaxChanges = 0
    Off = Off
    None = None
    Absent = Absent
    s1 = s1
    s2 = s2
    o1 = o1
    o2 = o2
    o3 = o3
    c1 = c1
    c2 = c2
    k1 = k1
    k2 = k2
SPECIFICATION Spec
INVARIANT OwnEffectsAreAccepted
CHECK_DEADLOCK FALSE
