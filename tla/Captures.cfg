\* Preflights, checkpoints, generated folders and DEV tests, one after the other.
CONSTANTS
    Parts = {"preflight", "checkpoint", "structure", "devTest"}
    MaxChanges = 1
    Off = Off
    None = None
    Absent = Absent
    s1 = s1
    s2 = s2
    o1 = o1
    o2 = o2
    o3 = o3
    c1 = c1
    c2 = c2
    k1 = k1
    k2 = k2
SPECIFICATION Spec
SYMMETRY Interchangeable
INVARIANTS
    VerdictIsRight
    PlanHolds
    TargetConverges
    ReportIsHonest
PROPERTY
    OnlyOwnIsDropped
CHECK_DEADLOCK FALSE
