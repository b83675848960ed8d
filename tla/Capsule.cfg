CONSTANTS
    c1 = c1
    c2 = c2
    s1 = s1
    s2 = s2
    Source = {s1, s2}
    Engine = {e1, e2}
    Commit = {c1, c2}
    SourceOf <- SameInputs
    Builder = {b1, b2}
    Runner = {r1, r2}
    Cleaner = {k1, k2}
    NoRun = NoRun
    NoName = NoName
    Free = Free
    MaxChanges = 1

SPECIFICATION Spec

INVARIANT
    CapsulesAreSound

SYMMETRY Twins

PROPERTY
    RemovalIsProven

CHECK_DEADLOCK FALSE
