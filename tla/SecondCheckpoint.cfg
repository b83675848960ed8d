\* A recovery of the first of two checkpoints.
CONSTANTS
    r1 = r1
    r2 = r2
    r3 = r3
    c1 = c1
    c2 = c2
    s1 = s1
    s2 = s2
    noRun = noRun
    Run = {r1, r2}
    Capsule = {c1}
    Scope = {s1}
    CapsuleOf <- AllC1
    EnvOf <- AllStaging
    MaxSteps = 2
    Length <- LengthTwo
    Kind <- TwoCheckpoints
    ScopeOf <- OneScope
    NoRun = noRun
    NoAttempt <- MCNoAttempt
SPECIFICATION Spec
INVARIANT RecoveryGoesOn
CHECK_DEADLOCK FALSE
