\* A recovery is killed like the rollout it recovers.
CONSTANTS
    r1 = r1
    r2 = r2
    r3 = r3
    c1 = c1
    c2 = c2
    s1 = s1
    s2 = s2
    noRun = noRun
    Run = {r1, r2, r3}
    Capsule = {c1}
    Scope = {s1}
    CapsuleOf <- AllC1
    EnvOf <- AllStaging
    MaxSteps = 1
    Length <- LengthOne
    Kind <- OneCheckpoint
    ScopeOf <- OneScope
    NoRun = noRun
    NoAttempt <- MCNoAttempt
SPECIFICATION Spec
INVARIANT KilledRunIsRecoverable
CHECK_DEADLOCK FALSE
