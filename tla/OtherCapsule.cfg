\* A recovered run seen by a capsule with another step layout.
CONSTANTS
    r1 = r1
    r2 = r2
    r3 = r3
    c1 = c1
    c2 = c2
    s1 = s1
    s2 = s2
    noRun = noRun
    Run = {r1, r2, r3}
    Capsule = {c1, c2}
    Scope = {s1}
    CapsuleOf <- ShiftedCapsules
    EnvOf <- AllStaging
    MaxSteps = 2
    Length <- LengthTwo
    Kind <- ShiftedKind
    ScopeOf <- OneScope
    NoRun = noRun
    NoAttempt <- MCNoAttempt
SPECIFICATION Spec
INVARIANT ReconciledRunReleasesTarget
CHECK_DEADLOCK FALSE
