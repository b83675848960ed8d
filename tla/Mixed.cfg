\* Rollouts of two capsules that share a target, with a script and second checkpoints.
CONSTANTS
    r1 = r1
    r2 = r2
    r3 = r3
    c1 = c1
    c2 = c2
    s1 = s1
    s2 = s2
    noRun = noRun
    Run = {r1, r2, r3}
    Capsule = {c1, c2}
    Scope = {s1, s2}
    CapsuleOf <- MixedCapsules
    EnvOf <- AllStaging
    MaxSteps = 2
    Length <- LengthTwo
    Kind <- MixedKind
    ScopeOf <- MixedScope
    NoRun = noRun
    NoAttempt <- MCNoAttempt
SPECIFICATION Spec
INVARIANT NoOverlappingWriters
INVARIANT IndexValid
INVARIANT ProofIsBacked
PROPERTY UncertainTargetIsFrozen
CHECK_DEADLOCK FALSE
