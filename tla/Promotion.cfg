\* One capsule promoted from staging to production.
CONSTANTS
    r1 = r1
    r2 = r2
    r3 = r3
    c1 = c1
    c2 = c2
    s1 = s1
    s2 = s2
    noRun = noRun
    Run = {r1, r2, r3}
    Capsule = {c1}
    Scope = {s1, s2}
    CapsuleOf <- AllC1
    EnvOf <- Promotion
    MaxSteps = 2
    Length <- LengthTwo
    Kind <- PromotionKind
    ScopeOf <- PromotionScope
    NoRun = noRun
    NoAttempt <- MCNoAttempt
SPECIFICATION Spec
INVARIANT PromotionBacked
CHECK_DEADLOCK FALSE
