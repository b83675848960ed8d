SPECIFICATION Spec
CONSTANTS
    MaxOutput = 2
    Limit = 1
INVARIANTS
    AnswerIsWhole
    TreeIsGone
PROPERTY
    EveryCallReturns
CHECK_DEADLOCK FALSE
