SPECIFICATION Spec
CONSTANTS
    MaxOutput = 2
    Limit = 1
INVARIANT NotStartedIsTrue
CHECK_DEADLOCK FALSE
