\* A process is killed while it copies the schema-1 original.
CONSTANTS
    Process = {p1, p2}
    NoProcess = NoProcess
SPECIFICATION Spec
INVARIANT RetryIsPossible
CHECK_DEADLOCK FALSE
