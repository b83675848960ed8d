\* Commands that apply the same folders side by side, one after another, and
\* after a kill or a deleted run directory.
CONSTANTS
    p1 = p1
    p2 = p2
    p3 = p3
    f1 = f1
    f2 = f2
    Process = {p1, p2, p3}
    Folder = {f1, f2}
    Batch <- MCBatch
    EnvOf <- MCEnvOf
    NoProcess = NoProcess
SPECIFICATION Spec
INVARIANT UnlockedIsUntouched
INVARIANT OneIsVerified
INVARIANT ReportIsTrue
CHECK_DEADLOCK FALSE
