\* Reference data, legacy rollouts, rehearsals and comparisons, one after the
\* other.
CONSTANTS
    Parts = {"data", "legacy", "rehearsal", "readiness"}
    Off = Off
    None = None
    MaxChanges = 1
    Exporter = {"e1", "e2"}
    Sources <- SmallSources
    Targets <- SmallTargets
    Runs = {"r1", "r2"}
    Steps = 2
    MaxEdits = 1
    MaxSwitches = 1
    MaxFolders = 2
    MaxFiles = 2
    MaxMates = 1
    Databases = {"d1", "d2"}
    Contents <- ManyContents
    Stray = {"x"}
    Setups <- Commands
    MaxRows = 2
SPECIFICATION Spec
INVARIANTS
    TakesOneExport
    RefersByLabel
    ProgressIsTrue
    RehearsedIsProven
    LeavesNoTrace
    ReadyIsSeen
    ScriptIsRight
CHECK_DEADLOCK FALSE
