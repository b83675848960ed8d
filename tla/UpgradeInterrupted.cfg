\* The finding about Ctrl-C.
CONSTANTS
    Parts = {"template"}
    Off = Off
    None = None
    NoDest = NoDest
    NoCommand = NoCommand
    Command = {"c1", "c2"}
    Dest = {"hr", "hrOrds"}
    Pairs <- TwoMirrors
    Impl <- BothShells
    Parent <- OrdsInside
    Editable = {"hrOrds"}
    Family = {"f", "g"}
    Schema = {"hr", "app"}
    SchemaOf <- OneEach
    FamilyOrder <- FThenG
    Day = {1}
    MaxRevision = 2
    Author = {"a1"}
    Archiver = {"k1"}
    Applier = {"m1"}
    Casts <- Pairings
    MaxChanges = 1
    MaxFaults = 2
    Upgrade = {"u2", "u3"}
    Version <- TwoThenThree
    Managed <- OneFile
    Order <- LockFirst
    Offers <- ChangedThenGone
    Candidate <- BesideIt
    Developers <- OneSave
    MaxSaves = 1
SPECIFICATION Spec
INVARIANT InterruptedIsRestored
CHECK_DEADLOCK FALSE
