\* Mirrors, migration folders and the template, one after the other.
CONSTANTS
    Parts = {"mirror", "folders", "template"}
    Off = Off
    None = None
    NoDest = NoDest
    NoCommand = NoCommand
    Command = {"c1", "c2"}
    Dest = {"hr", "hrOrds"}
    Pairs <- TwoMirrors
    Impl <- BothShells
    Parent <- OrdsInside
    Editable = {"hrOrds"}
    Family = {"f", "g"}
    Schema = {"hr", "app"}
    SchemaOf <- OneEach
    FamilyOrder <- FThenG
    Day = {1}
    MaxRevision = 2
    Author = {"a1"}
    Archiver = {"k1"}
    Applier = {"m1"}
    Casts <- Pairings
    MaxChanges = 1
    MaxFaults = 2
    Upgrade = {"u2", "u3"}
    Version <- TwoThenThree
    Managed <- OneFile
    Order <- LockFirst
    Offers <- ChangedThenGone
    Candidate <- BesideIt
    Developers <- OneSave
    MaxSaves = 1
SPECIFICATION Spec
INVARIANTS
    MirrorIsKept
    OnlyLateEditsAreLost
    OverlappingMovesExclude
    TreeIsConsistent
    EvidenceStays
    SavesAreKept
    LockIsTrue
CHECK_DEADLOCK FALSE
