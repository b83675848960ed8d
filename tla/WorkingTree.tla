----------------------------- MODULE WorkingTree -----------------------------
(***************************************************************************)
(* The three components that move files of the working tree while others   *)
(* use it: the mirrors of the exports, the migration folders and the files *)
(* of the template.  They share no files, so a behaviour here is one of    *)
(* one of them; the variables of the others are off.                       *)
(***************************************************************************)
EXTENDS Naturals, Sequences, FiniteSets

CONSTANTS
    Parts,        \* which of them are explored
    Off, None, NoDest, NoCommand

CONSTANTS         \* of MirrorReplace
    Command, Dest, Pairs, Impl, Parent, Editable

CONSTANTS         \* of MigrationFolders
    Family, Schema, SchemaOf, FamilyOrder, Day, MaxRevision,
    Author, Archiver, Applier, Casts, MaxChanges, MaxFaults

CONSTANTS         \* of TemplateUpgrade
    Upgrade, Version, Managed, Order, Offers, Candidate, Developers, MaxSaves

VARIABLES
    part,         \* the module whose behaviour this is
    dir, head, saved, late, lostEdits, lock, raced, staged, backup, pc, idx,
    acquired, moved, installed, before, broken, visible, archived, index,
    live, sent, author, archiver, applier, session, changes, faults, file,
    saves, own, torn, alone, i, recorded, ops, done, scratch, why, kept,
    exit, withdrawn

vars ==
    <<part, dir, head, saved, late, lostEdits, lock, raced, staged, backup, pc,
      idx, acquired, moved, installed, before, broken, visible, archived,
      index, live, sent, author, archiver, applier, session, changes,
      faults, file, saves, own, torn, alone, i, recorded, ops, done,
      scratch, why, kept, exit, withdrawn>>

-----------------------------------------------------------------------------
M == INSTANCE MirrorReplace

ASSUME MirrorAssumption == M!ConstantsFit

InitMirror ==
    /\ part = "mirror" /\ M!Init
    /\ visible = Off /\ archived = Off /\ index = Off /\ live = Off
    /\ sent = Off /\ author = Off /\ archiver = Off /\ applier = Off
    /\ session = Off /\ changes = Off /\ faults = Off /\ file = Off
    /\ saves = Off /\ own = Off /\ torn = Off /\ alone = Off
    /\ i = Off /\ recorded = Off /\ ops = Off /\ done = Off
    /\ scratch = Off /\ why = Off /\ kept = Off /\ exit = Off
    /\ withdrawn = Off

StepMirror ==
    /\ part = "mirror" /\ M!Next
    /\ UNCHANGED <<part, visible, archived, index, live, sent, author, archiver,
                    applier, session, changes, faults, file, saves, own,
                    torn, alone, i, recorded, ops, done, scratch, why, kept,
                    exit, withdrawn>>

F == INSTANCE MigrationFolders

ASSUME FoldersAssumption == F!ConstantsFit

InitFolders ==
    /\ part = "folders" /\ F!Init
    /\ dir = Off /\ head = Off /\ saved = Off /\ late = Off
    /\ lostEdits = Off /\ lock = Off /\ staged = Off /\ backup = Off
    /\ pc = Off /\ idx = Off /\ acquired = Off /\ moved = Off
    /\ installed = Off /\ before = Off /\ broken = Off /\ file = Off
    /\ saves = Off /\ own = Off /\ torn = Off /\ alone = Off
    /\ i = Off /\ recorded = Off /\ ops = Off /\ done = Off
    /\ scratch = Off /\ why = Off /\ kept = Off /\ exit = Off

StepFolders ==
    /\ part = "folders" /\ F!Next
    /\ UNCHANGED <<part, dir, head, saved, late, lostEdits, lock, staged, backup,
                    pc, idx, acquired, moved, installed, before, broken,
                    file, saves, own, torn, alone, i, recorded, ops, done,
                    scratch, why, kept, exit>>

U == INSTANCE TemplateUpgrade

ASSUME TemplateAssumption == U!ConstantsFit

InitTemplate ==
    /\ part = "template" /\ U!Init
    /\ dir = Off /\ saved = Off /\ late = Off /\ lostEdits = Off
    /\ lock = Off /\ raced = Off /\ staged = Off /\ idx = Off
    /\ acquired = Off /\ moved = Off /\ installed = Off /\ before = Off
    /\ broken = Off /\ visible = Off /\ archived = Off /\ index = Off
    /\ live = Off /\ sent = Off /\ author = Off /\ archiver = Off
    /\ applier = Off /\ session = Off /\ changes = Off /\ faults = Off
    /\ withdrawn = Off

StepTemplate ==
    /\ part = "template" /\ U!Next
    /\ UNCHANGED <<part, dir, saved, late, lostEdits, lock, raced, staged, idx,
                    acquired, moved, installed, before, broken, visible,
                    archived, index, live, sent, author, archiver, applier,
                    session, changes, faults, withdrawn>>

-----------------------------------------------------------------------------
Init ==
    /\ part \in Parts
    /\ InitMirror \/ InitFolders \/ InitTemplate

Next == StepMirror \/ StepFolders \/ StepTemplate

Spec == Init /\ [][Next]_vars

-----------------------------------------------------------------------------
(* The properties of the parts, as their modules state and explain them.    *)

\* No failure, signal or kill loses a mirror (replace_mirror.sh, .ps1).
MirrorIsKept == part = "mirror" => M!MirrorIsKept

\* Of a developer's edits only those made after the recheck can go.
OnlyLateEditsAreLost == part = "mirror" => M!OnlyLateEditsAreLost

\* A schema mirror and its ords mirror are never moved at the same time.
OverlappingMovesExclude == part = "mirror" => M!OverlappingMovesExclude

\* Archives and indexes agree, and nothing half written is taken for finished.
TreeIsConsistent == part = "folders" => F!TreeIsConsistent

\* What a database may have run is on record wherever the folder is.
EvidenceStays == part = "folders" => F!EvidenceStays

\* A developer's file survives upgrades (apply_actions of upgrade_template.py).
SavesAreKept == part = "template" => U!SavesAreKept

\* The lock file names the versions that are installed.
LockIsTrue == part = "template" => U!LockIsTrue

\* What README.md:736 says of an interrupted upgrade.
InterruptedIsRestored == part = "template" => U!InterruptedIsRestored

=============================================================================
