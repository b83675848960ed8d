--------------------------- MODULE MigrationFolders ---------------------------
(***************************************************************************)
(* The tree of migration folders of a checkout, as the commands that work  *)
(* on it side by side see it: `new-migration` starts a family from the     *)
(* source that is live on DEV, `revise` copies the latest revision into    *)
(* the next one, `archive-migrations` moves released prefixes away and     *)
(* records them in the index of their schema directory, and `migrate`      *)
(* applies a folder and leaves its receipts and attempt events in it.      *)
(* No lock keeps these commands apart; every one of them validates the     *)
(* whole tree before it goes on.  Files can fail to be moved or written,   *)
(* and a command can be killed at any step, also between the moves of an   *)
(* archive and its index.                                                  *)
(*                                                                         *)
(* The protocol of `migrate` for several folders is the matter of          *)
(* MigrationApply; here it is one folder, and only the steps that touch    *)
(* the folder or depend on it.                                             *)
(***************************************************************************)
EXTENDS Naturals, FiniteSets, Sequences

CONSTANTS
    Family,        \* migration names
    Schema,        \* schema directories
    SchemaOf,      \* [Family -> Schema]
    FamilyOrder,   \* the families as an archive sorts them
    Day,           \* dates a folder can be created on
    MaxRevision,   \* bound: revisions of a family
    Author,        \* new-migration and revise commands
    Archiver,      \* archive-migrations --yes commands
    Applier,       \* migrate commands
    Casts,         \* which commands are run side by side: sets of them
    None,          \* no folder
    MaxChanges,    \* bound: edits, hand moves and changes by teammates
    MaxFaults      \* bound: failing file operations

VARIABLES
    visible, archived,    \* what each folder holds here and in the archive
    index,                \* .archived.json of each schema directory
    live,                 \* the code each family changes, as it is in the database
    sent,                 \* what database sessions have executed
    author, archiver, applier,
    session,              \* the SQLcl session of each migrate
    changes, faults,
    raced,                \* families started again although they are archived, or about to be
    withdrawn             \* folders that new-migration took back from a migrate that had loaded them

tree == <<visible, archived, index>>
world == <<live, sent, session>>
vars == <<tree, world, author, archiver, applier, changes, faults, raced, withdrawn>>

Env == {"dev", "prod"}
Folder == [family : Family, rev : 1..MaxRevision, day : Day]

(* The code of a family: 0 as found, the revision that wrote it, or a       *)
(* teammate's version.                                                      *)
Mate == MaxRevision + 1

Empty == [base |-> 0, text |-> 0, steps |-> 0, checks |-> FALSE, events |-> {}, receipts |-> {}]

Visible == {x \in Folder : visible[x] # None}
Archived == {x \in Folder : archived[x] # None}

\* a new folder has two steps; one whose checks are there can be loaded
Steps == 2
Loads(x) == visible[x] # None /\ visible[x].checks /\ visible[x].steps > 0
Payload(c) == [base |-> c.base, text |-> c.text, steps |-> c.steps]

Revisions(f) == {x.rev : x \in {y \in Visible : y.family = f}}
ArchivedRevisions(f) == {r.folder.rev : r \in {q \in index[SchemaOf[f]] : q.folder.family = f}}

(* What _migration_directories accepts: no revision twice, the archived     *)
(* ones below the visible ones, and together consecutive from r001.         *)
FamilyValid(f) ==
    /\ \A x, y \in Visible : x.family = f /\ y.family = f /\ x.rev = y.rev => x = y
    /\ \A a \in ArchivedRevisions(f), v \in Revisions(f) : a < v
    /\ LET all == ArchivedRevisions(f) \cup Revisions(f) IN all = 1..Cardinality(all)

TreeValid == \A f \in Family : FamilyValid(f)

Idle(pc) == [pc |-> pc, folder |-> None, base |-> 0, archived |-> {}, copy |-> None]

Init ==
    /\ \E d \in Day, last \in {1, Len(FamilyOrder)} :
        LET found == {[family |-> FamilyOrder[1], rev |-> r, day |-> d] : r \in {1, 2}}
                        \cup {[family |-> FamilyOrder[last], rev |-> 1, day |-> d]} IN
        visible = [x \in Folder |->
            IF x \in found
              THEN [Empty EXCEPT !.steps = Steps, !.checks = TRUE] ELSE None]
    /\ archived = [x \in Folder |-> None]
    /\ index = [s \in Schema |-> {}]
    /\ live = [e \in Env |-> [f \in Family |-> 0]]
    /\ sent = [x \in Folder |-> [e \in Env |-> FALSE]]
    /\ \E cast \in Casts :
        LET start(p) == IF p \in cast THEN "idle" ELSE "over" IN
        /\ author = [a \in Author |-> Idle(start(a))]
        /\ archiver = [k \in Archiver |-> [pc |-> start(k), plan |-> {}, payloads |-> {}, seen |-> {},
                                      flag |-> FALSE, original |-> index, moved |-> {}, written |-> {},
                                      kept |-> {}, stuck |-> {}]]
        /\ applier = [c \in Applier |-> [pc |-> start(c), folder |-> None, env |-> "dev", payload |-> None]]
    /\ session = [c \in Applier |-> "none"]
    /\ changes = 0 /\ faults = 0
    /\ raced = {} /\ withdrawn = {}

Fault == faults < MaxFaults /\ faults' = faults + 1

-----------------------------------------------------------------------------
(* Developers and teammates *)

Changed == changes < MaxChanges /\ changes' = changes + 1

\* A folder nobody has attempted is edited, against what is live on DEV now.
Edit(x) ==
    /\ Changed
    /\ Loads(x) /\ visible[x].events = {} /\ visible[x].receipts = {}
    /\ visible' = [visible EXCEPT ![x].text = 1, ![x].base = live["dev"][x.family]]
    /\ UNCHANGED <<archived, index, world, author, archiver, applier, faults, raced, withdrawn>>

ChangeLive(e, f) ==
    /\ Changed
    /\ live' = [live EXCEPT ![e][f] = Mate]
    /\ UNCHANGED <<tree, sent, session, author, archiver, applier, faults, raced, withdrawn>>

\* The latest archived revision is moved back by hand, with its record.
Unarchive(x) ==
    /\ Changed
    /\ \A k \in Archiver : archiver[k].pc \in {"idle", "over"}
    /\ archived[x] # None /\ visible[x] = None
    /\ \A y \in Archived : y.family = x.family => y.rev <= x.rev
    /\ visible' = [visible EXCEPT ![x] = archived[x]]
    /\ archived' = [archived EXCEPT ![x] = None]
    /\ index' = [index EXCEPT ![SchemaOf[x.family]] = {r \in @ : r.folder # x}]
    /\ UNCHANGED <<world, author, archiver, applier, faults, raced, withdrawn>>

Developer ==
    \/ \E x \in Folder : Edit(x) \/ Unarchive(x)
    \/ \E e \in Env, f \in Family : ChangeLive(e, f)

-----------------------------------------------------------------------------
(* new-migration *)

AuthorGoes(a, pc) == author' = [author EXCEPT ![a].pc = pc]
AuthorEnds(a) == author' = [author EXCEPT ![a] = Idle("over")]

\* Some folder of the family is in the archive, or on its way.
Leaving(f) ==
    \/ \E x \in Archived : x.family = f
    \/ \E k \in Archiver : \E x \in archiver[k].plan : x.family = f /\ archiver[k].pc # "over"

\* The family must be new among the visible ones; what is archived is seen
\* only when the new folder is loaded.
CheckName(a) ==
    /\ author[a].pc = "idle" /\ TreeValid
    /\ \E f \in Family, d \in Day :
        /\ \A x \in Visible : x.family # f
        /\ author' = [author EXCEPT ![a] = [Idle("read") EXCEPT !.folder = [family |-> f, rev |-> 1, day |-> d]]]
    /\ UNCHANGED <<tree, world, archiver, applier, changes, faults, raced, withdrawn>>

ReadSource(a) ==
    /\ author[a].pc = "read"
    /\ \/ author' = [author EXCEPT ![a].pc = "make", ![a].base = live["dev"][author[a].folder.family]]
       \/ AuthorEnds(a)
    /\ UNCHANGED <<tree, world, archiver, applier, changes, faults, raced, withdrawn>>

MakeFolder(a) ==
    LET x == author[a].folder IN
    /\ author[a].pc = "make"
    /\ IF visible[x] # None
         THEN AuthorEnds(a) /\ UNCHANGED <<tree, raced>>
         ELSE /\ visible' = [visible EXCEPT ![x] = [Empty EXCEPT !.base = author[a].base]]
              /\ raced' = IF Leaving(x.family) THEN raced \cup {x.family} ELSE raced
              /\ AuthorGoes(a, "write")
              /\ UNCHANGED <<archived, index>>
    /\ UNCHANGED <<world, archiver, applier, changes, faults, withdrawn>>

(* Mutant: the checks are written before the steps. *)
NextFileChecksFirst(c) == IF c.checks THEN [c EXCEPT !.steps = @ + 1] ELSE [c EXCEPT !.checks = TRUE]

\* The steps come first and the checks, without which nobody loads the
\* folder, last.
NextFile(c) == IF c.steps < Steps THEN [c EXCEPT !.steps = @ + 1] ELSE [c EXCEPT !.checks = TRUE]

Written(c) == c.steps = Steps /\ c.checks

WriteFile(a) ==
    LET x == author[a].folder IN
    /\ author[a].pc = "write"
    /\ visible[x] # None
    /\ LET next == NextFile(visible[x]) IN
        /\ visible' = [visible EXCEPT ![x] = next]
        /\ IF Written(next) THEN AuthorGoes(a, "load") ELSE UNCHANGED author
    /\ UNCHANGED <<archived, index, world, archiver, applier, changes, faults, raced, withdrawn>>

\* A migrate that has loaded the folder, and may have made its run directory.
Taken(x) == \E c \in Applier : applier[c].folder = x /\ applier[c].pc # "abandoned"

\* The folder did not load, or a file could not be written: it is removed,
\* whatever is in it by now.
RemoveFolder(a) ==
    LET x == author[a].folder IN
    /\ visible' = [visible EXCEPT ![x] = None]
    /\ withdrawn' = IF visible[x] # None /\ Taken(x) THEN withdrawn \cup {x} ELSE withdrawn
    /\ AuthorEnds(a)

LoadNew(a) ==
    LET x == author[a].folder IN
    /\ author[a].pc = "load"
    /\ IF TreeValid /\ Loads(x) THEN AuthorEnds(a) /\ UNCHANGED <<visible, withdrawn>> ELSE RemoveFolder(a)
    /\ UNCHANGED <<archived, index, world, archiver, applier, changes, faults, raced>>

\* The README.md of the folder is written after its checks, before it is loaded.
WriteFails(a) ==
    /\ author[a].pc \in {"write", "load"}
    /\ \/ visible[author[a].folder] = None /\ UNCHANGED faults
       \/ Fault
    /\ RemoveFolder(a)
    /\ UNCHANGED <<archived, index, world, archiver, applier, changes, raced>>

-----------------------------------------------------------------------------
(* revise *)

ReadIndex(a) ==
    /\ author[a].pc = "idle"
    /\ \E x \in Visible :
        author' = [author EXCEPT ![a] =
            [Idle("list") EXCEPT !.folder = x, !.archived = ArchivedRevisions(x.family)]]
    /\ UNCHANGED <<tree, world, archiver, applier, changes, faults, raced, withdrawn>>

NextRevision(x) == [x EXCEPT !.rev = @ + 1]

\* Only the latest revision of a complete family is revised.
HistoryAllows(a) ==
    LET x == author[a].folder IN
    /\ visible[x] # None
    /\ \A y, z \in Visible : y.family = x.family /\ z.family = x.family /\ y.rev = z.rev => y = z
    /\ \A r \in Revisions(x.family) : r <= x.rev
    /\ Revisions(x.family) \cup author[a].archived = 1..x.rev
    /\ x.rev < MaxRevision

ListFamily(a) ==
    /\ author[a].pc = "list"
    /\ IF HistoryAllows(a) THEN AuthorGoes(a, "copy") ELSE AuthorEnds(a)
    /\ UNCHANGED <<tree, world, archiver, applier, changes, faults, raced, withdrawn>>

\* The files are loaded and copied into a staged folder beside the tree.
CopyFiles(a) ==
    LET x == author[a].folder IN
    /\ author[a].pc = "copy"
    /\ IF TreeValid /\ Loads(x) /\ visible[NextRevision(x)] = None
         THEN author' = [author EXCEPT ![a].pc = "install", ![a].copy = Payload(visible[x])]
         ELSE AuthorEnds(a)
    /\ UNCHANGED <<tree, world, archiver, applier, changes, faults, raced, withdrawn>>

\* One rename puts the revision in place; onto an existing folder it fails.
InstallRevision(a) ==
    LET y == NextRevision(author[a].folder) IN
    /\ author[a].pc = "install"
    /\ visible' = IF visible[y] # None THEN visible
                  ELSE [visible EXCEPT ![y] = [Empty EXCEPT !.base = author[a].copy.base,
                            !.text = author[a].copy.text, !.steps = author[a].copy.steps, !.checks = TRUE]]
    /\ raced' = IF \E z \in Archived : z.family = y.family /\ z.rev = y.rev
                  THEN raced \cup {y.family} ELSE raced
    /\ AuthorEnds(a)
    /\ UNCHANGED <<archived, index, world, archiver, applier, changes, faults, withdrawn>>

AuthorSteps(a) ==
    \/ CheckName(a) \/ ReadSource(a) \/ MakeFolder(a) \/ WriteFile(a) \/ LoadNew(a) \/ WriteFails(a)
    \/ ReadIndex(a) \/ ListFamily(a) \/ CopyFiles(a) \/ InstallRevision(a)

-----------------------------------------------------------------------------
(* archive-migrations --yes *)

\* Events in the folder, or a run directory that names it: the one of a
\* running or killed migrate, or of one that stopped after its pending event.
Attempted(x) ==
    \/ visible[x].events # {}
    \/ \E c \in Applier : applier[c].folder = x /\ applier[c].pc \notin {"idle", "abandoned"}
VerifiedReceipt(x) == \E r \in visible[x].receipts : r.payload = Payload(visible[x])

\* _folder_evidence: an attempt without a verified receipt is refused,
\* unless the caller accepts it.
EvidenceAllows(x, flag) == Attempted(x) /\ ~VerifiedReceipt(x) => flag

\* The selected folders of a family: its low prefix, or all of it.
LowPrefix(chosen) == \A x \in chosen, y \in Visible : y.family = x.family /\ y.rev < x.rev => y \in chosen

PositionOf(f) == CHOOSE i \in DOMAIN FamilyOrder : FamilyOrder[i] = f
Before(x, y) == \/ PositionOf(x.family) < PositionOf(y.family)
                \/ x.family = y.family /\ x.rev < y.rev
Schemas(k) == {SchemaOf[x.family] : x \in archiver[k].plan}
Families(chosen) == {y \in Visible : \E x \in chosen : x.family = y.family}

Planned(k, s) == archiver[k].original[s] \cup {r \in archiver[k].payloads : SchemaOf[r.folder.family] = s}

\* build_archive_plan
PlanArchive(k) ==
    /\ archiver[k].pc = "idle" /\ TreeValid
    /\ \E chosen \in SUBSET Visible \ {{}}, flag \in BOOLEAN :
        /\ LowPrefix(chosen)
        /\ \A x \in chosen : Loads(x) /\ EvidenceAllows(x, flag) /\ archived[x] = None
        /\ archiver' = [archiver EXCEPT ![k] = [@ EXCEPT
                !.pc = "check", !.flag = flag,
                !.plan = chosen,
                !.payloads = {[folder |-> x, payload |-> Payload(visible[x])] : x \in chosen},
                !.seen = Families(chosen),
                !.original = index]]
    /\ UNCHANGED <<tree, world, author, applier, changes, faults, raced, withdrawn>>

Stale(k) ==
    \/ ~TreeValid
    \/ archiver[k].seen # Families(archiver[k].plan)
    \/ \E s \in Schemas(k) : index[s] # archiver[k].original[s]
    \/ \E r \in archiver[k].payloads :
        \/ ~Loads(r.folder) \/ archived[r.folder] # None
        \/ Payload(visible[r.folder]) # r.payload
        \/ ~EvidenceAllows(r.folder, archiver[k].flag)

ArchiverGoes(k, pc) == archiver' = [archiver EXCEPT ![k].pc = pc]

\* execute_archive_plan looks at everything again before it moves anything.
CheckPlan(k) ==
    /\ archiver[k].pc = "check"
    /\ ArchiverGoes(k, IF Stale(k) THEN "over" ELSE "move")
    /\ UNCHANGED <<tree, world, author, applier, changes, faults, raced, withdrawn>>

ToArchive(moves) ==
    /\ archived' = [x \in Folder |-> IF x \in moves THEN visible[x] ELSE archived[x]]
    /\ visible' = [x \in Folder |-> IF x \in moves THEN None ELSE visible[x]]
ToTree(moves) ==
    /\ visible' = [x \in Folder |-> IF x \in moves THEN archived[x] ELSE visible[x]]
    /\ archived' = [x \in Folder |-> IF x \in moves THEN None ELSE archived[x]]

\* The folders are moved in the order of their plan.
Left(k) == archiver[k].plan \ archiver[k].moved
NextEntry(k, x) == x \in Left(k) /\ \A y \in Left(k) \ {x} : Before(x, y)
Movable(x) == visible[x] # None /\ archived[x] = None
Returnable(x) == archived[x] # None /\ visible[x] = None

MoveEntry(k) ==
    /\ archiver[k].pc = "move"
    /\ \E x \in Left(k) :
        /\ NextEntry(k, x) /\ Movable(x)
        /\ ToArchive({x})
        /\ archiver' = [archiver EXCEPT ![k].moved = @ \cup {x},
                                        ![k].pc = IF Left(k) = {x} THEN "index" ELSE "move"]
    /\ UNCHANGED <<index, world, author, applier, changes, faults, raced, withdrawn>>

MoveFails(k) ==
    /\ archiver[k].pc = "move"
    /\ \/ (\E x \in Left(k) : NextEntry(k, x) /\ ~Movable(x)) /\ UNCHANGED faults
       \/ Fault
    /\ ArchiverGoes(k, "restore")
    /\ UNCHANGED <<tree, world, author, applier, changes, raced, withdrawn>>

WriteIndex(k) ==
    /\ archiver[k].pc = "index"
    /\ \E s \in Schemas(k) \ archiver[k].written :
        /\ index' = [index EXCEPT ![s] = Planned(k, s)]
        /\ archiver' = [archiver EXCEPT ![k].written = @ \cup {s},
                            ![k].pc = IF archiver[k].written \cup {s} = Schemas(k) THEN "over" ELSE "index"]
    /\ UNCHANGED <<visible, archived, world, author, applier, changes, faults, raced, withdrawn>>

IndexFails(k) ==
    /\ archiver[k].pc = "index" /\ Fault
    /\ ArchiverGoes(k, "restore")
    /\ UNCHANGED <<tree, world, author, applier, changes, raced, withdrawn>>

\* The unwinding, first the indexes: one that this command wrote goes back;
\* one that cannot, or that somebody else changed, keeps its folders archived.
RestoreIndexes(k) ==
    LET changed == {s \in Schemas(k) : index[s] # archiver[k].original[s]}
        mine == {s \in changed : index[s] = Planned(k, s)} IN
    /\ archiver[k].pc = "restore"
    /\ \E failed \in SUBSET mine :
        /\ IF failed = {} THEN UNCHANGED faults ELSE Fault
        /\ index' = [s \in Schema |-> IF s \in mine \ failed THEN archiver[k].original[s] ELSE index[s]]
        /\ archiver' = [archiver EXCEPT ![k].pc = "return", ![k].kept = (changed \ mine) \cup failed]
    /\ UNCHANGED <<visible, archived, world, author, applier, changes, raced, withdrawn>>

\* Then the folders whose index is as it was.
ReturnFolders(k) ==
    LET back == {x \in archiver[k].moved : SchemaOf[x.family] \notin archiver[k].kept} IN
    /\ archiver[k].pc = "return"
    /\ \E failed \in SUBSET back :
        /\ IF \A x \in failed : ~Returnable(x) THEN UNCHANGED faults ELSE Fault
        /\ \A x \in back \ failed : Returnable(x)
        /\ ToTree(back \ failed)
        /\ archiver' = [archiver EXCEPT
                ![k].stuck = {SchemaOf[x.family] : x \in failed},
                ![k].pc = IF failed = {} THEN "over" ELSE "recover"]
    /\ UNCHANGED <<index, world, author, applier, changes, raced, withdrawn>>

(* Mutant: only the folders that had been moved go back into the archive. *)
RecoverArchiveMoved(k) ==
    LET of(s) == {x \in archiver[k].plan : SchemaOf[x.family] = s}
        again == {x \in archiver[k].plan : SchemaOf[x.family] \in archiver[k].stuck /\ archived[x] = None /\ x \in archiver[k].moved}
        lost(s) == \E x \in of(s) : (visible[x] = None) = (archived[x] = None) IN
    /\ archiver[k].pc = "recover"
    /\ \E failed \in SUBSET again, unwritten \in SUBSET archiver[k].stuck :
        LET moves == {x \in again \ failed : visible[x] # None}
            broken == unwritten \cup {s \in archiver[k].stuck : lost(s) \/ of(s) \cap failed # {}} IN
        /\ IF failed = {} /\ unwritten = {} THEN UNCHANGED faults ELSE Fault
        /\ ToArchive(moves)
        /\ index' = [s \in Schema |-> IF s \in archiver[k].stuck \ broken THEN Planned(k, s) ELSE index[s]]
        /\ ArchiverGoes(k, IF broken = {} THEN "over" ELSE "inspect")
    /\ UNCHANGED <<world, author, applier, changes, raced, withdrawn>>

\* A folder that could not return takes the others of its index back into the
\* archive, also those that had not been moved at all, and the index follows.
RecoverArchive(k) ==
    LET of(s) == {x \in archiver[k].plan : SchemaOf[x.family] = s}
        again == {x \in archiver[k].plan : SchemaOf[x.family] \in archiver[k].stuck /\ archived[x] = None}
        lost(s) == \E x \in of(s) : (visible[x] = None) = (archived[x] = None) IN
    /\ archiver[k].pc = "recover"
    /\ \E failed \in SUBSET again, unwritten \in SUBSET archiver[k].stuck :
        LET moves == {x \in again \ failed : visible[x] # None}
            broken == unwritten \cup {s \in archiver[k].stuck : lost(s) \/ of(s) \cap failed # {}} IN
        /\ IF failed = {} /\ unwritten = {} THEN UNCHANGED faults ELSE Fault
        /\ ToArchive(moves)
        /\ index' = [s \in Schema |-> IF s \in archiver[k].stuck \ broken THEN Planned(k, s) ELSE index[s]]
        /\ ArchiverGoes(k, IF broken = {} THEN "over" ELSE "inspect")
    /\ UNCHANGED <<world, author, applier, changes, raced, withdrawn>>

ArchiverSteps(k) ==
    \/ PlanArchive(k) \/ CheckPlan(k) \/ MoveEntry(k) \/ MoveFails(k) \/ WriteIndex(k) \/ IndexFails(k)
    \/ RestoreIndexes(k) \/ ReturnFolders(k) \/ RecoverArchive(k)

-----------------------------------------------------------------------------
(* migrate: one folder, one environment *)

ApplierGoes(c, pc) == applier' = [applier EXCEPT ![c].pc = pc]

Unlocked(x, e) ==
    /\ \A r \in visible[x].receipts : r.env # e
    /\ \A v \in visible[x].events : v.env # e
    /\ \A d \in Applier : applier[d].folder = x /\ applier[d].env = e => session[d] = "none"

ApplyLoad(c) ==
    /\ applier[c].pc = "idle" /\ TreeValid
    /\ \E x \in Visible, e \in Env :
        /\ Loads(x)
        /\ applier' = [applier EXCEPT ![c] =
             [pc |-> "check", folder |-> x, env |-> e, payload |-> Payload(visible[x])]]
    /\ UNCHANGED <<tree, world, author, archiver, changes, faults, raced, withdrawn>>

ApplyCheck(c) ==
    LET x == applier[c].folder IN
    /\ applier[c].pc = "check"
    /\ ApplierGoes(c, IF visible[x] # None /\ Unlocked(x, applier[c].env) THEN "reread" ELSE "abandoned")
    /\ UNCHANGED <<tree, world, author, archiver, changes, faults, raced, withdrawn>>

SourceIsFrozen(c) ==
    LET x == applier[c].folder IN TreeValid /\ Loads(x) /\ Payload(visible[x]) = applier[c].payload

ApplyReread(c) ==
    /\ applier[c].pc = "reread"
    /\ ApplierGoes(c, IF SourceIsFrozen(c) THEN "boundary" ELSE "abandoned")
    /\ UNCHANGED <<tree, world, author, archiver, changes, faults, raced, withdrawn>>

\* The live preflight: the code is still what the folder was written against.
ApplyBoundary(c) ==
    /\ applier[c].pc = "boundary"
    /\ ApplierGoes(c, IF live[applier[c].env][applier[c].folder.family] = applier[c].payload.base
                        THEN "pending" ELSE "abandoned")
    /\ UNCHANGED <<tree, world, author, archiver, changes, faults, raced, withdrawn>>

(* Mutant: the SQL starts without its pending event. *)
ApplyPendingUnrecorded(c) ==
    /\ applier[c].pc = "pending"
    /\ visible[applier[c].folder] # None
    /\ ApplierGoes(c, "running") /\ session' = [session EXCEPT ![c] = "running"]
    /\ UNCHANGED <<tree, live, sent, author, archiver, changes, faults, raced, withdrawn>>

\* The pending event goes into the folder before the session starts; a folder
\* that is no longer there takes no event.
ApplyPending(c) ==
    LET x == applier[c].folder IN
    /\ applier[c].pc = "pending"
    /\ IF visible[x] = None
         THEN ApplierGoes(c, "abandoned") /\ UNCHANGED <<visible, session>>
         ELSE /\ visible' = [visible EXCEPT ![x].events = @ \cup {[by |-> c, env |-> applier[c].env]}]
              /\ session' = [session EXCEPT ![c] = "running"]
              /\ ApplierGoes(c, "running")
    /\ UNCHANGED <<archived, index, live, sent, author, archiver, changes, faults, raced, withdrawn>>

\* Oracle commits DDL at once: a session that goes wrong may have done it too.
SessionCommits(c) ==
    LET x == applier[c].folder IN
    /\ session[c] = "running"
    /\ \E end \in {"committed", "failed"} : session' = [session EXCEPT ![c] = end]
    /\ live' = [live EXCEPT ![applier[c].env][x.family] = x.rev]
    /\ sent' = [sent EXCEPT ![x][applier[c].env] = TRUE]
    /\ UNCHANGED <<tree, author, archiver, applier, changes, faults, raced, withdrawn>>

SessionFails(c) ==
    /\ session[c] = "running"
    /\ session' = [session EXCEPT ![c] = "failed"]
    /\ UNCHANGED <<tree, live, sent, author, archiver, applier, changes, faults, raced, withdrawn>>

\* The folder is loaded once more; the receipt goes where it was loaded from.
ApplyFinish(c) ==
    LET x == applier[c].folder
        receipt == [env |-> applier[c].env, payload |-> applier[c].payload] IN
    /\ applier[c].pc = "running" /\ session[c] \in {"committed", "failed"}
    /\ visible' = IF session[c] = "committed" /\ SourceIsFrozen(c)
                     THEN [visible EXCEPT ![x].receipts = @ \cup {receipt}] ELSE visible
    /\ ApplierGoes(c, "over")
    /\ UNCHANGED <<archived, index, world, author, archiver, changes, faults, raced, withdrawn>>

ApplierSteps(c) ==
    \/ ApplyLoad(c) \/ ApplyCheck(c) \/ ApplyReread(c) \/ ApplyBoundary(c) \/ ApplyPending(c)
    \/ SessionCommits(c) \/ SessionFails(c) \/ ApplyFinish(c)

-----------------------------------------------------------------------------
(* Kills.  The session of a migrate goes on without it. *)

KillAuthor(a) ==
    /\ author[a].pc \notin {"idle", "over", "killed"} /\ Fault
    /\ AuthorGoes(a, "killed")
    /\ UNCHANGED <<tree, world, archiver, applier, changes, raced, withdrawn>>

KillArchiver(k) ==
    /\ archiver[k].pc \notin {"idle", "over", "inspect", "killed"} /\ Fault
    /\ ArchiverGoes(k, "killed")
    /\ UNCHANGED <<tree, world, author, applier, changes, raced, withdrawn>>

KillApplier(c) ==
    /\ applier[c].pc \notin {"idle", "abandoned", "over", "killed"} /\ Fault
    /\ ApplierGoes(c, "killed")
    /\ UNCHANGED <<tree, world, author, archiver, changes, raced, withdrawn>>

Kill ==
    \/ \E a \in Author : KillAuthor(a)
    \/ \E k \in Archiver : KillArchiver(k)
    \/ \E c \in Applier : KillApplier(c)

Next ==
    \/ Developer \/ Kill
    \/ \E a \in Author : AuthorSteps(a)
    \/ \E k \in Archiver : ArchiverSteps(k)
    \/ \E c \in Applier : ApplierSteps(c)

Spec == Init /\ [][Next]_vars

-----------------------------------------------------------------------------
(* Properties *)

\* A new folder that is not finished, also one that a kill left so.
Unfinished == \E a \in Author : author[a].pc \in {"write", "load", "killed"}
\* An archive that is under way, was killed, or told the user to inspect.
Unsettled == \E k \in Archiver : archiver[k].pc \notin {"idle", "check", "over"}

(* Whatever moves, index writes and steps back fail, an archive that ends by *)
(* itself leaves a tree that every command accepts, in which each index      *)
(* names exactly the folders in the archive: execute_archive_plan returns    *)
(* the folders of an index that is as it was, keeps those of one that is     *)
(* not, and takes half of a family never apart.  Families that were started  *)
(* again beside their archive are left out: nothing prevents those.          *)
RestIsConsistent ==
    ~Unfinished /\ ~Unsettled =>
        /\ \A f \in Family \ raced : FamilyValid(f)
        /\ \A x \in Folder : x.family \notin raced =>
              (x \in Archived <=> \E r \in index[SchemaOf[x.family]] : r.folder = x)

(* No command takes a folder that new-migration is still writing for a       *)
(* finished one: the checks, without which load_migration refuses a folder,  *)
(* come last, so what migrate freezes, revise copies and an archive records  *)
(* has all its steps.                                                        *)
NothingHalfWritten ==
    /\ \A c \in Applier : applier[c].payload # None => applier[c].payload.steps = Steps
    /\ \A a \in Author : author[a].copy # None => author[a].copy.steps = Steps
    /\ \A k \in Archiver : \A r \in archiver[k].payloads : r.payload.steps = Steps

Held(x) == {visible[x], archived[x]} \ {None}
Known(x, e) == \E c \in Held(x) : \E v \in c.events : v.env = e

(* What a database may have run is on record in the folder, wherever the     *)
(* folder is: migrate writes its pending event before the SQL, an archive    *)
(* takes the events along, and no step back of an archive removes a folder   *)
(* that holds one.  The exception is a folder that new-migration removes     *)
(* because it could not finish it, after a migrate has found it complete:    *)
(* its steps and checks are in place before its README.md is written and     *)
(* the tree is validated.                                                    *)
EvidenceStays == \A x \in Folder \ withdrawn, e \in Env : sent[x][e] => Known(x, e)

(* What the commands find in the tree is consistent: archives and indexes    *)
(* agree (execute_archive_plan), and no folder that is still being written   *)
(* passes for a finished one (new_migration).                                *)
TreeIsConsistent == RestIsConsistent /\ NothingHalfWritten

-----------------------------------------------------------------------------
(* What the record of the attempts rests on                                  *)

Frozen == [base : Nat, text : Nat, steps : Nat]
Content == [base : Nat, text : Nat, steps : 0..Steps, checks : BOOLEAN,
            events : SUBSET [by : Applier, env : Env], receipts : SUBSET [env : Env, payload : Frozen]]

ConstantsFit ==
    /\ MaxRevision \in Nat \ {0} /\ SchemaOf \in [Family -> Schema]
    /\ None \notin Folder /\ None \notin Content /\ None \notin Frozen

ApplierPC == {"idle", "check", "reread", "boundary", "pending", "running", "over", "abandoned", "killed"}

TypeOK ==
    /\ visible \in [Folder -> Content \cup {None}] /\ archived \in [Folder -> Content \cup {None}]
    /\ live \in [Env -> [Family -> Nat]]
    /\ sent \in [Folder -> [Env -> BOOLEAN]]
    /\ DOMAIN author = Author
    /\ \A a \in Author :
        /\ DOMAIN author[a] = {"pc", "folder", "base", "archived", "copy"}
        /\ author[a].folder \in Folder \cup {None} /\ author[a].base \in Nat
        /\ author[a].copy \in Frozen \cup {None}
    /\ applier \in [Applier -> [pc : ApplierPC, folder : Folder \cup {None}, env : Env,
                                payload : Frozen \cup {None}]]
    /\ DOMAIN archiver = Archiver /\ \A k \in Archiver : {"pc", "payloads"} \subseteq DOMAIN archiver[k]
    /\ session \in [Applier -> {"none", "running", "committed", "failed"}]

\* A command that is at work has its folder, and what it froze or copied of it.
FolderChosen ==
    /\ \A a \in Author :
        /\ author[a].pc \notin {"idle", "over", "killed"} => author[a].folder # None
        /\ author[a].pc = "install" => author[a].copy # None
    /\ \A c \in Applier : applier[c].pc \in {"check", "reread", "boundary", "pending", "running"} =>
        applier[c].folder # None /\ applier[c].payload # None

Attempting(c) == applier[c].pc \in {"running", "over", "killed"}

(* An event is in the folder that its command applies, as long as that       *)
(* command lives and after it; SQL runs only with its event on record.       *)
AttemptsAreOnRecord ==
    /\ \A x \in Folder : \A c \in Held(x) : \A v \in c.events :
        applier[v.by].folder = x /\ Attempting(v.by)
    /\ \A c \in Applier : session[c] # "none" =>
        /\ Attempting(c) /\ applier[c].folder # None
        /\ applier[c].folder \in withdrawn \/ Known(applier[c].folder, applier[c].env)

\* The checks of a folder are there only when all its steps are.
ChecksComeLast ==
    \A x \in Folder : \A c \in Held(x) : c.checks => c.steps = Steps

RecordInv ==
    TypeOK /\ FolderChosen /\ AttemptsAreOnRecord /\ EvidenceStays /\ ChecksComeLast /\ NothingHalfWritten

-----------------------------------------------------------------------------
(* What the agreement of archives and indexes rests on, with one author and  *)
(* one archive at a time                                                     *)

OneOfAKind == \A cast \in Casts : \A p, q \in cast : {p, q} \subseteq Author \/ {p, q} \subseteq Archiver => p = q

Alone ==
    /\ \A a, b \in Author : a = b \/ author[a].pc = "over" \/ author[b].pc = "over"
    /\ \A k, l \in Archiver : k = l \/ archiver[k].pc = "over" \/ archiver[l].pc = "over"

\* A kill, or an archive that has told the user to inspect, is for good.
Broken ==
    \/ \E a \in Author : author[a].pc = "killed"
    \/ \E k \in Archiver : archiver[k].pc \in {"inspect", "killed"}

At(pcs) == {k \in Archiver : archiver[k].pc \in pcs}
Moving == {"move", "index", "restore", "return", "recover"}

Of(f) == {x \in Folder : x.family = f /\ (visible[x] # None \/ archived[x] # None)}
Here(f) == {x \in Of(f) : visible[x] # None}
There(f) == {x \in Of(f) : archived[x] # None}
Drafts == {author[a].folder : a \in {b \in Author : author[b].pc \in {"write", "load"}}}
Settled(f) == Of(f) \ Drafts
PlansOf(f) == {x \in UNION {archiver[k].plan : k \in {l \in Archiver : archiver[l].pc # "over"}} : x.family = f}
Recorded(x, records) == \E r \in records : r.folder = x

RestTypes ==
    /\ \A a \in Author : author[a].pc \in {"read", "make", "write", "load"} => author[a].folder.rev = 1
    /\ index \in [Schema -> SUBSET [folder : Folder, payload : Frozen]]
    /\ \A k \in Archiver :
        /\ DOMAIN archiver[k] = {"pc", "plan", "payloads", "seen", "flag", "original", "moved", "written", "kept", "stuck"}
        /\ archiver[k].plan \subseteq Folder /\ archiver[k].seen \subseteq Folder
        /\ archiver[k].payloads \subseteq [folder : Folder, payload : Frozen]
        /\ archiver[k].plan = {r.folder : r \in archiver[k].payloads}
        /\ archiver[k].original \in [Schema -> SUBSET [folder : Folder, payload : Frozen]]
        /\ archiver[k].moved \subseteq archiver[k].plan
        /\ archiver[k].written \subseteq Schemas(k)
        /\ archiver[k].pc = "idle" => archiver[k].plan = {}
        /\ archiver[k].pc \in {"idle", "check"} => archiver[k].moved = {} /\ archiver[k].written = {}

\* The revisions of a family are counted from one and are all of one day.
Numbered(f) ==
    /\ \E n \in 0..MaxRevision : {x.rev : x \in Settled(f)} = 1..n
    /\ \A x, y \in Settled(f) : x.day = y.day
    /\ Here(f) \cap There(f) = {}

\* A folder that is being made is the only one of a family that an archive
\* has begun to take.
DraftAlone(f) ==
    \A x \in Drafts : x.family = f =>
        /\ x \in Of(f)
        /\ There(f) \cup PlansOf(f) # {} => Of(f) \cup PlansOf(f) \subseteq {x}

\* The revision that is being revised stays, and so does what an archive takes,
\* as long as new-migration has not removed its own folder.
BaseStays ==
    \A a \in Author :
        /\ author[a].pc \in {"list", "copy", "install"} /\ author[a].folder.family \notin raced =>
               author[a].folder \in Of(author[a].folder.family)
        /\ author[a].pc # "over" =>
               \A k \in At(Moving) : \A x \in archiver[k].plan : x.family \notin raced => x \in Of(x.family)

\* What is in the archive is what the index names, and older than the rest.
InOrder(f) ==
    /\ \A x \in Folder : x.family = f => (x \in There(f) <=> Recorded(x, index[SchemaOf[f]]))
    /\ \A x \in There(f), y \in Here(f) : x.rev < y.rev

\* What a plan was made for.
PlanIsLow(k) ==
    /\ archiver[k].plan \subseteq archiver[k].seen
    /\ \A x \in archiver[k].plan, y \in archiver[k].seen : x.family = y.family /\ y.rev < x.rev => y \in archiver[k].plan

\* The family while an archive is under way: what it does not take is as it
\* was, and what it takes lies between that and the rest.
Sorted(k, f) ==
    /\ \A x \in Folder \ archiver[k].plan : x.family = f =>
        (x \in There(f) <=> Recorded(x, IF SchemaOf[f] \in Schemas(k) THEN archiver[k].original[SchemaOf[f]] ELSE index[SchemaOf[f]]))
    /\ \A x \in archiver[k].plan : x.family = f => ~Recorded(x, archiver[k].original[SchemaOf[f]])
    /\ \A x \in There(f) \ archiver[k].plan, y \in Of(f) : y \in There(f) \ archiver[k].plan \/ x.rev < y.rev
    /\ \A x \in archiver[k].plan, y \in Here(f) \ archiver[k].plan : x.family = f => x.rev < y.rev

\* How far it is.
Extent(k, f) ==
    LET s == SchemaOf[f]
        mine == {x \in archiver[k].plan : x.family = f} IN
    /\ archiver[k].pc # "recover" => mine \cap There(f) = mine \cap archiver[k].moved
    /\ archiver[k].pc = "recover" =>
        /\ s \in archiver[k].kept => mine \subseteq There(f)
        /\ s \in Schemas(k) \ (archiver[k].kept \cup archiver[k].stuck) => mine \cap There(f) = {}

Indexes(k) ==
    LET original == archiver[k].original IN
    /\ archiver[k].pc = "move" => archiver[k].written = {} /\ \A s \in Schemas(k) : index[s] = original[s]
    /\ archiver[k].pc = "index" =>
        /\ archiver[k].moved = archiver[k].plan
        /\ \A s \in Schemas(k) : index[s] = IF s \in archiver[k].written THEN Planned(k, s) ELSE original[s]
    /\ archiver[k].pc = "restore" => \A s \in Schemas(k) :
        index[s] # original[s] => index[s] = Planned(k, s) /\ archiver[k].moved = archiver[k].plan
    /\ archiver[k].pc \in {"return", "recover"} => \A s \in Schemas(k) :
        IF s \in archiver[k].kept THEN index[s] = Planned(k, s) /\ archiver[k].moved = archiver[k].plan
                                  ELSE index[s] = original[s]
    /\ archiver[k].pc = "recover" => archiver[k].stuck \subseteq Schemas(k) \ archiver[k].kept

Accounted ==
    /\ BaseStays
    /\ \A f \in Family \ raced : Numbered(f) /\ DraftAlone(f)
    /\ At(Moving) = {} => \A f \in Family \ raced : InOrder(f)
    /\ \A k \in At({"check"}) : PlanIsLow(k)
    /\ \A k \in At(Moving) : Indexes(k) /\ \A f \in Family \ raced : Sorted(k, f) /\ Extent(k, f)

RestInv == RestTypes /\ Alone /\ (~Broken => Accounted)

=============================================================================
