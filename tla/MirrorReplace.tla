---------------------------- MODULE MirrorReplace ----------------------------
(***************************************************************************)
(* Replacing generated mirrors of the working tree with staged exports:    *)
(* export_apps.sh stages, replace_mirror.sh and its twin replace_mirror.ps1 *)
(* take a lock file per mirror, move the old directories aside, move the   *)
(* staged ones in, and unwind when they fail.  Commands are killed, are    *)
(* signalled, and judge each other's lock files; developers edit and       *)
(* commit.                                                                 *)
(*                                                                         *)
(* A directory is what it holds: what the repository had first, what a     *)
(* command staged (named after the command), a developer's edit, or a mix  *)
(* left by a move into a directory that was already there.                 *)
(***************************************************************************)
EXTENDS Naturals, Sequences

CONSTANTS
    Command,      \* runs of the replacement, each once
    Dest,         \* mirrors: apps/<s>/<id>, database/<S>, database/<S>/ords
    Pairs,        \* [Command -> Seq(Dest)]: the destinations of one call
    Impl,         \* [Command -> {"sh", "ps1"}]
    Parent,       \* [Dest -> Dest \cup {NoDest}]: the schema mirror of an ords mirror
    Editable,     \* bound: the mirrors in which the one edit is made
    NoDest,
    NoCommand

VARIABLES
    dir,          \* what is in place
    head,         \* what is committed
    saved,        \* mirrors whose edit has been committed
    late,         \* mirrors edited after a command had looked at them last
    lostEdits,    \* mirrors whose edit went with a discarded copy
    lock,         \* writer of a mirror's lock file
    raced,        \* a lock file was removed under a running command
    staged,       \* pairs whose export is in the staging directory
    backup,       \* the old directories a command moved aside
    pc, idx,
    acquired,     \* lock files a command will remove
    moved, installed,   \* what the unwinding will undo
    before,       \* what was in place at the recheck
    broken        \* a rollback step failed, or a signal came before its record

(* What the scripts make of their arguments: one schema mirror holds one     *)
(* ords mirror and no deeper ones, the destinations of a call do not overlap *)
(* (replace_mirror.sh 270-282), and the names of contents are no commands.   *)
ConstantsFit ==
    /\ Command \cap {"absent", "first", "edit", "mixed"} = {}
    /\ NoDest \notin Dest /\ NoCommand \notin Command
    /\ Pairs \in [Command -> Seq(Dest) \ {<<>>}]
    /\ Impl \in [Command -> {"sh", "ps1"}]
    /\ Parent \in [Dest -> Dest \cup {NoDest}]
    /\ \A d \in Dest : Parent[d] # NoDest => Parent[Parent[d]] = NoDest
    /\ \A c \in Command : \A i, j \in DOMAIN Pairs[c] : i # j =>
           Pairs[c][i] # Pairs[c][j] /\ Parent[Pairs[c][i]] # Pairs[c][j]
    /\ Editable \subseteq Dest

treeVars == <<dir, head, saved, late, lostEdits>>
lockVars == <<lock, raced, acquired>>
moveVars == <<staged, backup, moved, installed, before, broken>>
vars == <<treeVars, lockVars, moveVars, pc, idx>>

Absent == "absent"
Content == Command \cup {"first", "edit", "mixed"}
NoLock == NoCommand

Within(d) == {e \in Dest : e = d \/ Parent[e] = d}
PairSet(c) == DOMAIN Pairs[c]
Dests(c) == UNION {Within(Pairs[c][i]) : i \in PairSet(c)}

\* Each destination is locked, and the schema mirror around an ords
\* destination: of pair i at the places 2i - 1 and 2i of LOCK_RELS.
LockAt(c, k) ==
    LET d == Pairs[c][(k + 1) \div 2] IN IF k % 2 = 1 THEN d ELSE Parent[d]

\* A mutation: the schema mirror is not locked.
OwnPlaces(c) == {k \in 1 .. 2 * Len(Pairs[c]) : k % 2 = 1}

LockPlaces(c) == {k \in 1 .. 2 * Len(Pairs[c]) : LockAt(c, k) # NoDest}

Alive(c) == pc[c] \notin {"idle", "over"}

\* git status of a mirror and all inside it
Dirty(d) == \E e \in Within(d) : dir[e] # head[e]

Goto(c, place) == pc' = [pc EXCEPT ![c] = place]
At(c, place, i) == Goto(c, place) /\ idx' = [idx EXCEPT ![c] = i]

First == [d \in Dest |-> "first"]

\* The command's process is gone, and its variables with it.
Ends(c) ==
    /\ At(c, "over", 1)
    /\ staged' = [staged EXCEPT ![c] = {}]
    /\ acquired' = [acquired EXCEPT ![c] = {}]
    /\ moved' = [moved EXCEPT ![c] = {}]
    /\ installed' = [installed EXCEPT ![c] = {}]
    /\ before' = [before EXCEPT ![c] = First]
    /\ broken' = [broken EXCEPT ![c] = FALSE]

-----------------------------------------------------------------------------
Init ==
    /\ dir = First
    /\ head = First
    /\ saved = {}
    /\ late = {}
    /\ lostEdits = {}
    /\ lock = [d \in Dest |-> NoLock]
    /\ raced = FALSE
    /\ staged = [c \in Command |-> {}]
    /\ backup = [c \in Command |-> [d \in Dest |-> Absent]]
    /\ pc = [c \in Command |-> "idle"]
    /\ idx = [c \in Command |-> 1]
    /\ acquired = [c \in Command |-> {}]
    /\ moved = [c \in Command |-> {}]
    /\ installed = [c \in Command |-> {}]
    /\ before = [c \in Command |-> First]
    /\ broken = [c \in Command |-> FALSE]

\* The export refuses dirty mirrors, stages every pair and starts the
\* replacement, which validates them again.
Stage(c) ==
    /\ pc[c] = "idle"
    /\ \A i \in PairSet(c) : ~Dirty(Pairs[c][i])
    /\ staged' = [staged EXCEPT ![c] = PairSet(c)]
    /\ At(c, "create", 1)
    /\ UNCHANGED <<treeVars, lockVars, backup, moved, installed, before, broken>>

-----------------------------------------------------------------------------
(* Lock protocol v1 *)

Wanted(c) == LockAt(c, idx[c])
Remaining(c) == {k \in LockPlaces(c) : k > idx[c]}

\* The next lock in order, or the moves.
TakeNext(c) ==
    IF Remaining(c) = {} THEN At(c, "recheck", 1)
    ELSE \E k \in Remaining(c) : (\A l \in Remaining(c) : k <= l) /\ At(c, "create", k)

\* The exclusive create of the lock file, on the first try or after a break.
CreateLock(c) ==
    /\ pc[c] \in {"create", "createAgain"}
    /\ lock[Wanted(c)] = NoLock
    /\ lock' = [lock EXCEPT ![Wanted(c)] = c]
    /\ acquired' = [acquired EXCEPT ![c] = @ \cup {Wanted(c)}]
    /\ TakeNext(c)
    /\ UNCHANGED <<treeVars, raced, moveVars>>

LiveKin(c, holder) == Impl[holder] = Impl[c] /\ Alive(holder)

\* The file exists: its holder is read and judged, by the process of the same
\* shell or by age.  MIRROR_LOCK_STALE_SECONDS may have passed or not.
JudgeHolder(c) ==
    LET holder == lock[Wanted(c)] IN
    /\ pc[c] = "create"
    /\ holder # NoLock
    /\ \/ ~LiveKin(c, holder) /\ Goto(c, "break")
       \/ Goto(c, "release")
    /\ UNCHANGED <<treeVars, lockVars, moveVars, idx>>

\* The file is removed by its name, whoever has written it since; PowerShell
\* keeps its own open, which stops the removal while it runs.
BreakLock(c) ==
    LET holder == lock[Wanted(c)]
        running == holder # NoLock /\ Alive(holder)
        kept == running /\ Impl[holder] = "ps1"
    IN
    /\ pc[c] = "break"
    /\ lock' = IF kept THEN lock ELSE [lock EXCEPT ![Wanted(c)] = NoLock]
    /\ raced' = (raced \/ (running /\ ~kept))
    /\ Goto(c, "createAgain")
    /\ UNCHANGED <<treeVars, acquired, moveVars, idx>>

\* Somebody else was faster after the break.
LoseRetry(c) ==
    /\ pc[c] = "createAgain"
    /\ lock[Wanted(c)] # NoLock
    /\ Goto(c, "release")
    /\ UNCHANGED <<treeVars, lockVars, moveVars, idx>>

\* The trap and the finally block remove the files by name.
RemoveLocks(c) ==
    /\ lock' = [d \in Dest |-> IF d \in acquired[c] THEN NoLock ELSE lock[d]]
    /\ raced' = (raced \/ \E d \in acquired[c] : lock[d] # NoLock /\ lock[d] # c)

ReleaseLocks(c) ==
    /\ pc[c] = "release"
    /\ RemoveLocks(c)
    /\ Ends(c)
    /\ UNCHANGED <<treeVars, backup>>

-----------------------------------------------------------------------------
(* The moves *)

SkipRecheck(c) ==
    /\ pc[c] = "recheck"
    /\ before' = [before EXCEPT ![c] = dir]
    /\ At(c, "aside", 1)
    /\ UNCHANGED <<treeVars, lockVars, staged, backup, moved, installed, broken>>

\* Every mirror again, with every lock taken.
Recheck(c) ==
    /\ pc[c] = "recheck"
    /\ IF \A i \in PairSet(c) : ~Dirty(Pairs[c][i])
         THEN before' = [before EXCEPT ![c] = dir] /\ At(c, "aside", 1)
         ELSE At(c, "release", 1) /\ UNCHANGED before
    /\ UNCHANGED <<treeVars, lockVars, staged, backup, moved, installed, broken>>

Target(c) == Pairs[c][idx[c]]

MoveAsideDeletes(c) ==
    /\ pc[c] = "aside"
    /\ dir' = [d \in Dest |-> IF d \in Within(Target(c)) THEN Absent ELSE dir[d]]
    /\ Goto(c, "in")
    /\ UNCHANGED <<head, saved, late, lostEdits, lockVars, staged, backup, moved, installed, before, broken, idx>>

\* The old mirror goes to the backup; nothing has noted it yet.
MoveAside(c) ==
    /\ pc[c] = "aside"
    /\ IF dir[Target(c)] = Absent
         THEN Goto(c, "in") /\ UNCHANGED <<dir, backup>>
         ELSE /\ backup' = [backup EXCEPT ![c] =
                     [d \in Dest |-> IF d \in Within(Target(c)) THEN dir[d] ELSE @[d]]]
              /\ dir' = [d \in Dest |-> IF d \in Within(Target(c)) THEN Absent ELSE dir[d]]
              /\ Goto(c, "asideDone")
    /\ UNCHANGED <<head, saved, late, lostEdits, lockVars, staged, moved, installed, before, broken, idx>>

NoteAside(c) ==
    /\ pc[c] = "asideDone"
    /\ moved' = [moved EXCEPT ![c] = @ \cup {idx[c]}]
    /\ Goto(c, "in")
    /\ UNCHANGED <<treeVars, lockVars, staged, backup, installed, before, broken, idx>>

\* mv into a directory that exists nests the export in it.
MoveIn(c) ==
    /\ pc[c] = "in"
    /\ Parent[Target(c)] # NoDest => dir[Parent[Target(c)]] # Absent
    /\ dir' = IF dir[Target(c)] = Absent
              THEN [d \in Dest |-> IF d \in Within(Target(c)) THEN c ELSE dir[d]]
              ELSE [dir EXCEPT ![Target(c)] = "mixed"]
    /\ staged' = [staged EXCEPT ![c] = @ \ {idx[c]}]
    /\ Goto(c, "inDone")
    /\ UNCHANGED <<head, saved, late, lostEdits, lockVars, backup, moved, installed, before, broken, idx>>

NoteInKeepsIndex(c) ==
    /\ pc[c] = "inDone"
    /\ installed' = [installed EXCEPT ![c] = @ \cup {idx[c]}]
    /\ IF idx[c] < Len(Pairs[c]) THEN At(c, "aside", idx[c] + 1) ELSE At(c, "disarm", idx[c] + 1)
    /\ UNCHANGED <<treeVars, lockVars, staged, backup, moved, before, broken>>

NoteIn(c) ==
    /\ pc[c] = "inDone"
    /\ installed' = [installed EXCEPT ![c] = @ \cup {idx[c]}]
    /\ IF idx[c] < Len(Pairs[c]) THEN At(c, "aside", idx[c] + 1) ELSE At(c, "disarm", 1)
    /\ UNCHANGED <<treeVars, lockVars, staged, backup, moved, before, broken>>

\* Every mirror is installed: there is nothing left to undo.
NothingToUndo(c) ==
    /\ moved' = [moved EXCEPT ![c] = {}]
    /\ installed' = [installed EXCEPT ![c] = {}]
    /\ before' = [before EXCEPT ![c] = First]

\* The shell command disarms its unwinding and keeps its locks for a while.
Disarm(c) ==
    /\ pc[c] = "disarm" /\ Impl[c] = "sh"
    /\ NothingToUndo(c)
    /\ At(c, "discard", 1)
    /\ UNCHANGED <<treeVars, lockVars, staged, backup, broken>>

\* PowerShell leaves its try block, and the finally block removes the lock
\* files before the first copy is deleted.
LeaveTry(c) ==
    /\ pc[c] = "disarm" /\ Impl[c] = "ps1"
    /\ RemoveLocks(c)
    /\ acquired' = [acquired EXCEPT ![c] = {}]
    /\ NothingToUndo(c)
    /\ At(c, "discard", 1)
    /\ UNCHANGED <<treeVars, staged, backup, broken>>

\* The copies are deleted one by one, or stay where a deletion fails.  The
\* shell command has its locks to release after that, PowerShell nothing.
DiscardBackup(c) ==
    LET gone == Within(Target(c))
        after == IF Impl[c] = "sh" THEN "release" ELSE "over"
    IN
    /\ pc[c] = "discard"
    /\ \/ /\ backup' = [backup EXCEPT ![c] = [d \in Dest |-> IF d \in gone THEN Absent ELSE @[d]]]
          /\ lostEdits' = lostEdits \cup {d \in gone : backup[c][d] = "edit" /\ d \notin saved}
          /\ IF idx[c] < Len(Pairs[c]) THEN At(c, "discard", idx[c] + 1) ELSE At(c, after, 1)
       \/ /\ At(c, after, 1)
          /\ UNCHANGED <<backup, lostEdits>>
    /\ UNCHANGED <<dir, head, saved, late, lockVars, staged, moved, installed, before, broken>>

-----------------------------------------------------------------------------
(* Failures, signals and kills *)

Moving(c) == pc[c] \in {"aside", "asideDone", "in", "inDone", "disarm"}

\* A move fails, or a signal is taken between two commands: the exit trap
\* unwinds, in PowerShell the catch block, which only a failing move reaches.
\* A move that was made and not noted is not undone.
Unwind(c) ==
    /\ Moving(c)
    /\ pc[c] \in {"asideDone", "inDone", "disarm"} => Impl[c] = "sh"
    /\ broken' = [broken EXCEPT ![c] = @ \/ pc[c] \in {"asideDone", "inDone"}]
    /\ At(c, "unwindIn", Len(Pairs[c]))
    /\ UNCHANGED <<treeVars, lockVars, staged, backup, moved, installed, before>>

\* Ctrl-C in PowerShell runs the finally block and not the catch block.
StopPipeline(c) ==
    /\ Impl[c] = "ps1"
    /\ Moving(c)
    /\ broken' = [broken EXCEPT ![c] = TRUE]
    /\ At(c, "release", 1)
    /\ UNCHANGED <<treeVars, lockVars, staged, backup, moved, installed, before>>

\* A signal before the moves leaves only the locks to release.
Signal(c) ==
    /\ pc[c] \in {"create", "break", "createAgain", "recheck"}
    /\ At(c, "release", 1)
    /\ UNCHANGED <<treeVars, lockVars, moveVars>>

\* The staged directory goes back, if nothing is in its place.
UnwindIn(c) ==
    LET i == idx[c] IN
    /\ pc[c] = "unwindIn"
    /\ IF i \notin installed[c] THEN UNCHANGED <<dir, staged, broken>>
       ELSE \/ /\ i \notin staged[c]
               /\ dir[Target(c)] # Absent
               /\ dir' = [d \in Dest |-> IF d \in Within(Target(c)) THEN Absent ELSE dir[d]]
               /\ staged' = [staged EXCEPT ![c] = @ \cup {i}]
               /\ UNCHANGED broken
            \/ /\ broken' = [broken EXCEPT ![c] = TRUE]
               /\ UNCHANGED <<dir, staged>>
    /\ Goto(c, "unwindAside")
    /\ UNCHANGED <<head, saved, late, lostEdits, lockVars, backup, moved, installed, before, idx>>

UnwindLastOnly(c) ==
    LET i == idx[c] IN
    /\ pc[c] = "unwindAside"
    /\ IF i \notin moved[c] THEN UNCHANGED <<dir, backup, broken>>
       ELSE \/ /\ dir[Target(c)] = Absent
               /\ dir' = [d \in Dest |-> IF d \in Within(Target(c)) THEN backup[c][d] ELSE dir[d]]
               /\ backup' = [backup EXCEPT ![c] =
                      [d \in Dest |-> IF d \in Within(Target(c)) THEN Absent ELSE @[d]]]
               /\ UNCHANGED broken
            \/ /\ broken' = [broken EXCEPT ![c] = TRUE]
               /\ UNCHANGED <<dir, backup>>
    /\ At(c, "release", 1)
    /\ UNCHANGED <<head, saved, late, lostEdits, lockVars, staged, moved, installed, before>>

\* The old mirror goes back, if its place is free.
UnwindAside(c) ==
    LET i == idx[c] IN
    /\ pc[c] = "unwindAside"
    /\ IF i \notin moved[c] THEN UNCHANGED <<dir, backup, broken>>
       ELSE \/ /\ dir[Target(c)] = Absent
               /\ dir' = [d \in Dest |-> IF d \in Within(Target(c)) THEN backup[c][d] ELSE dir[d]]
               /\ backup' = [backup EXCEPT ![c] =
                      [d \in Dest |-> IF d \in Within(Target(c)) THEN Absent ELSE @[d]]]
               /\ UNCHANGED broken
            \/ /\ broken' = [broken EXCEPT ![c] = TRUE]
               /\ UNCHANGED <<dir, backup>>
    /\ IF i > 1 THEN At(c, "unwindIn", i - 1) ELSE At(c, "release", 1)
    /\ UNCHANGED <<head, saved, late, lostEdits, lockVars, staged, moved, installed, before>>

\* kill -9, wherever the command is
Kill(c) ==
    /\ Alive(c)
    /\ Ends(c)
    /\ UNCHANGED <<treeVars, lock, raced, backup>>

-----------------------------------------------------------------------------
(* Developers *)

\* One edit of a mirror in place.
Edit(d) ==
    /\ saved = {} /\ lostEdits = {}
    /\ \A e \in Dest : dir[e] # "edit" /\ \A c \in Command : backup[c][e] # "edit"
    /\ dir[d] # Absent
    /\ dir' = [dir EXCEPT ![d] = "edit"]
    /\ late' = IF \E c \in Command : Moving(c) /\ d \in Dests(c)
               THEN late \cup {d} ELSE late \ {d}
    /\ UNCHANGED <<head, saved, lostEdits, lockVars, moveVars, pc, idx>>

\* git commit of what is in place, or git restore of what is committed
Commit(d) ==
    /\ dir[d] \notin {Absent, head[d]}
    /\ head' = [head EXCEPT ![d] = dir[d]]
    /\ saved' = IF dir[d] = "edit" THEN saved \cup {d} ELSE saved
    /\ UNCHANGED <<dir, late, lostEdits, lockVars, moveVars, pc, idx>>

-----------------------------------------------------------------------------
Proceed(c) ==
    \/ Stage(c) \/ CreateLock(c) \/ JudgeHolder(c) \/ BreakLock(c) \/ LoseRetry(c)
    \/ ReleaseLocks(c) \/ Recheck(c) \/ MoveAside(c) \/ NoteAside(c) \/ MoveIn(c)
    \/ NoteIn(c) \/ Disarm(c) \/ LeaveTry(c) \/ DiscardBackup(c) \/ UnwindIn(c) \/ UnwindAside(c)

Next ==
    \/ \E c \in Command : Proceed(c) \/ Unwind(c) \/ StopPipeline(c) \/ Signal(c) \/ Kill(c)
    \/ (\E d \in Editable : Edit(d)) \/ (\E d \in Dest : Commit(d))

Spec == Init /\ [][Next]_vars

-----------------------------------------------------------------------------
PC == {"idle", "create", "break", "createAgain", "recheck", "aside", "asideDone", "in",
       "inDone", "disarm", "discard", "unwindIn", "unwindAside", "release", "over"}

LockFile == Command \cup {NoLock}

TypeOK ==
    /\ dir \in [Dest -> Content \cup {Absent}]
    /\ head \in [Dest -> Content]
    /\ saved \subseteq Dest /\ late \subseteq Dest /\ lostEdits \subseteq Dest
    /\ lock \in [Dest -> LockFile]
    /\ raced \in BOOLEAN
    /\ staged \in [Command -> SUBSET Nat]
    /\ backup \in [Command -> [Dest -> Content \cup {Absent}]]
    /\ pc \in [Command -> PC]
    /\ idx \in [Command -> Nat]
    /\ acquired \in [Command -> SUBSET Dest]
    /\ moved \in [Command -> SUBSET Nat] /\ installed \in [Command -> SUBSET Nat]
    /\ before \in [Command -> [Dest -> Content \cup {Absent}]]
    /\ broken \in [Command -> BOOLEAN]

\* A mirror that is not in place is in the backup of some command: no order of
\* failures, signals, kills and commands of either shell deletes the old
\* directory before a whole new one stands (replace_mirror.sh 365-390), as long
\* as no lock was taken from a running command.
MirrorIsSomewhere ==
    \A d \in Dest : dir[d] = Absent => raced \/ \E c \in Command : backup[c][d] # Absent

\* A developer's edit goes with a discarded copy only when it was made after
\* the recheck under the locks and while the command was moving mirrors: what is
\* saved in a mirror already installed is in nobody's copy (the comment at
\* replace_mirror.sh 358).
OnlyLateEditsAreLost == lostEdits \subseteq late

\* It moves mirrors or moves them back.  The deletion of its copies is no part
\* of it: PowerShell deletes them when its lock files are gone.
Working(c) == Moving(c) \/ pc[c] \in {"unwindIn", "unwindAside"}

\* Commands that overlap, a schema mirror and the ords mirror inside it too,
\* never move at the same time unless a running command's lock was removed.
OverlappingMovesExclude ==
    \A a, b \in Command :
        a # b /\ Working(a) /\ Working(b) => raced \/ Dests(a) \cap Dests(b) = {}

\* A replacement that fails gives every mirror back: once it has unwound
\* without a failed step, what it had moved is what it found at the recheck,
\* or has been edited since.
UnwoundIsUnchanged ==
    \A c \in Command :
        pc[c] = "release" /\ moved[c] \cup installed[c] # {} /\ ~broken[c] =>
            raced \/ \A d \in Dests(c) : dir[d] \in {before[c][d], "edit"}

\* "Same-impl contention is always detected exactly" (replace_mirror.sh 199).
SameShellExcludes ==
    \A a, b \in Command :
        a # b /\ Impl[a] = Impl[b] /\ Working(a) /\ Working(b) => Dests(a) \cap Dests(b) = {}

\* Whatever a replacement meets, the mirror survives it: it is in place or in a
\* backup, and as it was if the replacement was unwound.
MirrorIsKept == MirrorIsSomewhere /\ UnwoundIsUnchanged

-----------------------------------------------------------------------------
(* The inductive invariant behind these properties, in parts: who has which  *)
(* lock, where the edit can be, and how far each command is with each of its *)
(* pairs.                                                                    *)

Early(c) == pc[c] \in {"idle", "create", "break", "createAgain", "recheck"}
Unwinding(c) == pc[c] \in {"unwindIn", "unwindAside"}

\* A command that relies on its locks: it works, or has unwound its work and
\* not yet given them back.
Holding(c) == Working(c) \/ (pc[c] = "release" /\ moved[c] \cup installed[c] # {})

\* The index is a lock's place or a pair.
InBounds ==
    \A c \in Command :
        /\ pc[c] \in {"create", "break", "createAgain"} => idx[c] \in LockPlaces(c)
        /\ Working(c) \/ pc[c] = "discard" => idx[c] \in PairSet(c)

Locks(c) == {LockAt(c, k) : k \in LockPlaces(c)}

OwnsLocks(c) ==
    /\ pc[c] = "idle" => acquired[c] = {}
    /\ Alive(c) => \A d \in acquired[c] : lock[d] = c
    /\ pc[c] \in {"create", "break", "createAgain"} =>
           \A k \in LockPlaces(c) : k < idx[c] => LockAt(c, k) \in acquired[c]
    /\ pc[c] = "recheck" \/ Holding(c) => Locks(c) \subseteq acquired[c]

\* An edit that nobody has committed can be moved aside only by a command that
\* had looked before.
EditIsKnown ==
    /\ \A d \in Dest : head[d] = "edit" => d \in saved
    /\ \A c \in Command, d \in Dest : backup[c][d] = "edit" => d \in saved \cup late
    /\ \A c \in Command : Moving(c) => \A d \in Dests(c) : dir[d] = "edit" => d \in saved \cup late
    /\ OnlyLateEditsAreLost

\* A copy that its command is not about to delete
InBackup(d) == \E c \in Command : pc[c] # "discard" /\ backup[c][d] # Absent

\* That is what a mirror that is not in place needs.
AbsentIsKept == \A d \in Dest : dir[d] = Absent => InBackup(d)

\* A command has copies of its own destinations only.
CopiesAreOwn == \A c \in Command, d \in Dest : backup[c][d] # Absent => d \in Dests(c)

\* Nothing is in place inside a schema mirror that is not.
NoOrphan == \A d \in Dest : Parent[d] # NoDest /\ dir[Parent[d]] = Absent => dir[d] = Absent

Area(c, i) == Within(Pairs[c][i])
IsFilled(c, i) == \A d \in Area(c, i) : dir[d] # Absent
IsEmpty(c, i) == \A d \in Area(c, i) : dir[d] = Absent
AsBefore(c, i) == \A d \in Area(c, i) : dir[d] \in {before[c][d], "edit"}

\* Nothing has happened to the pair.
Untouched(c, i) ==
    /\ i \notin moved[c] \cup installed[c]
    /\ AsBefore(c, i)
    /\ \A d \in Area(c, i) : backup[c][d] = Absent

\* What was in place is the backup, if anything was.
Secured(c, i) ==
    /\ \A d \in Area(c, i) : backup[c][d] \in {before[c][d], "edit"} /\ InBackup(d)
    /\ backup[c][Pairs[c][i]] = Absent => \A d \in Area(c, i) : backup[c][d] = Absent
Noted(c, i) == i \in moved[c] <=> backup[c][Pairs[c][i]] # Absent

\* The schema mirror around what was moved aside is in place.
HasRoom(c, i) ==
    Parent[Pairs[c][i]] # NoDest /\ backup[c][Pairs[c][i]] # Absent => dir[Parent[Pairs[c][i]]] # Absent

Replaced(c, i) == Secured(c, i) /\ Noted(c, i) /\ IsFilled(c, i) /\ i \in installed[c] /\ HasRoom(c, i)

MoveProgress(c) ==
    LET n == idx[c] IN
    /\ pc[c] \in {"aside", "asideDone", "in", "inDone"} =>
           /\ \A i \in PairSet(c) : i < n => Replaced(c, i)
           /\ \A i \in PairSet(c) : i > n => Untouched(c, i)
    /\ pc[c] = "aside" => Untouched(c, n)
    /\ pc[c] \in {"asideDone", "in", "inDone"} => Secured(c, n) /\ HasRoom(c, n) /\ n \notin installed[c]
    /\ pc[c] \in {"asideDone", "in"} => IsEmpty(c, n)
    /\ pc[c] = "asideDone" => n \notin moved[c] /\ backup[c][Pairs[c][n]] # Absent
    /\ pc[c] \in {"in", "inDone"} => Noted(c, n)
    /\ pc[c] = "inDone" => IsFilled(c, n)
    /\ pc[c] = "disarm" => \A i \in PairSet(c) : Replaced(c, i)

\* What a rollback meets at a pair it has still to undo, when no step of it has
\* failed: untouched, installed, or moved aside only.
ToUndo(c, i) ==
    \/ Untouched(c, i)
    \/ Replaced(c, i)
    \/ Secured(c, i) /\ Noted(c, i) /\ HasRoom(c, i) /\ IsEmpty(c, i) /\ i \notin installed[c]

UnwindProgress(c) ==
    LET n == idx[c] IN
    /\ \A i \in PairSet(c) : i <= n =>
           /\ i \in moved[c] \cup installed[c] => \A d \in Area(c, i) : InBackup(d)
           /\ i \in moved[c] => backup[c][Pairs[c][i]] # Absent
           /\ HasRoom(c, i)
    /\ ~broken[c] =>
           /\ \A i \in PairSet(c) : i > n => AsBefore(c, i)
           /\ \A i \in PairSet(c) : i < n => ToUndo(c, i)
           /\ pc[c] = "unwindIn" => ToUndo(c, n)
           /\ pc[c] = "unwindAside" =>
                  \/ Untouched(c, n)
                  \/ Secured(c, n) /\ Noted(c, n) /\ HasRoom(c, n) /\ IsEmpty(c, n)

Progress(c) ==
    /\ Early(c) => moved[c] = {} /\ installed[c] = {} /\ ~broken[c] /\ \A d \in Dest : backup[c][d] = Absent
    /\ Moving(c) => MoveProgress(c) /\ ~broken[c]
    /\ pc[c] = "discard" => moved[c] = {} /\ installed[c] = {}
    /\ Unwinding(c) => UnwindProgress(c)
    /\ pc[c] = "release" /\ moved[c] \cup installed[c] # {} /\ ~broken[c] =>
           \A i \in PairSet(c) : AsBefore(c, i)

IndInv ==
    /\ TypeOK
    /\ InBounds
    /\ EditIsKnown
    /\ CopiesAreOwn
    /\ ~raced => NoOrphan /\ AbsentIsKept /\ \A c \in Command : OwnsLocks(c) /\ Progress(c)

=============================================================================
