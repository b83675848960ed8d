--------------------------- MODULE TemplateUpgrade --------------------------
(***************************************************************************)
(* scripts/upgrade_template.py: upgrades of one project to newer versions  *)
(* of its template, one after another or side by side.  An upgrade         *)
(* compares every managed file with the version that the lock file says    *)
(* was installed and with the new one, decides per file, and then, file by *)
(* file, moves the old one aside, compares what it moved with what it had  *)
(* planned for, and installs the new one where nothing may be.  After a    *)
(* failure or Ctrl-C it takes these steps back, last one first.            *)
(*                                                                         *)
(* The contents of a file are a sequence: <<>> when it is absent, <<v>>    *)
(* for the version v of the template, <<s>> for a save of the developer.   *)
(* The lock file holds one version for each managed file.                  *)
(***************************************************************************)
EXTENDS Naturals, Sequences, FiniteSets, SequencesExt, Functions

CONSTANTS
    Upgrade,      \* runs of the command
    Version,      \* the version an upgrade goes to
    Managed,      \* sequence of the template-owned files
    Order,        \* the files as sorted: managed ones, candidates, the lock
    Offers,       \* file -> contents in each version, <<>> when it has none
    Candidate,    \* managed file -> its .template-new file
    Developers,   \* set of contents that a developer can save
    MaxSaves      \* bound: saves, deletions of the developer

Lock == "lock"
Absent == <<>>
Owned == Range(Managed)
Files == Range(Order)

VARIABLES
    file,         \* the working tree
    head,         \* what is committed
    saves,        \* steps of the developer
    own,          \* the developer's last word on a file, if he had one
    torn,         \* a step nobody promises anything about has happened
    alone,        \* no upgrade was started beside another one
    pc, i,        \* step of an upgrade, and what it takes back next
    recorded,     \* the lock file as it was read
    ops,          \* what it is still to do: [path, write, expect]
    backup,       \* what it has moved aside into its scratch directory
    done,         \* mutations: [path, write, expect, had, moved, ready, installed]
    scratch,      \* its scratch directory exists
    why,          \* why it is undone: "error", "interrupt"
    kept,         \* it could not undo everything
    exit          \* its exit status

tree == <<file, head, saves, own>>
run == <<i, recorded, ops, backup, done, scratch, why, kept>>
vars == <<tree, torn, alone, pc, run, exit>>

\* Without a lock file nothing is recorded as installed.
Installed(lock, p) == IF lock = Absent THEN 0 ELSE lock[CHOOSE k \in DOMAIN Managed : Managed[k] = p]

\* The lock file of a version: what it offers, 0 for what it does not have.
LockOf(v) == [k \in DOMAIN Managed |-> IF Offers[Managed[k]][v] = Absent THEN 0 ELSE Offers[Managed[k]][v][1]]

Init ==
    /\ file = [p \in Files |-> IF p = Lock THEN LockOf(1)
                               ELSE IF p \in Owned THEN Offers[p][1] ELSE Absent]
    /\ head = file
    /\ saves = 0 /\ torn = FALSE /\ alone = TRUE
    /\ own = [p \in Owned |-> Absent]
    /\ pc = [u \in Upgrade |-> "check"]
    /\ i = [u \in Upgrade |-> 0]
    /\ recorded = [u \in Upgrade |-> file[Lock]]
    /\ ops = [u \in Upgrade |-> {}]
    /\ backup = [u \in Upgrade |-> [p \in Files |-> Absent]]
    /\ done = [u \in Upgrade |-> <<>>]
    /\ scratch = [u \in Upgrade |-> FALSE]
    /\ why = [u \in Upgrade |-> "none"]
    /\ kept = [u \in Upgrade |-> FALSE]
    /\ exit = [u \in Upgrade |-> 0]

Goto(u, l) == pc' = [pc EXCEPT ![u] = l]
End(u, code) == exit' = [exit EXCEPT ![u] = code] /\ Goto(u, "end")

-----------------------------------------------------------------------------
(* Check and plan *)

\* check_project: nothing uncommitted, no candidate, no scratch directory.
Clean ==
    /\ file = head /\ \A u \in Upgrade : ~scratch[u]
    /\ \A p \in Owned : file[Candidate[p]] = Absent

Check(u) ==
    /\ pc[u] = "check"
    /\ IF Clean THEN Goto(u, "lock") /\ UNCHANGED exit ELSE End(u, 2)
    /\ alone' = (alone /\ \A o \in Upgrade : pc[o] \in {"check", "end"})
    /\ UNCHANGED <<tree, torn, run>>

ReadLock(u) ==
    /\ pc[u] = "lock"
    /\ recorded' = [recorded EXCEPT ![u] = file[Lock]]
    /\ Goto(u, "plan")
    /\ UNCHANGED <<tree, torn, alone, i, ops, backup, done, scratch, why, kept, exit>>

New(u, p) == Offers[p][Version[u]]

\* What plan_upgrade decides about a file that the version offers, or offered.
Kind(u, p) ==
    LET last == Installed(recorded[u], p)
        local == file[p]
    IN IF New(u, p) = Absent
         THEN IF last = 0 \/ local = Absent THEN "NONE"
              ELSE IF <<last>> = local THEN "DELETE" ELSE "KEEP-REMOVED"
       ELSE IF local = Absent THEN IF last = 0 THEN "CREATE" ELSE "KEEP-DELETED"
       ELSE CASE local = New(u, p) -> "UNCHANGED"
              [] local # New(u, p) /\ <<last>> = local -> "UPDATE"
              [] local # New(u, p) /\ <<last>> = New(u, p) -> "KEEP-LOCAL"
              [] OTHER -> "CONFLICT"

\* Every offered version is recorded, also of a file that is kept.
NewLock(u) == LockOf(Version[u])

Op(p, write, expect) == [path |-> p, write |-> write, expect |-> expect]

\* What is to be done about a file: one operation, or none.
Operation(u, p) ==
    IF p = Lock THEN {Op(Lock, NewLock(u), recorded[u])}
    ELSE IF p \in Owned
      THEN CASE Kind(u, p) \in {"CREATE", "UPDATE"} -> {Op(p, New(u, p), file[p])}
             [] Kind(u, p) = "DELETE" -> {Op(p, Absent, file[p])}
             [] OTHER -> {}
    ELSE {Op(p, New(u, q), Absent) : q \in {r \in Owned : Candidate[r] = p /\ Kind(u, r) = "CONFLICT"}}

\* Files are deleted first, otherwise they come in their order.
Position(p) == CHOOSE k \in DOMAIN Order : Order[k] = p
Precedes(a, b) ==
    IF (a.write = Absent) = (b.write = Absent) THEN Position(a.path) < Position(b.path) ELSE a.write = Absent

Plan(u) ==
    /\ pc[u] = "plan"
    /\ IF \E p \in Owned : Kind(u, p) = "CONFLICT" /\ file[Candidate[p]] # Absent
         THEN End(u, 2) /\ UNCHANGED ops
         ELSE /\ ops' = [ops EXCEPT ![u] = UNION {Operation(u, p) : p \in Files}]
              /\ Goto(u, "stage") /\ UNCHANGED exit
    /\ UNCHANGED <<tree, torn, alone, i, recorded, backup, done, scratch, why, kept>>

\* Everything is staged in a scratch directory before a file is touched.
Stage(u) ==
    /\ pc[u] = "stage"
    /\ \/ /\ scratch' = [scratch EXCEPT ![u] = TRUE]
          /\ Goto(u, "move") /\ UNCHANGED exit
       \/ End(u, 2) /\ UNCHANGED scratch
    /\ UNCHANGED <<tree, torn, alone, i, recorded, ops, backup, done, why, kept>>

-----------------------------------------------------------------------------
(* The operations *)

\* the operation that is under way, or was the last one
This(u) == done[u][Len(done[u])]
Mark(u, field) == done' = [done EXCEPT ![u][Len(done[u])][field] = TRUE]

Undo(u, reason) ==
    /\ why' = [why EXCEPT ![u] = reason]
    /\ i' = [i EXCEPT ![u] = Len(done'[u])]
    /\ Goto(u, "undo")

\* A signal can arrive before the move is noted down.
MoveAside(u) ==
    /\ pc[u] = "move"
    /\ \E o \in ops[u] :
        LET p == o.path
            present == file[p] # Absent
            m == [path |-> p, write |-> o.write, expect |-> o.expect, had |-> present,
                  moved |-> FALSE, ready |-> FALSE, installed |-> FALSE] IN
        /\ \A q \in ops[u] \ {o} : Precedes(o, q)
        /\ ops' = [ops EXCEPT ![u] = @ \ {o}]
        /\ file' = [file EXCEPT ![p] = Absent]
        /\ backup' = [backup EXCEPT ![u][p] = file[p]]
        /\ \/ /\ done' = [done EXCEPT ![u] = Append(@, [m EXCEPT !.moved = present])]
              /\ Goto(u, "compare") /\ UNCHANGED <<i, why>>
           \/ done' = [done EXCEPT ![u] = Append(@, m)] /\ Undo(u, "interrupt")
    /\ UNCHANGED <<head, saves, own, alone, torn, recorded, scratch, kept, exit>>

(* Mutant: a file that was saved after the plan is not recognized. *)
AsPlannedMoved(u) == (backup[u][This(u).path] = Absent) = (This(u).expect = Absent)

\* What was really moved aside is what the decision was about.
AsPlanned(u) == backup[u][This(u).path] = This(u).expect

Continue(u) == Goto(u, "move") /\ UNCHANGED <<i, why>>

Compare(u) ==
    /\ pc[u] = "compare"
    /\ IF ~AsPlanned(u) THEN UNCHANGED done /\ Undo(u, "error")
       ELSE IF This(u).write = Absent THEN Continue(u) /\ UNCHANGED done
       ELSE Mark(u, "ready") /\ Goto(u, "install") /\ UNCHANGED <<i, why>>
    /\ UNCHANGED <<tree, torn, alone, recorded, ops, backup, scratch, kept, exit>>

\* os.link does not replace a file that has appeared in the meantime.
Install(u) ==
    /\ pc[u] = "install"
    /\ IF file[This(u).path] # Absent
         THEN UNCHANGED <<file, done>> /\ Undo(u, "error")
         ELSE /\ file' = [file EXCEPT ![This(u).path] = This(u).write]
              /\ \/ Mark(u, "installed") /\ Continue(u)
                 \/ UNCHANGED done /\ Undo(u, "interrupt")
    /\ UNCHANGED <<head, saves, own, alone, torn, recorded, ops, backup, scratch, kept, exit>>

RemoveScratch(u) ==
    /\ scratch' = [scratch EXCEPT ![u] = FALSE]
    /\ backup' = [backup EXCEPT ![u] = [p \in Files |-> Absent]]

\* The scratch directory is removed, then Graphify may be brought up to date.
Finish(u) ==
    /\ pc[u] = "move" /\ ops[u] = {}
    /\ RemoveScratch(u) /\ Goto(u, "sync")
    /\ UNCHANGED <<tree, torn, alone, i, recorded, ops, done, why, kept, exit>>

Sync(u) ==
    /\ pc[u] = "sync"
    /\ End(u, 0)
    /\ UNCHANGED <<tree, torn, alone, run>>

-----------------------------------------------------------------------------
(* The operations are taken back *)

Undone(u) == done[u][i[u]]
Forget(u, m) == done' = [done EXCEPT ![u][i[u]] = m]
NextUndo(u) == i' = [i EXCEPT ![u] = @ - 1] /\ Goto(u, "undo")

\* It may have been installed although that was not noted down.
Recognized(u) ==
    LET m == Undone(u)
    IN [m EXCEPT !.installed = @ \/ (m.ready /\ file[m.path] = m.write)]

(* Mutant: only what was noted down was moved. *)
ToRestoreByNote(u, m) == m.moved
ToRestore(u, m) == m.moved \/ (m.had /\ backup[u][m.path] # Absent)

Look(u) ==
    /\ pc[u] = "undo" /\ i[u] > 0
    /\ LET m == Recognized(u) IN
       /\ Forget(u, m)
       /\ IF \/ m.installed /\ file[m.path] \notin {Absent, m.write}
             \/ ~m.installed /\ ToRestore(u, m) /\ file[m.path] # Absent
            THEN kept' = [kept EXCEPT ![u] = TRUE] /\ NextUndo(u)
          ELSE IF m.installed /\ file[m.path] = m.write /\ m.write # Absent
            THEN Goto(u, "unlink") /\ UNCHANGED <<i, kept>>
          ELSE IF ToRestore(u, m) THEN Goto(u, "putback") /\ UNCHANGED <<i, kept>>
          ELSE NextUndo(u) /\ UNCHANGED kept
    /\ UNCHANGED <<tree, torn, alone, recorded, ops, backup, scratch, why, exit>>

\* What is there by now is removed or replaced, whatever it is.
Unlink(u) ==
    /\ pc[u] = "unlink"
    /\ file' = [file EXCEPT ![Undone(u).path] = Absent]
    /\ torn' = (torn \/ file[Undone(u).path] # Undone(u).write)
    /\ IF ToRestore(u, Undone(u)) THEN Goto(u, "putback") /\ UNCHANGED i ELSE NextUndo(u)
    /\ UNCHANGED <<head, saves, own, alone, recorded, ops, backup, done, scratch, why, kept, exit>>

PutBack(u) ==
    /\ pc[u] = "putback"
    /\ LET p == Undone(u).path IN
       /\ file' = [file EXCEPT ![p] = backup[u][p]]
       /\ backup' = [backup EXCEPT ![u][p] = Absent]
       /\ torn' = (torn \/ file[p] # Absent)
    /\ NextUndo(u)
    /\ UNCHANGED <<head, saves, own, alone, recorded, ops, done, scratch, why, kept, exit>>

\* The scratch directory stays if something could not be taken back.
EndUndo(u) ==
    /\ pc[u] = "undo" /\ i[u] = 0
    /\ IF kept[u] THEN UNCHANGED <<scratch, backup>> ELSE RemoveScratch(u)
    /\ End(u, IF why[u] = "interrupt" /\ ~kept[u] THEN 130 ELSE 2)
    /\ UNCHANGED <<tree, torn, alone, i, recorded, ops, done, why, kept>>

-----------------------------------------------------------------------------
(* Failures, the developer *)

Before == {"check", "lock", "plan", "stage"}
Working == {"move", "compare", "install"}
Undoing == {"undo", "unlink", "putback"}

\* A call of the file system fails.
Fail(u) ==
    /\ pc[u] \in Working
    /\ UNCHANGED <<tree, torn, alone, recorded, ops, backup, done, scratch, kept, exit>>
    /\ Undo(u, "error")

\* Ctrl-C or SIGTERM.  While it undoes, a second one ends that, and the scratch
\* directory is removed with what is still in it.
Interrupt(u) ==
    /\ UNCHANGED <<tree, alone, recorded, ops, done, kept>>
    /\ \/ pc[u] \in Working /\ Undo(u, "interrupt") /\ UNCHANGED <<torn, scratch, backup, exit>>
       \/ pc[u] \in Before \cup {"sync"} /\ End(u, 130) /\ UNCHANGED <<torn, i, why, scratch, backup>>
       \/ pc[u] \in Undoing /\ End(u, 130) /\ RemoveScratch(u) /\ torn' = TRUE /\ UNCHANGED <<i, why>>

Kill(u) ==
    /\ pc[u] \in Before \cup Working \cup Undoing \cup {"sync"}
    /\ End(u, 137)
    /\ UNCHANGED <<tree, torn, alone, run>>

\* A file is saved or deleted, a candidate is merged and deleted.
Edit(p, c) ==
    /\ saves < MaxSaves /\ saves' = saves + 1
    /\ p # Lock /\ file[p] # c
    /\ p \in Owned \/ c = Absent
    /\ file' = [file EXCEPT ![p] = c]
    /\ own' = IF p \in Owned THEN [own EXCEPT ![p] = c] ELSE own
    /\ UNCHANGED <<head, torn, alone, pc, run, exit>>

Commit ==
    /\ file # head /\ \A u \in Upgrade : pc[u] \in {"check", "end"}
    /\ head' = file
    /\ UNCHANGED <<file, saves, own, torn, alone, pc, run, exit>>

Step(u) ==
    \/ Check(u) \/ ReadLock(u) \/ Plan(u) \/ Stage(u)
    \/ MoveAside(u) \/ Compare(u) \/ Install(u) \/ Finish(u) \/ Sync(u)
    \/ Look(u) \/ Unlink(u) \/ PutBack(u) \/ EndUndo(u)
    \/ Fail(u) \/ Interrupt(u) \/ Kill(u)

Next == (\E u \in Upgrade : Step(u)) \/ (\E p \in Files, c \in Developers \cup {Absent} : Edit(p, c)) \/ Commit

Spec == Init /\ [][Next]_vars

-----------------------------------------------------------------------------
(* Properties *)

(* "Customized files are kept": what a developer saved, before an upgrade  *)
(* or in the middle of one, is in its file until he changes it himself, or *)
(* has been moved aside and is still there.  Two windows are excepted, and *)
(* named in torn: a save between the look and the step of an undo, and a   *)
(* second Ctrl-C during the undo.                                          *)
SavesAreKept ==
    \A p \in Owned : own[p] # Absent /\ ~torn =>
        file[p] = own[p] \/ \E u \in Upgrade : scratch[u] /\ backup[u][p] = own[p]

Quiet == \A u \in Upgrade : pc[u] \in {"check", "end"} /\ exit[u] # 137 /\ ~kept[u]

(* However upgrades fail and are interrupted, one after the other: once    *)
(* they have ended and had nothing to complain about, every file that      *)
(* holds a version of the template holds the one that the lock file        *)
(* records, and none is gone that nobody deleted.  The next upgrade would  *)
(* take an older one for customized and keep it for ever.                  *)
LockIsTrue ==
    Quiet /\ ~torn /\ alone =>
        \A p \in Owned :
            IF file[p] = Absent THEN saves > 0 \/ Installed(file[Lock], p) = 0
            ELSE file[p] \in Range(Offers[p]) => file[p] = <<Installed(file[Lock], p)>>

(* "If the upgrade is interrupted (Ctrl-C or `kill`), it puts back every   *)
(* file it had replaced and says `the project was left as it was`"         *)
(* (README.md:736): after one Ctrl-C, and exit status 130, the lock file   *)
(* still is the one that the upgrade began with.                           *)
InterruptedIsRestored ==
    \A u \in Upgrade : exit[u] = 130 /\ ~torn /\ (\A o \in Upgrade \ {u} : pc[o] = "check") =>
        file[Lock] = recorded[u]

-----------------------------------------------------------------------------
(* What SavesAreKept rests on *)

Versions == {1} \cup {Version[u] : u \in Upgrade}
Locks == {LockOf(v) : v \in Versions}
OfTemplate(p) == Range(Offers[p]) \ {Absent}
Content == {Absent} \cup Developers \cup UNION {OfTemplate(p) : p \in Owned}

\* A developer's own text is not that of a version.
ConstantsFit ==
    /\ Lock \in Files \ Owned /\ Owned \subseteq Files
    /\ Candidate \in [Owned -> Files \ (Owned \cup {Lock})]
    /\ \A p, q \in Owned : p # q => Candidate[p] # Candidate[q]
    /\ \A p \in Owned : Versions \subseteq DOMAIN Offers[p]
    /\ \A p \in Owned : \A c \in OfTemplate(p) : c[1] \in Nat \ {0} /\ c = <<c[1]>>
    /\ \A s \in Developers : s \notin {Absent, <<0>>} \cup UNION {OfTemplate(p) : p \in Owned}
    /\ Absent \notin Locks

Operations == [path : Files, write : Content \cup Locks, expect : Content \cup Locks]
Mutations == [path : Files, write : Content \cup Locks, expect : Content \cup Locks,
              had : BOOLEAN, moved : BOOLEAN, ready : BOOLEAN, installed : BOOLEAN]

TypeOK ==
    /\ file \in [Files -> Content \cup Locks] /\ file[Lock] \in Locks \cup {Absent}
    /\ \A p \in Owned : file[p] \in Content
    /\ saves \in Nat /\ own \in [Owned -> Developers \cup {Absent}]
    /\ torn \in BOOLEAN /\ alone \in BOOLEAN
    /\ pc \in [Upgrade -> Before \cup Working \cup Undoing \cup {"sync", "end"}]
    /\ i \in [Upgrade -> Nat]
    /\ recorded \in [Upgrade -> Locks \cup {Absent}]
    /\ ops \in [Upgrade -> SUBSET Operations]
    /\ backup \in [Upgrade -> [Files -> Content \cup Locks]]
    /\ \A u \in Upgrade : backup[u][Lock] \in Locks \cup {Absent}
    /\ \A u \in Upgrade : \A p \in Owned : backup[u][p] \in Content
    /\ done \in [Upgrade -> Seq(Mutations)]
    /\ scratch \in [Upgrade -> BOOLEAN] /\ kept \in [Upgrade -> BOOLEAN]
    /\ why \in [Upgrade -> {"none", "error", "interrupt"}]
    /\ exit \in [Upgrade -> {0, 2, 130, 137}]

\* What an operation on a managed file or on the lock file writes, and that it
\* was not decided on a developer's text.
Writes(u, o) ==
    /\ o.path \in Owned => o.write = New(u, o.path) /\ o.expect \notin Developers
    /\ o.path = Lock => o.write = NewLock(u)

\* Every file is the matter of at most one operation; what was moved aside is
\* that of one that was begun.
PlanFits(u) ==
    /\ \A o, q \in ops[u] : o.path = q.path => o = q
    /\ \A o \in ops[u] : Writes(u, o) /\ \A k \in DOMAIN done[u] : done[u][k].path # o.path
    /\ \A k \in DOMAIN done[u] : Writes(u, done[u][k])
    /\ \A k, l \in DOMAIN done[u] : k # l => done[u][k].path # done[u][l].path
    /\ \A p \in Files : backup[u][p] # Absent => \E k \in DOMAIN done[u] : done[u][k].path = p /\ done[u][k].had

Where(u) ==
    /\ pc[u] \in Working \cup Undoing => scratch[u]
    /\ pc[u] \in Before \cup Working => ~kept[u]
    /\ pc[u] \in Before => done[u] = <<>>
    /\ pc[u] \in {"compare", "install"} => done[u] # <<>>
    /\ pc[u] \in Undoing => i[u] \in 0 .. Len(done[u])
    /\ pc[u] \in {"unlink", "putback"} => i[u] \in DOMAIN done[u]
    /\ pc[u] # "end" => exit[u] = 0

(* A developer's text is in the backup of a running upgrade only between its *)
(* move and the comparison, or when it is undone before it gets there.       *)
SavesAside(u) ==
    \A p \in Owned : backup[u][p] \in Developers =>
        /\ pc[u] \notin {"move", "install"}
        /\ pc[u] = "compare" => p = This(u).path
        /\ pc[u] \in Undoing /\ ~kept[u] => \E k \in 1 .. i[u] : done[u][k].path = p

SavesInv == TypeOK /\ SavesAreKept /\ \A u \in Upgrade : PlanFits(u) /\ Where(u) /\ SavesAside(u)

-----------------------------------------------------------------------------
(* What LockIsTrue rests on *)

\* Contents that a managed file may have under a lock file.
Fits(lock, p, c) ==
    IF c = Absent THEN saves > 0 \/ Installed(lock, p) = 0
    ELSE c \in OfTemplate(p) => c = <<Installed(lock, p)>>

Active(u) == pc[u] \notin {"check", "end"}
Undisturbed ==
    ~torn /\ alone /\ \A u \in Upgrade : exit[u] # 137 /\ (pc[u] = "end" => ~kept[u])

Agree == file[Lock] \in Locks /\ \A p \in Owned : Fits(file[Lock], p, file[p])

Begun(u, p) == \E k \in DOMAIN done[u] : done[u][k].path = p
Planned(u, p) == \E o \in ops[u] : o.path = p
Current(u, p) == pc[u] \in {"compare", "install"} /\ This(u).path = p
ToUndo(u) == IF pc[u] \in Undoing THEN 1 .. i[u] ELSE DOMAIN done[u]

\* A file that no operation has touched, and one whose operation is complete.
Forward(u) ==
    /\ recorded[u] \in Locks /\ (Planned(u, Lock) \/ Begun(u, Lock))
    /\ \A p \in Owned :
        /\ ~Begun(u, p) => Fits(recorded[u], p, file[p])
        /\ ~Planned(u, p) /\ ~Current(u, p) => Fits(NewLock(u), p, file[p])
    /\ ~Begun(u, Lock) => file[Lock] = recorded[u]
    /\ Begun(u, Lock) /\ ~Current(u, Lock) => file[Lock] = NewLock(u)

\* An operation that may have to be taken back, and can be.
Reversible(u, m) ==
    /\ IF m.had THEN /\ backup[u][m.path] # Absent
                     /\ m.path \in Owned => Fits(recorded[u], m.path, backup[u][m.path])
                     /\ m.path = Lock => backup[u][Lock] = recorded[u]
        ELSE m.path # Lock /\ (m.path \in Owned => Fits(recorded[u], m.path, Absent))
    /\ m.path \in Owned /\ file[m.path] \in OfTemplate(m.path) => file[m.path] = m.write /\ m.ready
    /\ m.path = Lock => file[Lock] = Absent \/ (file[Lock] = m.write /\ m.ready)

Backward(u) ==
    /\ recorded[u] \in Locks
    /\ \A p \in Owned : (\A k \in ToUndo(u) : done[u][k].path # p) => Fits(recorded[u], p, file[p])
    /\ (\A k \in ToUndo(u) : done[u][k].path # Lock) => file[Lock] = recorded[u]

\* What holds while an upgrade runs that is the only one.
Underway(u) ==
    /\ pc[u] \in Before \cup {"sync"} => Agree
    /\ pc[u] \in {"plan", "stage"} => recorded[u] = file[Lock]
    /\ pc[u] \in Working \cup {"stage"} => Forward(u)
    /\ pc[u] = "install" => This(u).ready
    /\ pc[u] \in Undoing /\ ~kept[u] => Backward(u)
    /\ pc[u] \in Working \cup Undoing /\ ~kept[u] => \A k \in ToUndo(u) : Reversible(u, done[u][k])

LockInv ==
    /\ alone => \A u, o \in Upgrade : Active(u) /\ Active(o) => u = o
    /\ Undisturbed => IF \E u \in Upgrade : Active(u) THEN \A u \in Upgrade : Active(u) => Underway(u) ELSE Agree

=============================================================================
