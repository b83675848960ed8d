-------------------------- MODULE LocalStateIndex --------------------------
(***************************************************************************)
(* The update protocol of releases/.local-state.json                       *)
(* (scripts/release_state.py): an O_EXCL lock file, load, the caller's     *)
(* update, a copy of a schema-1 original kept on first migration, a        *)
(* temporary file, os.replace, and the removal of the lock file.  Every    *)
(* step can fail, and the process can be killed between any two of them.   *)
(*                                                                         *)
(* Every process makes one update; the index is the set of the processes   *)
(* whose update it contains.                                               *)
(***************************************************************************)
EXTENDS FiniteSets

CONSTANTS Process, NoProcess

ASSUME NoProcessAssumption == NoProcess \notin Process

VARIABLES
    pc,        \* where each process is
    lock,      \* whose token the lock file carries, or NoProcess: no file
    index,     \* contents of the index file
    copy,      \* the index each process has in memory
    legacy,    \* the index file still has schema 1
    retained   \* the copy of the schema-1 file: "absent", "partial", "complete"

vars == <<pc, lock, index, copy, legacy, retained>>

\* Inside the lock, and the answers a caller can get.
Inside == {"created", "locked", "loaded", "updated", "retaining", "ready",
           "replaced", "checking", "failing"}
Stopped == {"dead", "stranded"}
Answered == {"done", "checked", "failed", "refused"} \cup Stopped

\* What the caller of p knows: a stranded update has failed.
Told(p) ==
    IF pc[p] = "stranded" THEN "failed" ELSE IF pc[p] \in Answered THEN pc[p] ELSE "pending"

Goto(p, label) == pc' = [pc EXCEPT ![p] = label]

-----------------------------------------------------------------------------
\* Mutant: the existing lock file is overwritten.
AcquireAnyway(p) ==
    /\ pc[p] = "idle"
    /\ lock' = p
    /\ Goto(p, "created")
    /\ UNCHANGED <<index, copy, legacy, retained>>

\* os.open with O_EXCL: the file is created or the caller is refused.
Acquire(p) ==
    /\ pc[p] = "idle"
    /\ lock = NoProcess
    /\ lock' = p
    /\ Goto(p, "created")
    /\ UNCHANGED <<index, copy, legacy, retained>>

Refuse(p) ==
    /\ pc[p] = "idle"
    /\ lock # NoProcess
    /\ Goto(p, "refused")
    /\ UNCHANGED <<lock, index, copy, legacy, retained>>

\* The lock file gets its token, or stays unreadable: then _writer_lock
\* cannot recognise its own lock and leaves it, with its process alive.
WriteToken(p) ==
    /\ pc[p] = "created"
    /\ \/ Goto(p, "locked")
       \/ Goto(p, "stranded")
    /\ UNCHANGED <<lock, index, copy, legacy, retained>>

\* _load_index_with_migration.
Load(p) ==
    /\ pc[p] = "locked"
    /\ copy' = [copy EXCEPT ![p] = index]
    /\ Goto(p, "loaded")
    /\ UNCHANGED <<lock, index, legacy, retained>>

\* assert_checkpoint_allowed only looks.
Check(p) ==
    /\ pc[p] = "loaded"
    /\ Goto(p, "checking")
    /\ UNCHANGED <<lock, index, copy, legacy, retained>>

\* The caller's update of the copy in memory.
Update(p) ==
    /\ pc[p] = "loaded"
    /\ copy' = [copy EXCEPT ![p] = @ \cup {p}]
    /\ Goto(p, IF legacy THEN "updated" ELSE "ready")
    /\ UNCHANGED <<lock, index, legacy, retained>>

\* Mutant: the copy of the original may be finished after the migration.
BeginRetainingLazily(p) ==
    /\ pc[p] = "updated"
    /\ retained = "absent"
    /\ retained' = "partial"
    /\ Goto(p, "ready")
    /\ UNCHANGED <<lock, index, copy, legacy>>

\* _retain_legacy_index creates the copy of the original with O_EXCL ...
BeginRetaining(p) ==
    /\ pc[p] = "updated"
    /\ retained = "absent"
    /\ retained' = "partial"
    /\ Goto(p, "retaining")
    /\ UNCHANGED <<lock, index, copy, legacy>>

\* ... and writes it.
FinishRetaining(p) ==
    /\ pc[p] = "retaining"
    /\ retained' = "complete"
    /\ Goto(p, "ready")
    /\ UNCHANGED <<lock, index, copy, legacy>>

\* A copy with the same bytes is kept, one with other bytes is an error.
FoundRetained(p) ==
    /\ pc[p] = "updated"
    /\ retained # "absent"
    /\ Goto(p, IF retained = "complete" THEN "ready" ELSE "failing")
    /\ UNCHANGED <<lock, index, copy, legacy, retained>>

\* _write_index: the complete temporary file replaces the index.
Replace(p) ==
    /\ pc[p] = "ready"
    /\ index' = copy[p]
    /\ legacy' = FALSE
    /\ Goto(p, "replaced")
    /\ UNCHANGED <<lock, copy, retained>>

\* An unreadable index, a refused update, a full disk, a chmod error: the
\* last one after the index was replaced.
Fail(p) ==
    /\ pc[p] \in {"locked", "loaded", "updated", "retaining", "ready", "replaced"}
    /\ Goto(p, "failing")
    /\ UNCHANGED <<lock, index, copy, legacy, retained>>

\* Mutant: a failed update leaves its lock file.
UnlockAfterSuccess(p) ==
    /\ pc[p] \in {"replaced", "checking", "failing"}
    /\ lock' = IF pc[p] = "failing" THEN lock ELSE NoProcess
    /\ Goto(p, CASE pc[p] = "replaced" -> "done"
                 [] pc[p] = "checking" -> "checked"
                 [] OTHER -> "failed")
    /\ UNCHANGED <<index, copy, legacy, retained>>

\* The finally block of _writer_lock removes the file if it carries its own
\* token; otherwise it leaves the file and reports a failure.
Unlock(p) ==
    /\ pc[p] \in {"replaced", "checking", "failing"}
    /\ IF lock = p
       THEN /\ lock' = NoProcess
            /\ Goto(p, CASE pc[p] = "replaced" -> "done"
                         [] pc[p] = "checking" -> "checked"
                         [] OTHER -> "failed")
       ELSE Goto(p, "failed") /\ UNCHANGED lock
    /\ UNCHANGED <<index, copy, legacy, retained>>

\* kill -9: the lock file and an unfinished copy stay.
Crash(p) ==
    /\ pc[p] \in Inside
    /\ Goto(p, "dead")
    /\ UNCHANGED <<lock, index, copy, legacy, retained>>

\* The operator removes a lock file that no process will remove.
Reconcile ==
    /\ lock # NoProcess
    /\ pc[lock] \in Stopped
    /\ lock' = NoProcess
    /\ UNCHANGED <<pc, index, copy, legacy, retained>>

-----------------------------------------------------------------------------
Init ==
    /\ pc = [p \in Process |-> "idle"]
    /\ lock = NoProcess
    /\ index = {}
    /\ copy = [p \in Process |-> {}]
    /\ legacy \in BOOLEAN
    /\ retained = "absent"

Step(p) ==
    \/ Acquire(p) \/ Refuse(p) \/ WriteToken(p) \/ Load(p) \/ Check(p) \/ Update(p)
    \/ BeginRetaining(p) \/ FinishRetaining(p) \/ FoundRetained(p)
    \/ Replace(p) \/ Fail(p) \/ Unlock(p)

Next == (\E p \in Process : Step(p) \/ Crash(p)) \/ Reconcile

Spec == Init /\ [][Next]_vars

\* A process that is not killed runs on; nothing obliges it to start, nor
\* the operator to reconcile.
Fairness == \A p \in Process : WF_vars(pc[p] # "idle" /\ Step(p))

FairSpec == Spec /\ Fairness

-----------------------------------------------------------------------------
TypeOK ==
    /\ pc \in [Process -> Inside \cup Answered \cup {"idle"}]
    /\ lock \in Process \cup {NoProcess}
    /\ index \subseteq Process
    /\ copy \in [Process -> SUBSET Process]
    /\ legacy \in BOOLEAN
    /\ retained \in {"absent", "partial", "complete"}

\* At most one process is between the lock and the unlock, and the lock file
\* names it; a lock file without such a process was left by one that died or
\* could not write its token.
LockNamesItsHolder ==
    /\ \A p \in Process : pc[p] \in Inside => lock = p
    /\ lock # NoProcess => pc[lock] \in Inside \cup Stopped

\* The schema-1 original is on disk, whole, before the index stops being it:
\* a process killed anywhere in the first migration loses no old record.
OriginalIsKept ==
    [][legacy /\ ~legacy' => retained = "complete"]_vars

Abstract == INSTANCE AtomicIndex WITH result <- [p \in Process |-> Told(p)]

\* The protocol keeps the promise of AtomicIndex: no lost update, no
\* refused update that is applied, no success that is not.
IsAtomic == Abstract!Spec

\* A process that is not killed and could write its token gives the lock
\* back, however its update ends.
LockIsReleased == \A p \in Process : lock = p ~> lock # p \/ pc[p] \in Stopped

\* "reconcile it explicitly before retrying": once the lock of a dead
\* process is removed, an update is possible again.
RetryIsPossible == legacy /\ lock = NoProcess => retained # "partial"
=============================================================================
