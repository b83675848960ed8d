--------------------------- MODULE MigrationApply ---------------------------
(***************************************************************************)
(* `migrate` commands of one checkout (scripts/migrate.py,                 *)
(* migration_attempts.py, migration_revision.py).  Each member of Process  *)
(* is one command that applies a batch of migration folders, in order, to  *)
(* one environment.  A migration is not idempotent and Oracle commits DDL  *)
(* at once, so a folder whose SQL may have begun must never look free.     *)
(*                                                                         *)
(* The commands share, in the checkout and without any lock,               *)
(*   - the attempt events of each folder: a "pending" event per write      *)
(*     attempt and at most one terminal event after it, never replaced;    *)
(*   - one verified receipt per folder and environment, never replaced;    *)
(*   - one run directory per command under scratch/, which Git ignores     *)
(*     and anybody may delete: the run manifest and the SQLcl output.      *)
(* The SQL itself runs in an SQLcl session that may outlive its command.   *)
(***************************************************************************)
EXTENDS Naturals, Sequences

CONSTANTS
    Process,      \* the commands
    Folder,       \* reviewed migration folders
    Batch,        \* the folders each command selects, in order
    EnvOf,        \* the environment each command applies to
    NoProcess

Environment == {"dev", "staging", "prod"}

\* load_batch: at least one folder, and none twice.
ASSUME BatchAssumption ==
    /\ Batch \in [Process -> Seq(Folder)]
    /\ \A p \in Process :
         /\ Batch[p] # << >>
         /\ \A i, j \in 1..Len(Batch[p]) : Batch[p][i] = Batch[p][j] => i = j
    /\ EnvOf \in [Process -> Environment]
    /\ NoProcess \notin Process

VARIABLES
    \* the commands
    pc,         \* where each command is
    at,         \* index in its batch of the folder it is applying
    attempted,  \* its local flag: a write was attempted
    told,       \* what it has reported
    \* the checkout
    rundir,     \* its directory under scratch/: "none", "bare", "manifest"
    record,     \* state of each folder in its saved run manifest
    output,     \* folders whose retained SQLcl output proves that no payload began
    event,      \* last event of its attempt on each folder
    receipt,    \* whose receipt each folder and environment has
    \* the databases
    payload     \* what the session of each command did with each folder

command  == <<pc, at, attempted, told>>
scratch  == <<rundir, record, output>>
evidence == <<event, receipt>>
vars     == <<command, scratch, evidence, payload>>

\* "write-attempted" stands for every state that locks as it does: the
\* failed ones, the committed but not verified ones, and apply-not-started
\* without its event.
RecordState == {"frozen", "write-attempted", "apply-not-started", "verified"}
EventState  == {"none", "pending", "apply-not-started", "verified"}

PC == {"idle", "preparing", "checking", "boundary", "pended", "marked", "recorded",
       "applying", "proving", "proved", "verifying", "receipted", "closing",
       "removing", "ended", "crashed"}

Selected(p) == {Batch[p][i] : i \in 1..Len(Batch[p])}
Current(p)  == Batch[p][at[p]]
Slot(p)     == <<Current(p), EnvOf[p]>>
Goto(p, label) == pc' = [pc EXCEPT ![p] = label]

-----------------------------------------------------------------------------
(* inspect_migration_lock, for one environment *)

\* attempt_record_is_locked.
RecordLocks(state) == state \notin {"frozen", "apply-not-started"}

\* The evidence command q left keeps folder f locked.
LockedBy(q, f) ==
    \/ event[q][f] \in {"pending", "verified"}
    \/ rundir[q] = "manifest" /\ f \in Selected(q) /\ RecordLocks(record[q][f])

Locked(f, e) ==
    \/ receipt[<<f, e>>] # NoProcess
    \/ \E q \in Process : EnvOf[q] = e /\ LockedBy(q, f)

\* A no-write event counts only with the retained output that proves it.
NoEvidence(q, f) == event[q][f] = "apply-not-started" /\ f \notin output[q]

\* That output is missing, or no manifest says which folders a run directory is about.
Unclear(f, e) ==
    \/ \E q \in Process : rundir[q] = "bare"
    \/ \E q \in Process : EnvOf[q] = e /\ NoEvidence(q, f)

Unlocked(f, e) == ~Locked(f, e) /\ ~Unclear(f, e)

-----------------------------------------------------------------------------
(* Preparing a batch *)

\* The run directory and the frozen copy of the batch.
Begin(p) ==
    /\ pc[p] = "idle"
    /\ rundir' = [rundir EXCEPT ![p] = "bare"]
    /\ Goto(p, "preparing")
    /\ UNCHANGED <<at, attempted, told, record, output, evidence, payload>>

\* The preflight passed: the run manifest records every folder as frozen.
WriteManifest(p) ==
    /\ pc[p] = "preparing"
    /\ rundir' = [rundir EXCEPT ![p] = "manifest"]
    /\ Goto(p, "checking")
    /\ UNCHANGED <<at, attempted, told, record, output, evidence, payload>>

\* _verify_receipts_and_attempts, then the operator's confirmation and the
\* comparison of the folders with the reviewed bytes.
PassCheck(p) ==
    /\ pc[p] = "checking"
    /\ \A f \in Selected(p) : Unlocked(f, EnvOf[p])
    /\ Goto(p, "boundary")
    /\ UNCHANGED <<at, attempted, told, scratch, evidence, payload>>

\* Refused, declined, failed or interrupted before a write was attempted.
Abandon(p) ==
    /\ pc[p] \in {"preparing", "checking", "boundary", "pended"}
    /\ ~attempted[p]
    /\ told' = [told EXCEPT ![p] = "untouched"]
    /\ Goto(p, "removing")
    /\ UNCHANGED <<at, attempted, scratch, evidence, payload>>

\* safe_rmtree removes the run directory file by file and ignores errors.
RemoveManifest(p) ==
    /\ pc[p] = "removing"
    /\ rundir[p] = "manifest"
    /\ rundir' = [rundir EXCEPT ![p] = "bare"]
    /\ UNCHANGED <<command, record, output, evidence, payload>>

EndRemoval(p) ==
    /\ pc[p] = "removing"
    /\ \E left \in {rundir[p], "none"} : rundir' = [rundir EXCEPT ![p] = left]
    /\ Goto(p, "ended")
    /\ UNCHANGED <<at, attempted, told, record, output, evidence, payload>>

-----------------------------------------------------------------------------
(* Applying one folder *)

Record(p, state) == record' = [record EXCEPT ![p][Current(p)] = state]
Event(p, state)  == event' = [event EXCEPT ![p][Current(p)] = state]

\* The fresh preflight of the folder passed: the pending event is linked
\* into the folder before anything is sent.
WritePending(p) ==
    /\ pc[p] = "boundary"
    /\ Event(p, "pending")
    /\ Goto(p, "pended")
    /\ UNCHANGED <<at, attempted, told, scratch, receipt, payload>>

MarkAttempted(p) ==
    /\ pc[p] = "pended"
    /\ attempted' = [attempted EXCEPT ![p] = TRUE]
    /\ Goto(p, "marked")
    /\ UNCHANGED <<at, told, scratch, evidence, payload>>

SaveAttempt(p) ==
    /\ pc[p] = "marked"
    /\ Record(p, "write-attempted")
    /\ Goto(p, "recorded")
    /\ UNCHANGED <<at, attempted, told, rundir, output, evidence, payload>>

\* apply_folder starts SQLcl.
StartSession(p) ==
    /\ pc[p] = "recorded"
    /\ payload' = [payload EXCEPT ![p][Current(p)] = "connecting"]
    /\ Goto(p, "applying")
    /\ UNCHANGED <<at, attempted, told, scratch, evidence>>

\* Mutant: every session that failed is taken for one that did not begin.
SeeRefusalAlways(p) ==
    /\ pc[p] = "applying"
    /\ output' = [output EXCEPT ![p] = @ \cup {Current(p)}]
    /\ Goto(p, "proving")
    /\ UNCHANGED <<at, attempted, told, rundir, record, evidence, payload>>

\* The session ended and not_started_reason recognises its output.
SeeRefusal(p) ==
    /\ pc[p] = "applying"
    /\ payload[p][Current(p)] = "refused"
    /\ output' = [output EXCEPT ![p] = @ \cup {Current(p)}]
    /\ Goto(p, "proving")
    /\ UNCHANGED <<at, attempted, told, rundir, record, evidence, payload>>

\* Mutant: the no-write event is left out.
SkipNoWrite(p) ==
    /\ pc[p] = "proving"
    /\ Goto(p, "proved")
    /\ UNCHANGED <<at, attempted, told, scratch, evidence, payload>>

InstallNoWrite(p) ==
    /\ pc[p] = "proving"
    /\ Event(p, "apply-not-started")
    /\ Goto(p, "proved")
    /\ UNCHANGED <<at, attempted, told, scratch, receipt, payload>>

\* "no payload statement started; retry is permitted".
PermitRetry(p) ==
    /\ pc[p] = "proved"
    /\ Record(p, "apply-not-started")
    /\ told' = [told EXCEPT ![p] = "retry"]
    /\ Goto(p, "ended")
    /\ UNCHANGED <<at, attempted, rundir, output, evidence, payload>>

\* SQLcl completed every file and committed; the fresh verification runs.
SeeCommit(p) ==
    /\ pc[p] = "applying"
    /\ payload[p][Current(p)] = "committed"
    /\ Record(p, "write-attempted")
    /\ Goto(p, "verifying")
    /\ UNCHANGED <<at, attempted, told, rundir, output, evidence, payload>>

\* Mutant: a receipt that exists is replaced.
ReplaceReceipt(p) ==
    /\ pc[p] = "verifying"
    /\ receipt' = [receipt EXCEPT ![Slot(p)] = p]
    /\ Goto(p, "receipted")
    /\ UNCHANGED <<at, attempted, told, scratch, event, payload>>

\* The verification passed; install_receipt links the receipt into place.
InstallReceipt(p) ==
    /\ pc[p] = "verifying"
    /\ receipt[Slot(p)] = NoProcess
    /\ receipt' = [receipt EXCEPT ![Slot(p)] = p]
    /\ Goto(p, "receipted")
    /\ UNCHANGED <<at, attempted, told, scratch, event, payload>>

WriteVerified(p) ==
    /\ pc[p] = "receipted"
    /\ Event(p, "verified")
    /\ Goto(p, "closing")
    /\ UNCHANGED <<at, attempted, told, scratch, receipt, payload>>

CloseFolder(p) ==
    /\ pc[p] = "closing"
    /\ Record(p, "verified")
    /\ IF at[p] < Len(Batch[p])
       THEN at' = [at EXCEPT ![p] = @ + 1] /\ Goto(p, "boundary") /\ UNCHANGED told
       ELSE told' = [told EXCEPT ![p] = "done"] /\ Goto(p, "ended") /\ UNCHANGED at
    /\ UNCHANGED <<attempted, rundir, output, evidence, payload>>

\* What a command that stops has last saved of the current folder: what it
\* had in memory, or, when it was cut off, what it had saved before.
MaySave(p, state) ==
    \/ state = record[p][Current(p)]
    \/ state = "apply-not-started" /\ pc[p] = "proved"
    \/ state = "verified" /\ pc[p] = "closing"
    \/ state = "write-attempted" /\ pc[p] \notin {"boundary", "proved", "closing"}

\* Any other end after a write was attempted: a failed or cut-off session,
\* a failed verification, a file that cannot be written, an interrupt.
StopAndReconcile(p) ==
    /\ attempted[p]
    /\ pc[p] \in {"boundary", "pended", "marked", "recorded", "applying", "proving", "proved",
                  "verifying", "receipted", "closing"}
    /\ \E state \in RecordState : MaySave(p, state) /\ Record(p, state)
    /\ told' = [told EXCEPT ![p] = "reconcile"]
    /\ Goto(p, "ended")
    /\ UNCHANGED <<at, attempted, rundir, output, evidence, payload>>

-----------------------------------------------------------------------------
(* The environment *)

\* The SQLcl session goes its way, also after its command is gone: it is
\* refused before the first payload statement, or it begins and then
\* commits or stops part-way.
SessionMoves(p, f) ==
    /\ \/ /\ payload[p][f] = "connecting"
          /\ \E s \in {"refused", "running"} : payload' = [payload EXCEPT ![p][f] = s]
       \/ /\ payload[p][f] = "running"
          /\ \E s \in {"committed", "broken"} : payload' = [payload EXCEPT ![p][f] = s]
    /\ UNCHANGED <<command, scratch, evidence>>

\* kill -9.
Crash(p) ==
    /\ pc[p] \notin {"idle", "ended", "crashed"}
    /\ Goto(p, "crashed")
    /\ UNCHANGED <<at, attempted, told, scratch, evidence, payload>>

\* Somebody deletes the run directory of a command that is over.
DropScratch(p) ==
    /\ pc[p] \in {"ended", "crashed"}
    /\ rundir[p] # "none"
    /\ rundir' = [rundir EXCEPT ![p] = "none"]
    /\ output' = [output EXCEPT ![p] = {}]
    /\ UNCHANGED <<command, record, evidence, payload>>

-----------------------------------------------------------------------------
Init ==
    /\ pc = [p \in Process |-> "idle"]
    /\ at = [p \in Process |-> 1]
    /\ attempted = [p \in Process |-> FALSE]
    /\ told = [p \in Process |-> "nothing"]
    /\ rundir = [p \in Process |-> "none"]
    /\ record = [p \in Process |-> [f \in Folder |-> "frozen"]]
    /\ output = [p \in Process |-> {}]
    /\ event = [p \in Process |-> [f \in Folder |-> "none"]]
    /\ receipt = [s \in Folder \X Environment |-> NoProcess]
    /\ payload = [p \in Process |-> [f \in Folder |-> "none"]]

Step(p) ==
    \/ Begin(p) \/ WriteManifest(p) \/ PassCheck(p)
    \/ Abandon(p) \/ RemoveManifest(p) \/ EndRemoval(p)
    \/ WritePending(p) \/ MarkAttempted(p) \/ SaveAttempt(p) \/ StartSession(p)
    \/ SeeRefusal(p) \/ InstallNoWrite(p) \/ PermitRetry(p)
    \/ SeeCommit(p) \/ InstallReceipt(p) \/ WriteVerified(p) \/ CloseFolder(p)
    \/ StopAndReconcile(p)
    \/ \E f \in Selected(p) : SessionMoves(p, f)
    \/ Crash(p) \/ DropScratch(p)

Next == \E p \in Process : Step(p)

Spec == Init /\ [][Next]_vars

-----------------------------------------------------------------------------
(* Properties *)

TypeOK ==
    /\ pc \in [Process -> PC]
    /\ at \in [Process -> Nat] /\ \A p \in Process : at[p] \in 1..Len(Batch[p])
    /\ attempted \in [Process -> BOOLEAN]
    /\ told \in [Process -> {"nothing", "untouched", "retry", "reconcile", "done"}]
    /\ rundir \in [Process -> {"none", "bare", "manifest"}]
    /\ record \in [Process -> [Folder -> RecordState]]
    /\ output \in [Process -> SUBSET Folder]
    /\ event \in [Process -> [Folder -> EventState]]
    /\ receipt \in [Folder \X Environment -> Process \cup {NoProcess}]
    /\ payload \in [Process -> [Folder ->
         {"none", "connecting", "refused", "running", "committed", "broken"}]]

\* The SQL of a folder did not reach the database, and will not.
Untouched(p, f) == payload[p][f] \in {"none", "refused"}

\* A folder looks free for an environment only if no command, finished,
\* killed or still running, has sent or may still send its SQL there:
\* whatever was killed in between and whichever run directories are gone.
UnlockedIsUntouched ==
    \A f \in Folder : \A e \in Environment :
      Unlocked(f, e) => \A p \in Process : EnvOf[p] = e => Untouched(p, f)

\* Of several commands that apply a folder to one environment side by side,
\* nothing keeps them apart, but one alone gets the folder verified, and
\* the receipt is of that one and of SQL that was committed.
OneIsVerified ==
    \A p \in Process : \A f \in Selected(p) :
      event[p][f] = "verified" \/ receipt[<<f, EnvOf[p]>>] = p =>
        /\ receipt[<<f, EnvOf[p]>>] = p
        /\ payload[p][f] = "committed"

\* A command that says no write was attempted touched no folder; one that
\* permits a retry left nothing behind that keeps the folder locked.
ReportIsTrue ==
    \A p \in Process :
      /\ told[p] = "untouched" => \A f \in Selected(p) : Untouched(p, f)
      /\ told[p] = "retry" => Untouched(p, Current(p)) /\ ~LockedBy(p, Current(p))
=============================================================================
