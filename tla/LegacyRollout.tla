---------------------------- MODULE LegacyRollout ----------------------------
(***************************************************************************)
(* A rollout of a schema-1 manifest (_run_legacy_rollout of                *)
(* scripts/rollout.py): its steps run one after another and each leaves a  *)
(* receipt that no run may replace; a later run resumes behind the steps   *)
(* that have receipts.  No lock keeps two runs of one manifest apart.      *)
(*                                                                         *)
(* The module has one manifest and one environment.  The saved connection  *)
(* of the steps leads to a database that can be exchanged for another, and *)
(* the input of every step to a version that can be edited.                *)
(***************************************************************************)
EXTENDS Naturals, Sequences, FiniteSets

CONSTANTS
    Runs,         \* rollout commands
    Steps,        \* bound: number of steps of the manifest
    MaxEdits,     \* bound: edits of inputs
    MaxSwitches   \* bound: exchanges of the database behind the connection

VARIABLES
    kind,         \* the step types of the manifest
    src, edits,   \* version of each step's input, number of edits
    db, switches, \* database behind the connection, number of exchanges
    ran,          \* steps that ran to their end: [step, src, db]
    sessions,     \* payloads being executed: [run, step, src, db]
    attempted,    \* migration steps with attempt evidence
    applied,      \* migration receipts
    receipt,      \* rollout receipts
    run           \* per command: [pc, from, at, plan, seen, owns]

world == <<kind, src, edits, db, switches>>
facts == <<ran, sessions, attempted, applied>>
vars == <<world, facts, receipt, run>>

Kind == {"migrate", "sql-script", "app-deploy", "verify", "pause"}
Step == 1..Steps
Version == 1..MaxEdits + 1
Database == {1, 2}
NoReceipt == [src |-> 0, db |-> 0]

Bound(k) == kind[k] # "pause"

Init ==
    /\ kind \in [Step -> Kind]
    /\ src = [k \in Step |-> 1] /\ edits = 0
    /\ db = 1 /\ switches = 0
    /\ ran = {} /\ sessions = {} /\ attempted = {}
    /\ applied = [k \in Step |-> NoReceipt]
    /\ receipt = [k \in Step |-> NoReceipt]
    /\ run = [r \in Runs |-> [pc |-> "idle", from |-> 1, at |-> 1, plan |-> src, seen |-> 0, owns |-> {}]]

-----------------------------------------------------------------------------
(* Other people *)

Edit ==
    /\ edits < MaxEdits /\ edits' = edits + 1
    /\ \E k \in Step : \E v \in Version \ {src[k]} : src' = [src EXCEPT ![k] = v]
    /\ UNCHANGED <<kind, db, switches, facts, receipt, run>>

Switch ==
    /\ switches < MaxSwitches /\ switches' = switches + 1
    /\ db' \in Database \ {db}
    /\ UNCHANGED <<kind, src, edits, facts, receipt, run>>

-----------------------------------------------------------------------------
(* A rollout up to its first step *)

Go(r, pc) == run' = [run EXCEPT ![r].pc = pc]
Fail(r) == Go(r, "failed")

\* _snapshot: no input has changed since the plan was made.
Unchanged(r) == src = run[r].plan

(* Mutant: the receipt of another version of the input is accepted. *)
ReceiptMatchesAnyInput(k) == receipt[k] # NoReceipt

\* _verify_receipt: the receipt names the current input of the step.
ReceiptMatches(k) == receipt[k] # NoReceipt /\ receipt[k].src = src[k]

Occupied(k) == receipt[k] # NoReceipt

Begin(r) ==
    /\ run[r].pc = "idle"
    /\ \E from \in Step :
        run' = [run EXCEPT ![r] = [@ EXCEPT
            !.from = from, !.at = from, !.plan = src,
            !.pc = IF /\ \A k \in 1..from - 1 : ReceiptMatches(k)
                      /\ \A k \in from..Steps : ~Occupied(k)
                     THEN "confirm" ELSE "failed"]]
    /\ UNCHANGED <<world, facts, receipt>>

Confirm(r) ==
    /\ run[r].pc = "confirm"
    /\ Go(r, "resume") \/ Go(r, "declined")
    /\ UNCHANGED <<world, facts, receipt>>

MigrationReceiptMatches(r, k, here) ==
    kind[k] = "migrate" => applied[k] = [src |-> run[r].plan[k], db |-> here]

\* The receipted steps against the live database, one observation each.
Resume(r) ==
    /\ run[r].pc = "resume"
    /\ IF /\ run[r].from > 1 => Unchanged(r)
          /\ \A k \in 1..run[r].from - 1 : Bound(k) =>
                receipt[k].db = db /\ MigrationReceiptMatches(r, k, db)
         THEN Go(r, "before") \/ Fail(r) ELSE Fail(r)
    /\ UNCHANGED <<world, facts, receipt>>

-----------------------------------------------------------------------------
(* One step *)

\* The snapshot and the first observation of the target.
Before(r) ==
    /\ run[r].pc = "before"
    /\ \/ Unchanged(r) /\ run' = [run EXCEPT ![r].pc = "execute", ![r].seen = db]
       \/ Fail(r)
    /\ UNCHANGED <<world, facts, receipt>>

\* The bytes are read again and must have the planned hash; a script's
\* session refuses any other database than the one observed, and migrate a
\* folder that was ever attempted.
MayExecute(r, k) ==
    /\ src[k] = run[r].plan[k]
    /\ kind[k] = "sql-script" => db = run[r].seen
    /\ kind[k] = "migrate" => k \notin attempted

Payload(r, k) == [run |-> r, step |-> k, src |-> src[k], db |-> db]

Execute(r) ==
    /\ run[r].pc = "execute"
    /\ LET k == run[r].at IN
        \/ /\ MayExecute(r, k)
           /\ IF kind[k] \in {"pause", "verify"}
                THEN /\ ran' = ran \cup {[step |-> k, src |-> src[k], db |-> IF Bound(k) THEN db ELSE 0]}
                     /\ Go(r, "after") /\ UNCHANGED <<sessions, attempted>>
                ELSE /\ sessions' = sessions \cup {Payload(r, k)}
                     /\ attempted' = IF kind[k] = "migrate" THEN attempted \cup {k} ELSE attempted
                     /\ Go(r, "wait") /\ UNCHANGED ran
        \/ Fail(r) /\ UNCHANGED <<ran, sessions, attempted>>
    /\ UNCHANGED <<world, applied, receipt>>

\* A payload ends in the database; its command, if it still waits, learns it,
\* and migrate installs the receipt of the folder.  It may also never learn it.
SessionCommits(s) ==
    /\ s \in sessions
    /\ sessions' = sessions \ {s}
    /\ ran' = ran \cup {[step |-> s.step, src |-> s.src, db |-> s.db]}
    /\ LET waits == run[s.run].pc = "wait" IN
        \/ /\ waits /\ Go(s.run, "after")
           /\ applied' = IF kind[s.step] = "migrate"
                           THEN [applied EXCEPT ![s.step] = [src |-> s.src, db |-> s.db]] ELSE applied
        \/ /\ IF waits THEN Fail(s.run) ELSE UNCHANGED run
           /\ UNCHANGED applied
    /\ UNCHANGED <<world, attempted, receipt>>

(* Mutant: the status of a deployment or script is not looked at. *)
SessionFailsUnseen(s) ==
    /\ s \in sessions
    /\ sessions' = sessions \ {s}
    /\ IF run[s.run].pc = "wait" THEN Go(s.run, "after") ELSE UNCHANGED run
    /\ UNCHANGED <<world, ran, attempted, applied, receipt>>

SessionFails(s) ==
    /\ s \in sessions
    /\ sessions' = sessions \ {s}
    /\ IF run[s.run].pc = "wait" THEN Fail(s.run) ELSE UNCHANGED run
    /\ UNCHANGED <<world, ran, attempted, applied, receipt>>

\* The snapshot again, the second observation, the receipts of migrations.
After(r) ==
    /\ run[r].pc = "after"
    /\ LET k == run[r].at IN
        \/ /\ Unchanged(r)
           /\ Bound(k) => db = run[r].seen
           /\ MigrationReceiptMatches(r, k, db)
           /\ Go(r, "receipt")
        \/ Fail(r)
    /\ UNCHANGED <<world, facts, receipt>>

Receipt(r, k) == [src |-> run[r].plan[k], db |-> IF Bound(k) THEN run[r].seen ELSE 0]
NextStep(r, k) ==
    run' = [run EXCEPT ![r].owns = @ \cup {k}, ![r].at = k + 1,
                       ![r].pc = IF k = Steps THEN "succeeded" ELSE "before"]

(* Mutant: os.replace instead of os.link. *)
ReplaceReceipt(r) ==
    /\ run[r].pc = "receipt"
    /\ LET k == run[r].at IN receipt' = [receipt EXCEPT ![k] = Receipt(r, k)] /\ NextStep(r, k)
    /\ UNCHANGED <<world, facts>>

\* os.link installs it whole or finds the path taken.
WriteReceipt(r) ==
    /\ run[r].pc = "receipt"
    /\ LET k == run[r].at IN
        \/ ~Occupied(k) /\ receipt' = [receipt EXCEPT ![k] = Receipt(r, k)] /\ NextStep(r, k)
        \/ Fail(r) /\ UNCHANGED receipt
    /\ UNCHANGED <<world, facts>>

\* Ctrl-C, an exception or a kill; the database session may go on.
Stop(r) ==
    /\ run[r].pc \notin {"idle", "failed", "declined", "succeeded"}
    /\ Fail(r)
    /\ UNCHANGED <<world, facts, receipt>>

Rollout(r) ==
    \/ Begin(r) \/ Confirm(r) \/ Resume(r)
    \/ Before(r) \/ Execute(r) \/ After(r) \/ WriteReceipt(r)
    \/ Stop(r)

Next ==
    \/ Edit \/ Switch
    \/ \E r \in Runs : Rollout(r)
    \/ \E s \in sessions : SessionCommits(s) \/ SessionFails(s)

Spec == Init /\ [][Next]_vars

-----------------------------------------------------------------------------
(* Properties *)

Ran(k, version) == \E e \in ran : e.step = k /\ e.src = version

(* A receipt tells the truth: the step ran to its end with the input the    *)
(* receipt names, and in the database it names.  The last is not said of a  *)
(* deployment, whose session nothing ties to the observations around it.    *)
ReceiptIsTrue ==
    \A k \in Step : receipt[k] # NoReceipt =>
        \E e \in ran : /\ e.step = k /\ e.src = receipt[k].src
                       /\ kind[k] \in {"sql-script", "migrate"} => e.db = receipt[k].db

(* No step runs, and no rollout succeeds, unless every step before it ran   *)
(* to its end with the input that this rollout planned, in this run or in   *)
(* the earlier ones it resumes.                                             *)
PredecessorsRan ==
    \A r \in Runs :
        /\ run[r].pc \in {"execute", "wait", "after", "receipt"} =>
                \A k \in 1..run[r].at - 1 : Ran(k, run[r].plan[k])
        /\ run[r].pc = "succeeded" => \A k \in Step : Ran(k, run[r].plan[k])

(* Of runs side by side at most one may call a step its own success: the    *)
(* others find its receipt path taken and stop.                             *)
OneOwner == \A r, q \in Runs : r # q => run[r].owns \cap run[q].owns = {}

(* What a rollout says it has done was done: its receipts are true, each     *)
(* has one owner, and its earlier steps ran (_run_legacy_rollout).           *)
ProgressIsTrue == ReceiptIsTrue /\ PredecessorsRan /\ OneOwner

=============================================================================
