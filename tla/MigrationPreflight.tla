------------------------- MODULE MigrationPreflight -------------------------
(***************************************************************************)
(* The live preflight of a selection of migration folders                  *)
(* (preflight_selected and _live_report of scripts/migration_checks.py,    *)
(* the captures of scripts/schema_catalog.py): the folders are loaded, the *)
(* catalog of the target is captured until its object set stands still,    *)
(* the preconditions of the first folder are run, and the effects of the   *)
(* folders are laid over the captured schema one after another.            *)
(*                                                                         *)
(* A schema has a few names of the common namespace and one index name.    *)
(* A synonym stands for the other name.  Folder k of the selection has     *)
(* one statement, the k-th operation of the batch.                         *)
(***************************************************************************)
EXTENDS Naturals, Sequences, FiniteSets, SequencesExt

CONSTANTS
    Name,         \* names of the common namespace
    Batches,      \* the selections that are examined
    Schemas,      \* what the target may hold at first
    Retries,      \* MIGRATION_PREFLIGHT_INVENTORY_RETRIES
    MaxChanges    \* bound: changes of the target by others

VARIABLES
    schema,       \* the target: [obj, cols, idx]
    changes,      \* changes made to it by others
    disk,         \* the selected folders on disk
    pc,           \* where the preflight is
    batch,        \* the folders as loaded
    tries,        \* captures that found another object set
    inventory,    \* the object set of the inventory session
    before, cols, \* object set and columns read by the snapshot session
    checks,       \* the precondition of the first folder: "passed", "failed"
    verdict,      \* exit code, or 3 before there is one
    quiet         \* nobody changed what was captured, unseen by the capture

world == <<schema, changes, disk>>
capture == <<inventory, before, cols>>
vars == <<world, pc, batch, tries, capture, checks, verdict, quiet>>

Other(n) == CHOOSE m \in Name : m # n
Selectable == {"TABLE", "VIEW"}
NoObjects == [obj |-> [n \in Name |-> "none"], idx |-> FALSE]
NoColumns == [n \in Name |-> {}]
Undecided == 3

Init ==
    /\ schema \in Schemas /\ changes = 0
    /\ disk \in Batches
    /\ pc = "load" /\ batch = <<>> /\ tries = 0
    /\ inventory = NoObjects /\ before = NoObjects /\ cols = NoColumns
    /\ checks = "passed" /\ verdict = Undecided /\ quiet = TRUE

-----------------------------------------------------------------------------
(* What a batch does to a schema: the reference for the analysis *)

Resolves(obj, d) ==
    \/ obj[d] \notin {"none", "SYNONYM"}
    \/ obj[d] = "SYNONYM" /\ obj[Other(d)] \in Selectable

Type(op) ==
    CASE op.kind = "CREATE_TABLE" -> "TABLE" [] op.kind = "CREATE_VIEW" -> "VIEW"
      [] op.kind = "CREATE_SEQUENCE" -> "SEQUENCE" [] OTHER -> "SYNONYM"

Works(s, op) ==
    CASE op.kind = "CREATE_INDEX" -> ~s.idx /\ s.obj[op.name] = "TABLE" /\ op.cols \subseteq s.cols[op.name]
      [] op.kind = "ALTER_ADD_COLUMN" -> s.obj[op.name] = "TABLE" /\ op.cols \cap s.cols[op.name] = {}
      [] OTHER -> /\ \/ s.obj[op.name] = "none"
                     \/ op.kind = "CREATE_VIEW" /\ op.replace /\ s.obj[op.name] = "VIEW"
                  /\ \A d \in op.deps : Resolves(s.obj, d)

Effect(s, op) ==
    CASE op.kind = "CREATE_INDEX" -> [s EXCEPT !.idx = TRUE]
      [] op.kind = "ALTER_ADD_COLUMN" -> [s EXCEPT !.cols[op.name] = @ \cup op.cols]
      [] OTHER -> [s EXCEPT !.obj[op.name] = Type(op), !.cols[op.name] = op.cols]

\* The schema before the k-th operation of b.
Reaches(s, b) ==
    LET at[k \in 1..Len(b) + 1] == IF k = 1 THEN s ELSE Effect(at[k - 1], b[k - 1]) IN at

Runs(s, b) == \A k \in DOMAIN b : Works(Reaches(s, b)[k], b[k])

-----------------------------------------------------------------------------
(* preflight: the effects laid over the captured schema *)

Reviewed(op) == op.review = "both"

\* What the analysis has staged: kinds of created names, names that opaque
\* statements create, tables whose columns are followed, the index.
Nothing ==
    [kind |-> [n \in Name |-> "none"], opaque |-> {}, cols |-> [n \in Name |-> {}],
     followed |-> {}, idx |-> FALSE, conflict |-> FALSE, error |-> FALSE]

Conflict(acc) == [acc EXCEPT !.conflict = TRUE]

ThroughSynonym(acc, obj, d) ==
    obj[d] = "SYNONYM" /\ (obj[Other(d)] \in Selectable \/ acc.kind[Other(d)] \in {"CREATE_TABLE", "CREATE_VIEW"})

Available(acc, obj, d) ==
    \/ acc.kind[d] # "none" \/ d \in acc.opaque
    \/ obj[d] \notin {"none", "SYNONYM"}
    \/ ThroughSynonym(acc, obj, d)

\* CREATE OR REPLACE VIEW in a folder with preconditions.
ReviewedReplace(op) == op.kind = "CREATE_VIEW" /\ op.replace /\ op.review # "none"

Free(acc, obj, op) ==
    IF acc.kind[op.name] # "none"
      THEN ReviewedReplace(op) /\ acc.kind[op.name] = "CREATE_VIEW"
      ELSE obj[op.name] = "none" \/ (ReviewedReplace(op) /\ obj[op.name] = "VIEW")

ExamineCreate(acc, obj, op) ==
    LET staged == [acc EXCEPT !.kind[op.name] = op.kind,
                              !.cols[op.name] = op.cols,
                              !.followed = IF op.kind = "CREATE_TABLE" THEN @ \cup {op.name} ELSE @]
    IN IF ~Free(acc, obj, op) THEN Conflict(acc)
       ELSE IF \A d \in op.deps : Available(staged, obj, d) THEN staged ELSE Conflict(staged)

(* Mutant: the captured columns, also of a table the batch has changed. *)
CapturedColumns(acc, op) == IF before.obj[op.name] = "TABLE" THEN cols[op.name] ELSE acc.cols[op.name]

\* The columns of a table: those the batch gives it, or the captured ones.
Columns(acc, op) == IF op.name \in acc.followed THEN acc.cols[op.name] ELSE cols[op.name]

TableKnown(acc, obj, op) == op.name \in acc.followed \/ obj[op.name] = "TABLE"

ExamineIndex(acc, obj, op) ==
    IF \/ acc.idx \/ before.idx \/ ~TableKnown(acc, obj, op) \/ ~(op.cols \subseteq Columns(acc, op))
      THEN Conflict(acc) ELSE [acc EXCEPT !.idx = TRUE]

ExamineAlter(acc, obj, op) ==
    LET now == [acc EXCEPT !.followed = @ \cup {op.name}, !.cols[op.name] = Columns(acc, op) \cup op.cols]
    IN IF ~TableKnown(acc, obj, op) THEN Conflict(acc)
       ELSE IF op.cols \cap Columns(acc, op) # {} THEN Conflict(now) ELSE now

ExamineOpaque(acc, op) ==
    [acc EXCEPT !.opaque = @ \cup {op.name}, !.error = @ \/ ~Reviewed(op)]

Examine(acc, op) ==
    CASE op.kind = "CREATE_INDEX" -> ExamineIndex(acc, before.obj, op)
      [] op.kind = "ALTER_ADD_COLUMN" -> ExamineAlter(acc, before.obj, op)
      [] op.kind = "OPAQUE" -> ExamineOpaque(acc, op)
      [] OTHER -> ExamineCreate(acc, before.obj, op)

Analysis == FoldLeft(Examine, Nothing, batch)

Preflight ==
    IF Analysis.error THEN 2
    ELSE IF Analysis.conflict \/ checks = "failed" THEN 1 ELSE 0

-----------------------------------------------------------------------------
(* The steps of the command *)

Unchanged(b) == disk = b
Objects == [obj |-> schema.obj, idx |-> schema.idx]
Go(to) == pc' = to /\ UNCHANGED verdict
Give(code) == verdict' = code /\ pc' = "done"

Load ==
    /\ pc = "load"
    /\ batch' = disk /\ Go("inventory")
    /\ UNCHANGED <<world, tries, capture, checks, quiet>>

Inventory ==
    /\ pc = "inventory"
    /\ inventory' = Objects /\ quiet' = TRUE
    /\ Go("before") \/ Give(2)
    /\ UNCHANGED <<world, batch, tries, before, cols, checks>>

SnapshotBefore ==
    /\ pc = "before"
    /\ before' = Objects
    /\ Go("definitions") \/ Give(2)
    /\ UNCHANGED <<world, batch, tries, inventory, cols, checks, quiet>>

Tables == {n \in Name : \E k \in DOMAIN batch : batch[k].name = n}

\* A selected table that is in the object set must still have a definition.
Definitions ==
    /\ pc = "definitions"
    /\ cols' = [n \in Name |-> IF n \in Tables /\ schema.obj[n] = "TABLE" THEN schema.cols[n] ELSE {}]
    /\ IF \E n \in Tables : before.obj[n] = "TABLE" /\ schema.obj[n] # "TABLE"
         THEN Go("gone") ELSE Go("after")
    /\ UNCHANGED <<world, batch, tries, inventory, before, checks, quiet>>

(* Mutant: only the two sessions are compared. *)
StoodStillBetween == inventory = before
StoodStill == inventory = before /\ before = Objects

\* parse_snapshot compares the object sets before it looks for definitions.
SnapshotAfter ==
    /\ pc \in {"after", "gone"}
    /\ \/ StoodStill /\ pc = "after" /\ Go("checks") /\ UNCHANGED tries
       \/ StoodStill /\ pc = "gone" /\ Give(2) /\ UNCHANGED tries
       \/ /\ ~StoodStill
          /\ IF tries < Retries THEN tries' = tries + 1 /\ Go("inventory")
             ELSE Give(2) /\ UNCHANGED tries
       \/ Give(2) /\ UNCHANGED tries
    /\ UNCHANGED <<world, batch, capture, checks, quiet>>

\* The precondition of a folder: that its name is still free.
Holds(op) == op.review = "none" \/ op.replace \/ schema.obj[op.name] = "none"

RunChecks ==
    /\ pc = "checks"
    /\ \/ checks' = (IF Holds(batch[1]) THEN "passed" ELSE "failed") /\ Go("report")
       \/ Give(2) /\ UNCHANGED checks
    /\ UNCHANGED <<world, batch, tries, capture, quiet>>

\* The folders are loaded once more: other bytes than those examined.
Report ==
    /\ pc = "report"
    /\ Give(IF Unchanged(batch) THEN Preflight ELSE 2)
    /\ UNCHANGED <<world, batch, tries, capture, checks, quiet>>

-----------------------------------------------------------------------------
(* Other people *)

\* Until the verdict; afterwards what they do is their own.  The capture has to
\* see every change up to its last query, except of columns it has read and of
\* an object set that is restored in time.
Change ==
    /\ pc # "done" /\ changes < MaxChanges
    /\ changes' = changes + 1
    /\ \E n \in Name :
        \/ schema.obj[n] = "none" /\ schema' = [schema EXCEPT !.obj[n] = "TABLE", !.cols[n] = {"a"}]
        \/ schema.obj[n] # "none" /\ schema' = [schema EXCEPT !.obj[n] = "none", !.cols[n] = {}]
        \/ /\ schema.obj[n] = "TABLE" /\ "b" \notin schema.cols[n]
           /\ schema' = [schema EXCEPT !.cols[n] = @ \cup {"b"}]
    /\ quiet' = (IF pc \in {"after", "gone"} THEN Objects' # before
                 ELSE quiet /\ pc \notin {"checks", "report"})
    /\ UNCHANGED <<disk, pc, batch, tries, capture, checks, verdict>>

\* A developer gives the folders another order.
Edit ==
    /\ pc # "done"
    /\ disk' = Reverse(disk) /\ disk' # disk
    /\ UNCHANGED <<schema, changes, pc, batch, tries, capture, checks, verdict, quiet>>

Next ==
    \/ Load \/ Inventory \/ SnapshotBefore \/ Definitions \/ SnapshotAfter
    \/ RunChecks \/ Report
    \/ Change \/ Edit

Spec == Init /\ [][Next]_vars

-----------------------------------------------------------------------------
(* Properties *)

\* What the analysis does not see: what an opaque statement does, and that a
\* view selects from itself, here through a synonym.
OverItself(op) == op.kind = "CREATE_VIEW" /\ \E d \in op.deps : schema.obj[d] = "SYNONYM" /\ Other(d) = op.name
Transparent(b) == \A k \in DOMAIN b : b[k].kind # "OPAQUE" /\ ~OverItself(b[k])

(* preflight with exit code 0: the folders that are on disk at the verdict  *)
(* run to their end in the target, although others changed it while it was *)
(* captured.  Not promised is what nobody can see: a change after the last  *)
(* query about it, or a statement that the analysis does not see through.   *)
PassedBatchRuns ==
    verdict = 0 /\ quiet /\ Transparent(disk) => Runs(schema, disk)

(* The other way round: what the analysis reports as a conflict is one.     *)
(* Only a CREATE OR REPLACE VIEW without preconditions is refused although  *)
(* the database would accept it.                                           *)
ConflictIsReal ==
    verdict = 1 /\ quiet /\ Transparent(disk) /\ checks = "passed"
    /\ ~(\E k \in DOMAIN disk : disk[k].replace /\ disk[k].review = "none")
    => ~Runs(schema, disk)

(* The verdict of migrate --preflight is right in both directions.           *)
VerdictIsRight == PassedBatchRuns /\ ConflictIsReal

=============================================================================
