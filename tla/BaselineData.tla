---------------------------- MODULE BaselineData ----------------------------
(***************************************************************************)
(* Reference data from one environment to another.  export-data writes the *)
(* rows of the allow-listed tables of a source schema to files of one      *)
(* directory; build, later, reads them, compares them with the target and  *)
(* makes one migration folder, which is then applied.  Ids differ between  *)
(* environments: a row is known by its natural key, and a foreign key is   *)
(* carried over by the label of the row it refers to.  Two tables: parent, *)
(* whose ids are identities that are always generated, and child.          *)
(***************************************************************************)
EXTENDS Naturals, FiniteSets, Sequences, SequencesExt, FiniteSetsExt

CONSTANTS
    Exporter,     \* export-data commands for the schema, each once
    Sources,      \* what the source schema can hold
    Targets,      \* what the target schema can hold at first
    None,
    MaxChanges    \* bound: changes of the target by others

VARIABLES
    src,          \* the source: [parent, child], sets of rows
    dir,          \* the directory: [lock, incomplete, tmp, file]
    order,        \* the exporters in the order in which they marked the directory
    exporter,     \* [pc, cap, at]
    tgt, changes, \* the target; how often others have changed it
    build,        \* [pc, seen, cat, manifest, data]
    folder,       \* the migration folder: [rows, labels, keys, conflicts]
    run           \* the apply: [pc, before, todo, new, quiet]

export == <<order, exporter>>
target == <<tgt, changes>>
vars == <<src, dir, order, exporter, tgt, changes, build, folder, run>>

Table == {"child", "parent"}
\* The files of one export in the order they are written.
Files == <<"child", "parent", "manifest">>

Init ==
    /\ src \in Sources
    /\ dir = [lock |-> None, incomplete |-> FALSE, tmp |-> {}, file |-> [f \in ToSet(Files) |-> None]]
    /\ order = <<>>
    /\ exporter = [e \in Exporter |-> [pc |-> "idle", cap |-> None, at |-> 1]]
    /\ tgt \in Targets /\ changes = 0
    /\ build = [pc |-> "idle", seen |-> 0, cat |-> None, manifest |-> None,
               data |-> [t \in Table |-> None]]
    /\ folder = None
    /\ run = [pc |-> "idle", before |-> None, todo |-> <<>>, new |-> {}, quiet |-> TRUE]

-----------------------------------------------------------------------------
(* The export *)

Goes(e, from, to) == exporter[e].pc = from /\ exporter' = [exporter EXCEPT ![e].pc = to]

\* The lock is created exclusively; a lock that is there is refused.
Lock(e) ==
    /\ dir.lock = None
    /\ Goes(e, "idle", "locked")
    /\ dir' = [dir EXCEPT !.lock = e]
    /\ UNCHANGED <<src, order, target, build, folder, run>>

\* An incomplete marker of an earlier export is taken over.
Mark(e) ==
    /\ Goes(e, "locked", "marked")
    /\ dir' = [dir EXCEPT !.incomplete = TRUE]
    /\ order' = Append(order, e)
    /\ UNCHANGED <<src, target, build, folder, run>>

Invalidate(e) ==
    /\ Goes(e, "marked", "capture")
    /\ dir' = [dir EXCEPT !.file["manifest"] = None]
    /\ UNCHANGED <<src, order, target, build, folder, run>>

\* All tables in one read-only transaction.
Capture(e) ==
    /\ exporter[e].pc = "capture"
    /\ exporter' = [exporter EXCEPT ![e].pc = "write", ![e].cap = src]
    /\ UNCHANGED <<src, dir, order, target, build, folder, run>>

\* The manifest holds a checksum of each table, which stands for its rows.
ContentOf(e, f) == IF f = "manifest" THEN exporter[e].cap ELSE exporter[e].cap[f]

\* A temporary file that is already there is refused.
WriteTemporary(e) ==
    /\ Goes(e, "write", "replace")
    /\ Files[exporter[e].at] \notin dir.tmp
    /\ dir' = [dir EXCEPT !.tmp = @ \cup {Files[exporter[e].at]}]
    /\ UNCHANGED <<src, order, target, build, folder, run>>

\* Also the reading back of what was written.
ReplaceFile(e) ==
    LET f == Files[exporter[e].at] IN
    /\ exporter[e].pc = "replace"
    /\ dir' = [dir EXCEPT !.tmp = @ \ {f}, !.file[f] = ContentOf(e, f)]
    /\ exporter' = [exporter EXCEPT ![e].at = @ + 1,
                                    ![e].pc = IF exporter[e].at = Len(Files) THEN "written" ELSE "write"]
    /\ UNCHANGED <<src, order, target, build, folder, run>>

ClearMarker(e) ==
    /\ Goes(e, "written", "unlock")
    /\ dir' = [dir EXCEPT !.incomplete = FALSE]
    /\ UNCHANGED <<src, order, target, build, folder, run>>

\* The lock is removed if it is still the one that was created.
Unlock(e) ==
    /\ Goes(e, "unlock", "done")
    /\ dir' = [dir EXCEPT !.lock = IF @ = e THEN None ELSE @]
    /\ UNCHANGED <<src, order, target, build, folder, run>>

\* A capture that is refused, a write that fails: the temporary file goes, and
\* so does the lock, unless the marker was not yet there.
ExportFails(e) ==
    /\ exporter[e].pc \in {"locked", "marked", "capture", "write", "replace", "written"}
    /\ Goes(e, exporter[e].pc, "failed")
    /\ dir' = [dir EXCEPT !.lock = IF exporter[e].pc # "locked" /\ @ = e THEN None ELSE @,
                          !.tmp = IF exporter[e].pc = "replace" THEN @ \ {Files[exporter[e].at]} ELSE @]
    /\ UNCHANGED <<src, order, target, build, folder, run>>

Killed(e) ==
    /\ exporter[e].pc \notin {"idle", "done", "failed"}
    /\ Goes(e, exporter[e].pc, "failed")
    /\ UNCHANGED <<src, dir, order, target, build, folder, run>>

\* "verify no exporter is active before removing it"
RemoveLeftovers ==
    /\ \A e \in Exporter : exporter[e].pc \in {"idle", "done", "failed"}
    /\ dir.lock # None \/ dir.tmp # {}
    /\ dir' = [dir EXCEPT !.lock = None, !.tmp = {}]
    /\ UNCHANGED <<src, export, target, build, folder, run>>

-----------------------------------------------------------------------------
(* The build *)

Unmarked == dir.lock = None /\ ~dir.incomplete

\* The target has been captured; then the markers are looked at.
StartReading ==
    /\ build.pc = "idle" /\ Unmarked
    /\ build' = [build EXCEPT !.pc = "manifest", !.seen = Len(order), !.cat = tgt]
    /\ UNCHANGED <<src, dir, export, target, folder, run>>

ReadManifest ==
    /\ build.pc = "manifest" /\ dir.file["manifest"] # None
    /\ build' = [build EXCEPT !.pc = "child", !.manifest = dir.file["manifest"]]
    /\ UNCHANGED <<src, dir, export, target, folder, run>>

\* The checksum of the file is the one in the manifest.
MatchesAnything(t) == TRUE
Matches(t) == dir.file[t] = build.manifest[t]

ReadTable(t, next) ==
    /\ build.pc = t /\ Matches(t)
    /\ build' = [build EXCEPT !.pc = next, !.data[t] = dir.file[t]]
    /\ UNCHANGED <<src, dir, export, target, folder, run>>

\* The markers are looked at once more.
Accept ==
    /\ build.pc = "again" /\ Unmarked
    /\ build' = [build EXCEPT !.pc = "bundle"]
    /\ UNCHANGED <<src, dir, export, target, folder, run>>

WithKey(rows, k) == {r \in rows : r.key = k}
WithLabel(rows, l) == {r \in rows : r.label = l}
LabelOf(rows, id) == (CHOOSE p \in rows : p.id = id).label

\* The labels by which the children of the export find their parents.
Labels(d) == {LabelOf(d.parent, c.ref) : c \in {x \in d.child : x.ref # None}}

\* What build refuses: a key or a label that does not name one row.
Resolvable(d, c) ==
    /\ \A t \in Table : \A r \in d[t] : Cardinality(WithKey(d[t], r.key)) = 1 /\ Cardinality(WithKey(c[t], r.key)) <= 1
    /\ \A l \in Labels(d) : Cardinality(WithLabel(d.parent, l)) = 1 /\ Cardinality(WithLabel(c.parent, l)) = 1
    /\ \A p \in d.parent : Cardinality(WithLabel(c.parent, p.label)) <= 1

\* The labels that another key carries on the captured target.
LabelConflicts(d, c) ==
    {p.label : p \in {q \in d.parent : WithLabel(c.parent, q.label) # {} /\ WithKey(c.parent, q.key) = {}}}

\* An insert of each row, the tables by name.
Inserts(d) == SetToSeq({[table |-> "child", row |-> r] : r \in d.child})
              \o SetToSeq({[table |-> "parent", row |-> r] : r \in d.parent})

MakeFolder ==
    /\ build.pc = "bundle" /\ Resolvable(build.data, build.cat)
    /\ folder' = [rows |-> build.data, labels |-> Labels(build.data),
                  keys |-> [t \in Table |-> {r.key : r \in {x \in build.data[t] : WithKey(build.cat[t], x.key) # {}}}],
                  conflicts |-> LabelConflicts(build.data, build.cat)]
    /\ build' = [build EXCEPT !.pc = "done"]
    /\ UNCHANGED <<src, dir, export, target, run>>

BuildRefuses ==
    /\ \/ build.pc = "idle" /\ ~Unmarked
       \/ build.pc = "manifest" /\ dir.file["manifest"] = None
       \/ build.pc \in Table /\ ~Matches(build.pc)
       \/ build.pc = "again" /\ ~Unmarked
       \/ build.pc = "bundle" /\ ~Resolvable(build.data, build.cat)
    /\ build' = [build EXCEPT !.pc = "refused"]
    /\ UNCHANGED <<src, dir, export, target, folder, run>>

-----------------------------------------------------------------------------
(* The apply *)

\* Counted on the target as it is now: labels that are there once, each key as
\* often as when the folder was built, and no label that was in conflict then.
Preconditions ==
    /\ \A l \in folder.labels : Cardinality(WithLabel(tgt.parent, l)) = 1
    /\ \A t \in Table : \A r \in folder.rows[t] :
           Cardinality(WithKey(tgt[t], r.key)) = IF r.key \in folder.keys[t] THEN 1 ELSE 0
    /\ \A l \in folder.conflicts : WithLabel(tgt.parent, l) = {}

Start ==
    /\ run.pc = "idle" /\ folder # None
    /\ run' = IF Preconditions
              THEN [run EXCEPT !.pc = "insert", !.before = tgt, !.todo = Inserts(folder.rows)]
              ELSE [run EXCEPT !.pc = "refused"]
    /\ UNCHANGED <<src, dir, export, target, build, folder>>

\* What the session sees: also its own rows, not committed yet.
Seen(t) == tgt[t] \cup {n.row : n \in {x \in run.new : x.table = t}}
FreshId == Max({p.id : p \in Seen("parent")} \cup {0}) + 1

\* The parent with the label of the source's parent; NULL when there is none.
Referred(r) ==
    IF r.ref = None THEN {}
    ELSE {p.id : p \in WithLabel(Seen("parent"), LabelOf(folder.rows.parent, r.ref))}

NewRowWithItsId(t, r) == IF t = "parent" THEN [r EXCEPT !.id = FreshId] ELSE r
NewRow(t, r) ==
    IF t = "parent" THEN [r EXCEPT !.id = FreshId]
    ELSE [r EXCEPT !.ref = IF Referred(r) = {} THEN None ELSE CHOOSE i \in Referred(r) : TRUE]

Insert ==
    LET t == Head(run.todo).table
        r == Head(run.todo).row
    IN
    /\ run.pc = "insert" /\ run.todo # <<>>
    /\ t = "child" /\ WithKey(Seen(t), r.key) = {} => Cardinality(Referred(r)) <= 1
    /\ run' = [run EXCEPT !.todo = Tail(@),
                          !.new = IF WithKey(Seen(t), r.key) # {} THEN @ ELSE @ \cup {[table |-> t, row |-> NewRow(t, r)]}]
    /\ UNCHANGED <<src, dir, export, target, build, folder>>

\* A statement fails or the session is lost: nothing stays.
ApplyFails ==
    /\ run.pc = "insert"
    /\ run' = [run EXCEPT !.pc = "failed", !.new = {}]
    /\ UNCHANGED <<src, dir, export, target, build, folder>>

Commit ==
    /\ run.pc = "insert" /\ run.todo = <<>>
    /\ tgt' = [t \in Table |-> Seen(t)]
    /\ run' = [run EXCEPT !.pc = "check"]
    /\ UNCHANGED <<src, dir, export, changes, build, folder>>

Postconditions == \A t \in Table : \A r \in folder.rows[t] : Cardinality(WithKey(tgt[t], r.key)) = 1

Verify ==
    /\ run.pc = "check"
    /\ run' = [run EXCEPT !.pc = IF Postconditions THEN "verified" ELSE "failed"]
    /\ UNCHANGED <<src, dir, export, target, build, folder>>

-----------------------------------------------------------------------------
(* Others *)

SourceChanges ==
    /\ \E e \in Exporter : exporter[e].pc = "idle"
    /\ src' \in Sources
    /\ UNCHANGED <<dir, export, target, build, folder, run>>

\* Somebody exchanges the labels of two parents, gives one another label or
\* removes a child.  What happens after the checks nobody promises about.
TargetChanges ==
    /\ changes < MaxChanges /\ run.pc # "verified"
    /\ \/ \E p \in tgt.parent : \E l \in {q.label : q \in tgt.parent} \cup {"new"} :
              tgt' = [tgt EXCEPT !.parent =
                        {[q EXCEPT !.label = IF q = p THEN l ELSE IF q.label = l THEN p.label ELSE @] : q \in @}]
       \/ \E c \in tgt.child : tgt' = [tgt EXCEPT !.child = @ \ {c}]
    /\ changes' = changes + 1
    /\ run' = [run EXCEPT !.quiet = @ /\ run.pc = "idle"]
    /\ UNCHANGED <<src, dir, export, build, folder>>

-----------------------------------------------------------------------------
ExporterStep(e) ==
    \/ Lock(e) \/ Mark(e) \/ Invalidate(e) \/ Capture(e) \/ WriteTemporary(e) \/ ReplaceFile(e)
    \/ ClearMarker(e) \/ Unlock(e) \/ ExportFails(e) \/ Killed(e)

BuildStep ==
    \/ StartReading \/ ReadManifest \/ ReadTable("child", "parent") \/ ReadTable("parent", "again")
    \/ Accept \/ MakeFolder \/ BuildRefuses

ApplyStep == Start \/ Insert \/ ApplyFails \/ Commit \/ Verify

Next ==
    \/ \E e \in Exporter : ExporterStep(e)
    \/ RemoveLeftovers \/ BuildStep \/ ApplyStep \/ SourceChanges \/ TargetChanges

Spec == Init /\ [][Next]_vars

-----------------------------------------------------------------------------
(* Properties *)

(* What build takes is the whole of one export, of the last that had begun  *)
(* when it started to read or of a later one: never tables of two exports,  *)
(* and never older rows than those a killed or failing export was to give   *)
(* (_data_export_guard, _read_exported_reference_data).                     *)
TakesOneExport ==
    build.pc \in {"bundle", "done"} =>
        \E n \in 1..Len(order) :
            LET cap == exporter[order[n]].cap IN
            n >= build.seen /\ cap # None /\ \A t \in Table : build.data[t] = cap[t]

(* A verified folder has left every row of the target as it was, and each   *)
(* row it has inserted refers to the parent that carries, on the target,    *)
(* the label its parent carries on the source (_reference_data_bundle).     *)
RefersByLabel ==
    run.pc = "verified" /\ run.quiet =>
        /\ \A t \in Table : run.before[t] \subseteq tgt[t]
        /\ \A c \in tgt.child \ run.before.child :
               \E s \in folder.rows.child :
                   /\ s.key = c.key /\ (s.ref = None) = (c.ref = None)
                   /\ s.ref # None => LabelOf(tgt.parent, c.ref) = LabelOf(folder.rows.parent, s.ref)

(* What a schema can hold: an id is that of one parent, and a child refers  *)
(* to one id or to none (the identity and the foreign key of the tables).   *)
IsParent(p) == p = [id |-> p.id, key |-> p.key, label |-> p.label] /\ p.id \in Nat
IsChild(c) == c = [key |-> c.key, ref |-> c.ref] /\ c.ref \in Nat \cup {None}

IsSchema(s) ==
    /\ DOMAIN s = Table /\ \A t \in Table : IsFiniteSet(s[t])
    /\ \A p \in s.parent : IsParent(p)
    /\ \A c \in s.child : IsChild(c)
    /\ \A p, q \in s.parent : p.id = q.id => p = q

ConstantsFit == None \notin Nat /\ \A s \in Sources \cup Targets : IsSchema(s)

=============================================================================
