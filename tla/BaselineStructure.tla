-------------------------- MODULE BaselineStructure -------------------------
(***************************************************************************)
(* scripts/baseline.py, the baseline-structure family: a build captures    *)
(* the target, plans the guarded statements that add what the source has   *)
(* and the target lacks, and installs them as the next revision of a       *)
(* migration folder; a folder is applied once, statement by statement,     *)
(* every DDL statement committing, to a target that other sessions use.    *)
(*                                                                         *)
(* A schema is a record: col gives each column's type and nullability,     *)
(* con each constraint's definition and whether it is enabled, idx each    *)
(* index's columns, seq each sequence's last number and increment; Absent  *)
(* is what is not there.  A table is there if its columns are.             *)
(***************************************************************************)
EXTENDS Naturals, Sequences, FiniteSets, SequencesExt

CONSTANTS
    Absent,
    Tables, Columns, Constraints, Indexes, Sequenced,  \* sequences, in the order of their names
    TableOf,       \* column, constraint or index -> its table
    KindOf,        \* constraint -> "key", "foreign", "check"
    KeyOf,         \* foreign key -> the key it refers to
    DefaultOf,     \* table -> the sequence in its defaults, or Absent
    FeedsTable,    \* sequence -> the table of its sequenceMappings entry
    Source,        \* the schema that is the model
    Targets,       \* schemas the target can be in at first
    Conditions,    \* definitions a check constraint can have
    MaxFolders,    \* bound: revisions of the family
    Filled,        \* tables that hold rows
    MaxChanges,    \* bound: steps of other sessions
    MaxId          \* bound: ids that they insert

TableSet == ToSet(Tables)
ColumnSet == ToSet(Columns)
ConstraintSet == ToSet(Constraints)
IndexSet == ToSet(Indexes)
SequenceSet == ToSet(Sequenced)

VARIABLES
    cat,           \* the target schema
    rows,          \* table -> [top, nulls, breaks] of its rows
    changes,       \* steps of other sessions
    folder,        \* revisions: [steps, pre, tried, clean, fits]
    build,         \* the build: [pc, cat, rows, folder]
    run,           \* the apply: [pc, of, at, part, last]
    skewed         \* sequences whose advance was cut short

vars == <<cat, rows, changes, folder, build, run, skewed>>

-----------------------------------------------------------------------------
(* The dictionary *)

Has(c, t) == \E x \in ColumnSet : TableOf[x] = t /\ c.col[x] # Absent

Of(t) == {k \in ConstraintSet : TableOf[k] = t}
Enabled(c, k) == c.con[k] # Absent /\ c.con[k].on
SameColumns(c, i) == \E j \in DOMAIN c.idx : j # i /\ TableOf[j] = TableOf[i] /\ c.idx[j] = Source.idx[i]

\* A key brings an index of its own name, unless one has these columns.
WithKey(c, k) ==
    IF KindOf[k] = "key" /\ k \in DOMAIN c.idx /\ c.idx[k] = Absent /\ ~SameColumns(c, k)
      THEN [c EXCEPT !.idx[k] = Source.idx[k]] ELSE c

RowsAllow(r, k) ==
    LET t == TableOf[k]
    IN CASE KindOf[k] = "check" -> Source.con[k].def \notin r[t].breaks
         [] KindOf[k] = "foreign" -> r[t].top = 0 \/ r[TableOf[KeyOf[k]]].top > 0
         [] OTHER -> TRUE

CanAdd(c, r, k) ==
    /\ Has(c, TableOf[k])
    /\ KindOf[k] = "foreign" => Enabled(c, KeyOf[k])
    /\ Source.con[k].on => RowsAllow(r, k)

\* DBMS_METADATA's DDL of a table has its constraints in it, foreign keys too.
CanCreate(c, t) ==
    /\ \A k \in Of(t) : KindOf[k] = "foreign" => Enabled(c, KeyOf[k])
    /\ DefaultOf[t] # Absent => c.seq[DefaultOf[t]] # Absent

Created(c, t) ==
    LET d == [c EXCEPT !.col = [x \in DOMAIN @ |-> IF TableOf[x] = t THEN Source.col[x] ELSE @[x]],
                       !.con = [k \in DOMAIN @ |-> IF TableOf[k] = t THEN Source.con[k] ELSE @[k]]]
    IN FoldSet(LAMBDA k, e : WithKey(e, k), d, Of(t))

-----------------------------------------------------------------------------
(* The plan *)

\* The type that a column of the source is added with, and looked for afterwards.
ColumnType(x) == Source.col[x].type

Step(kind, name) == [kind |-> kind, name |-> name]
Where(s, Test(_), kind) == LET kept == SelectSeq(s, Test) IN [n \in DOMAIN kept |-> Step(kind, kept[n])]

Missing(c, x) == Has(c, TableOf[x]) /\ c.col[x] = Absent

(* Mutant: a column that is added is not made NOT NULL. *)
ToMakeNotNullExisting(c, x) == c.col[x] # Absent /\ Source.col[x].null = "N" /\ c.col[x].null = "Y"

ToMakeNotNull(c, x) ==
    Has(c, TableOf[x]) /\ Source.col[x].null = "N" /\ (c.col[x] = Absent \/ c.col[x].null = "Y")

\* A check whose condition is all that differs is replaced.
Replaced(c, k) ==
    KindOf[k] = "check" /\ c.con[k] # Absent /\ c.con[k] # Source.con[k] /\ c.con[k].on = Source.con[k].on

\* Another difference of something with the same name refuses the build.
Refused(c) ==
    \/ \E x \in ColumnSet : c.col[x] # Absent /\ c.col[x].type # ColumnType(x)
    \/ \E k \in ConstraintSet : c.con[k] \notin {Absent, Source.con[k]} /\ ~Replaced(c, k)

Plan(c) ==
    Where(Tables, LAMBDA t : ~Has(c, t), "table") \o
    Where(Columns, LAMBDA x : Missing(c, x), "column") \o
    Where(Columns, LAMBDA x : ToMakeNotNull(c, x), "notnull") \o
    LET kept == SelectSeq(Constraints, LAMBDA k : c.con[k] = Absent \/ Replaced(c, k))
    IN [n \in DOMAIN kept |-> Step(IF c.con[kept[n]] = Absent THEN "constraint" ELSE "replace", kept[n])] \o
    Where(Indexes, LAMBDA i : c.idx[i] = Absent /\ ~SameColumns(c, i), "index") \o
    FlattenSeq([n \in DOMAIN Sequenced |->
        (IF c.seq[Sequenced[n]] = Absent THEN <<Step("sequence", Sequenced[n])>> ELSE <<>>)
        \o <<Step("sync", Sequenced[n])>>])

(* Mutant: nothing is asked of the rows before a column becomes NOT NULL. *)
PreconditionsNone(c) == {}

\* Tables that must be empty, columns that must hold no NULL.
Preconditions(c) ==
    {Step("empty", TableOf[x]) : x \in {y \in ColumnSet : ToMakeNotNull(c, y) /\ Missing(c, y)}} \cup
    {Step("full", x) : x \in {y \in ColumnSet : ToMakeNotNull(c, y) /\ ~Missing(c, y)}}

Holds(p) == IF p.kind = "empty" THEN Has(cat, p.name) /\ rows[p.name].top = 0
            ELSE cat.col[p.name] # Absent /\ p.name \notin rows[TableOf[p.name]].nulls

\* What the checks after the migration ask of a step.
After(s) ==
    CASE s.kind = "table" -> Has(cat, s.name)
      [] s.kind = "column" -> cat.col[s.name] # Absent /\ cat.col[s.name].type = ColumnType(s.name)
      [] s.kind = "notnull" -> cat.col[s.name] = Absent \/ cat.col[s.name].null = "N"
      [] s.kind \in {"constraint", "replace"} -> cat.con[s.name] # Absent /\ cat.con[s.name].on = Source.con[s.name].on
      [] s.kind = "index" -> cat.idx[s.name] # Absent
      [] OTHER -> cat.seq[s.name] # Absent

(* What the generator leaves to its reader: that the rows satisfy a new    *)
(* constraint; and that its order, tables, columns, constraints, indexes   *)
(* and then sequences, each by name, suits what depends on what.           *)
Fits(c, r) ==
    /\ \A n \in DOMAIN Tables : ~Has(c, Tables[n]) =>
          CanCreate(FoldSet(LAMBDA m, d : Created(d, Tables[m]), c, {m \in 1..n-1 : ~Has(c, Tables[m])}), Tables[n])
    /\ \A k \in ConstraintSet : c.con[k] = Absent \/ Replaced(c, k) =>
          /\ Source.con[k].on => RowsAllow(r, k)
          /\ KindOf[k] = "foreign" => Enabled(c, KeyOf[k]) \/ ~Has(c, TableOf[KeyOf[k]])
    /\ \A i \in IndexSet : c.idx[i] = Absent =>
          \A k \in ConstraintSet : KindOf[k] = "key" /\ TableOf[k] = TableOf[i] /\ k # i => Source.idx[k] # Source.idx[i]

-----------------------------------------------------------------------------
(* The build *)

NoBuild == [pc |-> "idle", cat |-> Absent, rows |-> Absent, folder |-> <<>>]

Init ==
    /\ cat \in Targets
    /\ rows \in [TableSet -> [top : {0, 1}, nulls : SUBSET ColumnSet, breaks : SUBSET Conditions]]
    /\ \A t \in TableSet :
          /\ \A x \in rows[t].nulls : TableOf[x] = t /\ rows[t].top > 0 /\ cat.col[x] # Absent /\ cat.col[x].null = "Y"
          /\ rows[t].breaks # {} => rows[t].top > 0
          /\ rows[t].top > 0 => Has(cat, t) /\ t \in Filled
          /\ \A k \in Of(t) : Enabled(cat, k) => cat.con[k].def \notin rows[t].breaks
    /\ changes = 0 /\ folder = <<>> /\ skewed = {}
    /\ build = NoBuild
    /\ run = [pc |-> "idle", of |-> 0, at |-> 0, part |-> 0, last |-> 0]

Capture ==
    /\ build.pc = "idle" /\ Len(folder) < MaxFolders
    /\ ~Refused(cat)
    /\ build' = [build EXCEPT !.pc = "captured", !.cat = cat, !.rows = rows]
    /\ UNCHANGED <<cat, rows, changes, folder, run, skewed>>

NewFolder(b) ==
    [steps |-> Plan(b.cat), pre |-> Preconditions(b.cat), tried |-> FALSE,
     clean |-> b.cat = cat /\ b.rows = rows, fits |-> Fits(b.cat, b.rows)]

SamePayload(f, g) == f.steps = g.steps /\ f.pre = g.pre

\* The latest revision is left alone if it says the same, applied or not.
Stage ==
    /\ build.pc = "captured"
    /\ build' = IF folder # <<>> /\ SamePayload(Last(folder), NewFolder(build)) THEN NoBuild
                ELSE [build EXCEPT !.folder = folder, !.pc = "staged"]
    /\ UNCHANGED <<cat, rows, changes, folder, run, skewed>>

\* Evidence that has arrived while it was staged refuses the installation.
Evidence(fs) == [k \in DOMAIN fs |-> fs[k].tried]
Install ==
    /\ build.pc = "staged"
    /\ folder' = IF Evidence(folder) = Evidence(build.folder) THEN Append(folder, NewFolder(build)) ELSE folder
    /\ build' = NoBuild
    /\ UNCHANGED <<cat, rows, changes, run, skewed>>

-----------------------------------------------------------------------------
(* The apply *)

This == folder[run.of].steps[run.at]
Idle == run.pc \in {"idle", "verified", "failed", "unverified", "killed", "refused"}

Begin(f) ==
    /\ Idle /\ ~folder[f].tried
    /\ IF \A p \in folder[f].pre : Holds(p)
         THEN /\ folder' = [folder EXCEPT ![f].tried = TRUE]
              /\ run' = [run EXCEPT !.pc = "step", !.of = f, !.at = 1, !.part = 0]
         ELSE folder' = folder /\ run' = [run EXCEPT !.pc = "refused", !.of = f]
    /\ UNCHANGED <<cat, rows, changes, build, skewed>>

Onward == run' = [run EXCEPT !.at = @ + 1, !.part = 0, !.last = 0]
Broken == run' = [run EXCEPT !.pc = "failed"] /\ cat' = cat
Statement(kind) == run.pc = "step" /\ run.at <= Len(folder[run.of].steps) /\ This.kind = kind
Other == UNCHANGED <<rows, changes, folder, build, skewed>>

CreateTable ==
    /\ Statement("table")
    /\ IF Has(cat, This.name) THEN Onward /\ cat' = cat
       ELSE IF CanCreate(cat, This.name) THEN Onward /\ cat' = Created(cat, This.name)
       ELSE Broken
    /\ Other

AddColumn ==
    /\ Statement("column")
    /\ IF cat.col[This.name] # Absent THEN Onward /\ cat' = cat /\ rows' = rows
       ELSE IF Has(cat, TableOf[This.name])
         THEN /\ Onward
              /\ cat' = [cat EXCEPT !.col[This.name] = [type |-> ColumnType(This.name), null |-> "Y"]]
              /\ rows' = [rows EXCEPT ![TableOf[This.name]].nulls = IF rows[TableOf[This.name]].top > 0 THEN @ \cup {This.name} ELSE @]
       ELSE Broken /\ rows' = rows
    /\ UNCHANGED <<changes, folder, build, skewed>>

MakeNotNull ==
    /\ Statement("notnull")
    /\ IF cat.col[This.name] = Absent THEN Broken
       ELSE IF cat.col[This.name].null = "N" THEN Onward /\ cat' = cat
       ELSE IF This.name \in rows[TableOf[This.name]].nulls THEN Broken
       ELSE Onward /\ cat' = [cat EXCEPT !.col[This.name].null = "N"]
    /\ Other

Add(k) ==
    IF CanAdd(cat, rows, k) THEN Onward /\ cat' = WithKey([cat EXCEPT !.con[k] = Source.con[k]], k) ELSE Broken
Enable(k) ==
    IF RowsAllow(rows, k) THEN Onward /\ cat' = [cat EXCEPT !.con[k].on = TRUE] ELSE Broken

AddConstraint ==
    /\ Statement("constraint")
    /\ IF cat.con[This.name] = Absent THEN Add(This.name)
       ELSE IF ~cat.con[This.name].on /\ Source.con[This.name].on THEN Enable(This.name)
       ELSE Onward /\ cat' = cat
    /\ Other

\* The old condition is dropped, and that is committed, before the new one is added.
ReplaceCheck ==
    /\ Statement("replace")
    /\ IF cat.con[This.name] # Absent /\ cat.con[This.name].def # Source.con[This.name].def
         THEN cat' = [cat EXCEPT !.con[This.name] = Absent] /\ run' = [run EXCEPT !.part = 1]
       ELSE IF cat.con[This.name] = Absent THEN Add(This.name)
       ELSE IF ~cat.con[This.name].on THEN Enable(This.name)
       ELSE Onward /\ cat' = cat
    /\ Other

\* ORA-01408: the columns are indexed already.
CreateIndex ==
    /\ Statement("index")
    /\ IF cat.idx[This.name] # Absent THEN Onward /\ cat' = cat
       ELSE IF SameColumns(cat, This.name) \/ ~Has(cat, TableOf[This.name]) THEN Broken
       ELSE Onward /\ cat' = [cat EXCEPT !.idx[This.name] = Source.idx[This.name]]
    /\ Other

CreateSequence ==
    /\ Statement("sequence")
    /\ cat' = [cat EXCEPT !.seq[This.name] = IF @ = Absent THEN [last |-> 0, inc |-> Source.seq[This.name].inc] ELSE @]
    /\ Onward
    /\ Other

(* Mutant: the larger increment is taken back before a number is drawn. *)
PassesUndrawn(s) == 2
\* Numbers drawn with the larger increment.
Passes(s) == 1

\* Draw a number; compare with the largest id; widen the step; draw; restore it.
SyncSequence ==
    /\ Statement("sync")
    /\ LET s == This.name
           drawn == cat.seq[s].last + cat.seq[s].inc
       IN IF cat.seq[s] = Absent \/ ~Has(cat, FeedsTable[s]) THEN Broken /\ skewed' = skewed
          ELSE \/ run.part = 0
                  /\ cat' = [cat EXCEPT !.seq[s].last = drawn]
                  /\ run' = [run EXCEPT !.part = 1, !.last = drawn] /\ skewed' = skewed
               \/ run.part = 1
                  /\ IF run.last > rows[FeedsTable[s]].top THEN Onward /\ UNCHANGED <<cat, skewed>>
                     ELSE /\ cat' = [cat EXCEPT !.seq[s].inc = rows[FeedsTable[s]].top + 1 - run.last]
                          /\ run' = [run EXCEPT !.part = 1 + Passes(s)] /\ skewed' = skewed \cup {s}
               \/ run.part = 2
                  /\ cat' = [cat EXCEPT !.seq[s].last = drawn]
                  /\ run' = [run EXCEPT !.part = 3] /\ skewed' = skewed
               \/ run.part = 3
                  /\ cat' = [cat EXCEPT !.seq[s].inc = Source.seq[s].inc]
                  /\ Onward /\ skewed' = skewed \ {s}
    /\ UNCHANGED <<rows, changes, folder, build>>

Verify ==
    /\ run.pc = "step" /\ run.at > Len(folder[run.of].steps)
    /\ run' = [run EXCEPT !.pc = IF \A n \in DOMAIN folder[run.of].steps : After(folder[run.of].steps[n])
                                   THEN "verified" ELSE "unverified"]
    /\ UNCHANGED <<cat, rows, changes, folder, build, skewed>>

Kill ==
    /\ run.pc = "step"
    /\ run' = [run EXCEPT !.pc = "killed"]
    /\ UNCHANGED <<cat, rows, changes, folder, build, skewed>>

-----------------------------------------------------------------------------
(* Other sessions *)

Stale == folder' = [f \in DOMAIN folder |-> [folder[f] EXCEPT !.clean = FALSE]]
Change == changes < MaxChanges /\ changes' = changes + 1 /\ Stale /\ UNCHANGED <<build, run, skewed>>

\* A row with the next id of a sequence, or with one of its own.
Insert(t, nulls, breaks) ==
    /\ Has(cat, t)
    /\ \A x \in nulls : TableOf[x] = t /\ cat.col[x] # Absent /\ cat.col[x].null = "Y"
    /\ \A k \in Of(t) : Enabled(cat, k) =>
          /\ cat.con[k].def \notin breaks
          /\ KindOf[k] = "foreign" => rows[TableOf[KeyOf[k]]].top > 0
    /\ \/ /\ rows[t].top < MaxId
          /\ rows' = [rows EXCEPT ![t] = [top |-> @.top + 1, nulls |-> @.nulls \cup nulls, breaks |-> @.breaks \cup breaks]]
          /\ cat' = cat
       \/ \E s \in SequenceSet :
             /\ FeedsTable[s] = t /\ cat.seq[s] # Absent
             /\ LET id == cat.seq[s].last + cat.seq[s].inc IN
                /\ id > rows[t].top
                /\ cat' = [cat EXCEPT !.seq[s].last = id]
                /\ rows' = [rows EXCEPT ![t] = [top |-> id, nulls |-> @.nulls \cup nulls, breaks |-> @.breaks \cup breaks]]
    /\ Change

Disable(k) ==
    /\ Enabled(cat, k) /\ KindOf[k] # "key"
    /\ cat' = [cat EXCEPT !.con[k].on = FALSE]
    /\ rows' = rows /\ Change

IndexAppears(i) ==
    /\ Has(cat, TableOf[i]) /\ cat.idx[i] = Absent /\ ~SameColumns(cat, i)
    /\ cat' = [cat EXCEPT !.idx[i] = Source.idx[i]]
    /\ rows' = rows /\ Change

Next ==
    \/ Capture \/ Stage \/ Install
    \/ \E f \in DOMAIN folder : Begin(f)
    \/ CreateTable \/ AddColumn \/ MakeNotNull \/ AddConstraint \/ ReplaceCheck
    \/ CreateIndex \/ CreateSequence \/ SyncSequence \/ Verify \/ Kill
    \/ \E t \in Filled, nulls \in SUBSET ColumnSet, breaks \in SUBSET Conditions : Insert(t, nulls, breaks)
    \/ \E k \in ConstraintSet : Disable(k)
    \/ \E i \in IndexSet : IndexAppears(i)

Spec == Init /\ [][Next]_vars

-----------------------------------------------------------------------------
(* Properties *)

(* Every DDL statement commits, so a batch that fails half-way stays half  *)
(* done.  A folder whose preconditions hold runs to its end if nobody      *)
(* changed the target since it was captured; excepted is what the          *)
(* generator leaves to its reader (Fits).                                  *)
RunsToTheEnd == run.pc = "failed" => ~(folder[run.of].clean /\ folder[run.of].fits)

\* What docs/baseline.md says a target has in the end: an index may have another name.
Covers ==
    /\ \A x \in ColumnSet : cat.col[x] # Absent /\ cat.col[x].type = Source.col[x].type
                                 /\ (Source.col[x].null = "N" => cat.col[x].null = "N")
    /\ \A k \in ConstraintSet : cat.con[k] = Source.con[k]
    /\ \A i \in IndexSet : cat.idx[i] # Absent \/ SameColumns(cat, i)
    /\ \A s \in SequenceSet : cat.seq[s] # Absent

(* However many attempts were killed or failed before, and whichever       *)
(* revision is the one that succeeds: a folder that ran to its end with    *)
(* its checks passed, on a target that nobody else changed, leaves there   *)
(* all that the source has.                                                *)
Converges == run.pc = "verified" /\ folder[run.of].clean => Covers

(* The next number of a sequence is beyond every id in the table it feeds, *)
(* also when others draw numbers and insert while it is moved, and it      *)
(* moves in the steps it always had, unless a killed run left another one. *)
GeneratorIsAhead ==
    run.pc = "verified" /\ folder[run.of].clean =>
        \A s \in SequenceSet :
            /\ cat.seq[s].last + cat.seq[s].inc > rows[FeedsTable[s]].top
            /\ s \notin skewed => cat.seq[s].inc = Source.seq[s].inc

(* "Generation is additive and intentionally bounded.  It does not drop    *)
(* objects" (docs/baseline.md:238): a check constraint that the target had *)
(* is there, with one condition or the other, when a run has ended.        *)
ChecksAreKept ==
    run.pc = "failed" => \A n \in DOMAIN folder[run.of].steps :
        folder[run.of].steps[n].kind = "replace" => cat.con[folder[run.of].steps[n].name] # Absent

(* A run of the generated folders keeps its promises: it gets to its end if  *)
(* its preconditions held, and then the target has what the source has, with *)
(* its sequences ahead of the ids (_structure_bundle, _sync_identity_sql).   *)
TargetConverges == RunsToTheEnd /\ Converges /\ GeneratorIsAhead

=============================================================================
