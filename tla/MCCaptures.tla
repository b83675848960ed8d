----------------------------- MODULE MCCaptures ------------------------------
(***************************************************************************)
(* Small instances of what looks at a shared schema first and then decides *)
(* what runs there: the preflight of a selection of migration folders      *)
(* against the target, the preflight of the checkpoints of a capsule, the  *)
(* generation of folders for the structure of a baseline, and a DEV test   *)
(* run with its cleanups.  A behaviour is one of one of them; the          *)
(* variables of the others are off.                                        *)
(***************************************************************************)
EXTENDS Naturals, Sequences, FiniteSets, TLC

CONSTANTS
    Parts,        \* which of them are explored
    Off, None, Absent,
    MaxChanges,   \* bound: changes by others
    s1, s2, o1, o2, o3, c1, c2, k1, k2

VARIABLES
    part,         \* the module whose behaviour this is
    batch, verdict, schema, changes, disk, pc, tries, inventory, before, cols,
    checks, quiet, capsule, cp, line, plans, outcome, late, cat, rows, folder,
    build, run, skewed, suite, db, key, pending, answer, events, report,
    frozen, cleaner, drops, excused

vars ==
    <<part, batch, verdict, schema, changes, disk, pc, tries, inventory,
      before, cols, checks, quiet, capsule, cp, line, plans, outcome, late,
      cat, rows, folder, build, run, skewed, suite, db, key, pending, answer,
      events, report, frozen, cleaner, drops, excused>>

\* Every selection of two folders over two names, on every small schema.
Names == {"n", "m"}

Op(kind, n, c, deps, replace, review) ==
    [kind |-> kind, name |-> n, cols |-> c, deps |-> deps, replace |-> replace, review |-> review]

Operations(n) ==
    LET other == Names \ {n} IN
    {Op("CREATE_TABLE", n, {"a"}, {}, FALSE, "none"),
     Op("CREATE_SEQUENCE", n, {}, {}, FALSE, "both"),
     Op("CREATE_VIEW", n, {}, other, FALSE, "none"),
     Op("CREATE_VIEW", n, {}, other, TRUE, "pre"),
     Op("CREATE_VIEW", n, {}, {}, TRUE, "none"),
     Op("CREATE_INDEX", n, {"a"}, {}, FALSE, "none"),
     Op("CREATE_INDEX", n, {"b"}, {}, FALSE, "none"),
     Op("ALTER_ADD_COLUMN", n, {"b"}, {}, FALSE, "none"),
     Op("OPAQUE", n, {}, {}, FALSE, "both"),
     Op("OPAQUE", n, {}, {}, FALSE, "none")}

TwoFolders == {<<p, q>> : p \in Operations("n"), q \in Operations("n") \cup Operations("m")}

OneOf == {<<"none", {}>>, <<"TABLE", {"a"}>>, <<"TABLE", {"a", "b"}>>, <<"VIEW", {}>>, <<"SYNONYM", {}>>}
AnySchema ==
    {[obj |-> [n |-> x[1], m |-> y[1]], cols |-> [n |-> x[2], m |-> y[2]], idx |-> i] :
        x \in OneOf, y \in OneOf \ {<<"SYNONYM", {}>>}, i \in BOOLEAN}

\* Every capsule of two statements over the names, in one or in two checkpoints,
\* and some of three checkpoints.
Stmt(kind, n, columns, deps, replace) ==
    [kind |-> kind, name |-> n, cols |-> columns, deps |-> deps, replace |-> replace]

Statements ==
    UNION {{Stmt("CREATE_TABLE", p[1], {"a"}, {}, FALSE),
            Stmt("CREATE_VIEW", p[1], {"a"}, {p[2]}, FALSE),
            Stmt("CREATE_VIEW", p[1], {"a"}, {p[2]}, TRUE),
            Stmt("CREATE_INDEX", p[1], {"a"}, {}, FALSE),
            Stmt("ALTER_ADD_COLUMN", p[1], {"b"}, {}, FALSE),
            Stmt("CREATE_SYNONYM", p[1], {}, {p[2]}, FALSE)} : p \in {<<"n", "m">>, <<"m", "n">>}}

Pairs ==
    {<<<<p, q>>>> : p \in Statements, q \in Statements}
    \cup {<<<<p>>, <<q>>>> : p \in Statements, q \in Statements}

Triples ==
    {<<<<Stmt("CREATE_TABLE", "n", {"a"}, {}, FALSE)>>, <<p>>, <<q>>>> :
        p \in Statements, q \in {Stmt("CREATE_VIEW", "m", {"a"}, {"n"}, FALSE),
                                 Stmt("CREATE_INDEX", "n", {"a"}, {}, FALSE),
                                 Stmt("ALTER_ADD_COLUMN", "n", {"c"}, {}, FALSE)}}

AllCapsules == Pairs \cup Triples

Schema(n, m, i) ==
    [obj |-> [n |-> n[1], m |-> m[1]],
     cols |-> [n |-> n[2], m |-> m[2]],
     deps |-> [n |-> n[3], m |-> m[3]], idx |-> i]

Nothing == <<"none", {}, {}>>
Table == <<"TABLE", {"a"}, {}>>
CapsuleSchemas ==
    {Schema(Nothing, Nothing, "no table"), Schema(Table, Nothing, "no table"), Schema(Nothing, Table, "no table"),
     Schema(Table, Table, "m"), Schema(Table, <<"VIEW", {"a"}, {"n"}>>, "no table"),
     Schema(Table, <<"SYNONYM", {}, {"n"}>>, "no table")}

\* Table a refers to table b, whose ids come from the sequence s; b has a key,
\* a check and an index.
ColumnSeq == <<"a.x", "b.id", "b.y">>
TableMap == [x \in {"a.x", "a_fk", "b.id", "b.y", "b_ck", "b_pk", "b_ix"} |-> IF x \in {"a.x", "a_fk"} THEN "a" ELSE "b"]
On(def) == [def |-> def, on |-> TRUE]

Col(null) == [type |-> "t1", null |-> null]

SourceSchema ==
    [col |-> [x \in {"a.x", "b.id", "b.y"} |-> Col("N")],
     con |-> [a_fk |-> On("fk"), b_ck |-> On("c1"), b_pk |-> On("pk")],
     idx |-> [b_ix |-> "y", b_pk |-> "id"],
     seq |-> [s |-> [last |-> 3, inc |-> 1]]]

\* What the target can be like: any part of it may be missing.
TargetSchemas ==
    {c \in [col : [{"a.x", "b.id", "b.y"} -> {Absent, Col("N"), Col("Y")}],
            con : [a_fk : {Absent, On("fk")}, b_ck : {Absent, On("c1"), On("c2")}, b_pk : {Absent, On("pk")}],
            idx : [b_ix : {Absent, "y"}, b_pk : {Absent, "id"}],
            seq : [s : {Absent, [last |-> 0, inc |-> 1]}]] :
        /\ c.col["a.x"] # Col("Y") /\ c.col["b.id"] # Col("Y")
        /\ c.col["b.id"] = Absent => c.col["b.y"] = Absent /\ c.con.b_pk = Absent
        /\ c.col["a.x"] = Absent => c.con.a_fk = Absent
        /\ c.col["b.y"] = Absent => c.con.b_ck = Absent /\ c.idx.b_ix = Absent
        /\ c.con.a_fk # Absent => c.con.b_pk # Absent
        /\ c.seq.s = Absent => c.col["b.id"] = Absent
        /\ (c.con.b_pk = Absent) = (c.idx.b_pk = Absent)}
\* The cleanups, and the keys a selector may return.
Interchangeable == Permutations({c1, c2}) \cup Permutations({k1, k2})

-----------------------------------------------------------------------------
\* One repetition of a capture that found another object set.
Preflight == INSTANCE MigrationPreflight WITH
    Name <- Names, Batches <- TwoFolders, Schemas <- AnySchema, Retries <- 1, MaxChanges <- 1

InitPreflight ==
    /\ part = "preflight" /\ Preflight!Init
    /\ capsule = Off /\ cp = Off /\ line = Off /\ plans = Off
    /\ outcome = Off /\ late = Off /\ cat = Off /\ rows = Off
    /\ folder = Off /\ build = Off /\ run = Off /\ skewed = Off
    /\ suite = Off /\ db = Off /\ key = Off /\ pending = Off
    /\ answer = Off /\ events = Off /\ report = Off /\ frozen = Off
    /\ cleaner = Off /\ drops = Off /\ excused = Off

StepPreflight ==
    /\ part = "preflight" /\ Preflight!Next
    /\ UNCHANGED <<part, capsule, cp, line, plans, outcome, late, cat, rows,
                   folder, build, run, skewed, suite, db, key, pending,
                   answer, events, report, frozen, cleaner, drops, excused>>

\* Two changes by somebody else.
Checkpoint == INSTANCE CheckpointPreflight WITH
    Name <- Names, Column <- {"a", "b", "c"}, Capsules <- AllCapsules, Schemas <- CapsuleSchemas,
    MaxChanges <- 2

InitCheckpoint ==
    /\ part = "checkpoint" /\ Checkpoint!Init
    /\ batch = Off /\ verdict = Off /\ disk = Off /\ tries = Off
    /\ inventory = Off /\ before = Off /\ cols = Off /\ checks = Off
    /\ quiet = Off /\ cat = Off /\ rows = Off /\ folder = Off
    /\ build = Off /\ run = Off /\ skewed = Off /\ suite = Off
    /\ db = Off /\ key = Off /\ pending = Off /\ answer = Off
    /\ events = Off /\ report = Off /\ frozen = Off /\ cleaner = Off
    /\ drops = Off /\ excused = Off

StepCheckpoint ==
    /\ part = "checkpoint" /\ Checkpoint!Next
    /\ UNCHANGED <<part, batch, verdict, disk, tries, inventory, before, cols,
                   checks, quiet, cat, rows, folder, build, run, skewed,
                   suite, db, key, pending, answer, events, report, frozen,
                   cleaner, drops, excused>>

\* Two revisions of the generated folder.
Structure == INSTANCE BaselineStructure WITH
    Tables <- <<"a", "b">>, Columns <- ColumnSeq, Constraints <- <<"a_fk", "b_ck", "b_pk">>,
    Indexes <- <<"b_ix", "b_pk">>, Sequenced <- <<"s">>, TableOf <- TableMap,
    KindOf <- [a_fk |-> "foreign", b_ck |-> "check", b_pk |-> "key"], KeyOf <- [a_fk |-> "b_pk"],
    DefaultOf <- [a |-> Absent, b |-> Absent], FeedsTable <- [s |-> "b"],
    Source <- SourceSchema, Targets <- TargetSchemas, Conditions <- {"c1"},
    MaxFolders <- 2, Filled <- {"b"}, MaxId <- 2

InitStructure ==
    /\ part = "structure" /\ Structure!Init
    /\ batch = Off /\ verdict = Off /\ schema = Off /\ disk = Off
    /\ pc = Off /\ tries = Off /\ inventory = Off /\ before = Off
    /\ cols = Off /\ checks = Off /\ quiet = Off /\ capsule = Off
    /\ cp = Off /\ line = Off /\ plans = Off /\ outcome = Off
    /\ late = Off /\ suite = Off /\ db = Off /\ key = Off
    /\ pending = Off /\ answer = Off /\ events = Off /\ report = Off
    /\ frozen = Off /\ cleaner = Off /\ drops = Off /\ excused = Off

StepStructure ==
    /\ part = "structure" /\ Structure!Next
    /\ UNCHANGED <<part, batch, verdict, schema, disk, pc, tries, inventory,
                   before, cols, checks, quiet, capsule, cp, line, plans,
                   outcome, late, suite, db, key, pending, answer, events,
                   report, frozen, cleaner, drops, excused>>

\* Two scenarios: the first creates two objects, the second, which a project
\* suite makes depend on it, one.  A suite of a project has contracts for both,
\* or expects an error of the first scenario's last step and has no contract
\* for the second.
Suite(origin, contract, refused) == [origin |-> origin, contract |-> contract, refused |-> refused]

Tests == INSTANCE DevTest WITH
    Suites <- {Suite("builtin", {}, {}), Suite("project", {s1, s2}, {}), Suite("project", {s1}, {o2})},
    Plan <- <<s1, s2>>, Fixture <- (s1 :> <<o1, o2>>) @@ (s2 :> <<o3>>),
    DependsOn <- (s1 :> {}) @@ (s2 :> {s1}), Key <- {k1, k2}, Cleaner <- {c1, c2}

InitDevTest ==
    /\ part = "devTest" /\ Tests!Init
    /\ batch = Off /\ verdict = Off /\ schema = Off /\ disk = Off
    /\ pc = Off /\ tries = Off /\ before = Off /\ cols = Off
    /\ checks = Off /\ quiet = Off /\ capsule = Off /\ cp = Off
    /\ line = Off /\ plans = Off /\ outcome = Off /\ late = Off
    /\ cat = Off /\ folder = Off /\ build = Off /\ skewed = Off

StepDevTest ==
    /\ part = "devTest" /\ Tests!Next
    /\ UNCHANGED <<part, batch, verdict, schema, disk, pc, tries, before,
                   cols, checks, quiet, capsule, cp, line, plans, outcome,
                   late, cat, folder, build, skewed>>

-----------------------------------------------------------------------------
Init ==
    /\ part \in Parts
    /\ InitPreflight \/ InitCheckpoint \/ InitStructure \/ InitDevTest

Next == StepPreflight \/ StepCheckpoint \/ StepStructure \/ StepDevTest

Spec == Init /\ [][Next]_vars

-----------------------------------------------------------------------------
(* The properties of the parts, as their modules state and explain them.    *)

\* What passes the preflight runs, what it refuses would not have.
VerdictIsRight == part = "preflight" => Preflight!VerdictIsRight

\* A checkpoint begins as it was planned, and what begins is finished.
PlanHolds == part = "checkpoint" => Checkpoint!PlanHolds

\* "may add only its recorded effects" (feature_preflight.py:1065).
OwnEffectsAreAccepted == part = "checkpoint" => Checkpoint!OwnEffectsAreAccepted

\* The generated folders run to their end and leave what the source has.
TargetConverges == part = "structure" => Structure!TargetConverges

\* "It does not drop objects" (docs/baseline.md:238).
ChecksAreKept == part = "structure" => Structure!ChecksAreKept

\* Exit codes, PASSED and COMPLETE of a DEV test are true (dev_test.py).
ReportIsHonest == part = "devTest" => Tests!ReportIsHonest

\* A cleanup drops what is the run's own (dev_test_cleanup.py _drop_sql).
OnlyOwnIsDropped == [][part = "devTest" => Tests!DropsAsMade /\ Tests!DropsOnlySettled]_vars

=============================================================================
