------------------------- MODULE CheckpointPreflight ------------------------
(***************************************************************************)
(* The checkpoints of a capsule against one schema of its target           *)
(* (scripts/feature_preflight.py, prepare_target and                       *)
(* _execute_checkpoint_under_lease of scripts/feature_release.py): the     *)
(* preparation captures what each checkpoint is about and proves its DDL   *)
(* against that and against the effects of the checkpoints before it.  The *)
(* run captures again, takes the recorded effects of the earlier           *)
(* checkpoints away, wants what was planned, runs the preconditions, and   *)
(* then the statements, each of which commits for itself.                  *)
(*                                                                         *)
(* A schema has a few names of the common namespace and one index name.    *)
(* A checkpoint is a sequence of statements.                               *)
(***************************************************************************)
EXTENDS Naturals, Sequences, FiniteSets, SequencesExt

CONSTANTS
    Name,         \* names of the common namespace
    Column,
    Capsules,     \* the capsules that are released
    Schemas,      \* what the target may hold at first
    MaxChanges    \* bound: changes of the target by others

VARIABLES
    schema,       \* the target: [obj, cols, deps, idx]
    changes,      \* changes made to it by others
    capsule,      \* its checkpoints
    pc,           \* "prepare", "capture", "checks", "session", "payload", "verify", "end"
    cp, line,     \* checkpoint and statement that are due
    plans,        \* the guards of the prepared target plan
    outcome,      \* how it ended
    late          \* others changed the target after the capture of the run

vars == <<schema, changes, capsule, pc, cp, line, plans, outcome, late>>

Selectable == {"TABLE", "VIEW"}
NoIndex == "no table"

Init ==
    /\ schema \in Schemas /\ changes = 0
    /\ capsule \in Capsules
    /\ pc = "prepare" /\ cp = 1 /\ line = 1
    /\ plans = <<>> /\ outcome = "open" /\ late = FALSE

-----------------------------------------------------------------------------
(* Statements, and what the database does with them *)

Creates(op) == op.kind \in {"CREATE_TABLE", "CREATE_VIEW", "CREATE_SYNONYM"}
Type(op) ==
    CASE op.kind = "CREATE_TABLE" -> "TABLE" [] op.kind = "CREATE_VIEW" -> "VIEW" [] OTHER -> "SYNONYM"

Resolves(s, d) ==
    s.obj[d] \in Selectable \/ (s.obj[d] = "SYNONYM" /\ \E t \in s.deps[d] : s.obj[t] \in Selectable)

Works(s, op) ==
    CASE op.kind = "CREATE_INDEX" -> s.idx = NoIndex /\ s.obj[op.name] = "TABLE" /\ op.cols \subseteq s.cols[op.name]
      [] op.kind = "ALTER_ADD_COLUMN" -> s.obj[op.name] = "TABLE" /\ op.cols \cap s.cols[op.name] = {}
      [] op.kind = "CREATE_VIEW" ->
            /\ s.obj[op.name] = "none" \/ (op.replace /\ s.obj[op.name] = "VIEW")
            /\ \A d \in op.deps : Resolves(s, d)
      [] OTHER -> s.obj[op.name] = "none"

Effect(s, op) ==
    CASE op.kind = "CREATE_INDEX" -> [s EXCEPT !.idx = op.name]
      [] op.kind = "ALTER_ADD_COLUMN" -> [s EXCEPT !.cols[op.name] = @ \cup op.cols]
      [] OTHER -> [s EXCEPT !.obj[op.name] = Type(op), !.cols[op.name] = op.cols, !.deps[op.name] = op.deps]

-----------------------------------------------------------------------------
(* capture_selected_state: the catalog rows of the selected names *)

Row(section, n, of) == [section |-> section, name |-> n, of |-> of]

\* The names of a checkpoint: what its statements name and what they refer to.
Scope(ops) == UNION {{ops[k].name} \cup ops[k].deps : k \in DOMAIN ops}
IndexNamed(ops) == \E k \in DOMAIN ops : ops[k].kind = "CREATE_INDEX"

Rows(s, ops) ==
    LET scope == Scope(ops)
        Section(type) ==
            CASE type = "TABLE" -> "tables" [] type = "VIEW" -> "views" [] OTHER -> "synonyms"
        Near(n) == n \in scope \/ (s.obj[n] = "SYNONYM" /\ s.deps[n] \cap scope # {})
    IN {Row(Section(s.obj[n]), n, "") : n \in {m \in Name : s.obj[m] # "none" /\ Near(m)}}
       \cup {Row("columns", n, c) : <<n, c>> \in {p \in scope \X Column : p[2] \in s.cols[p[1]]}}
       \cup {Row("feature-dependencies", p[1], p[2]) :
                p \in {q \in Name \X Name : q[2] \in s.deps[q[1]] /\ (q[1] \in scope \/ q[2] \in scope)}}
       \cup (IF s.idx # NoIndex /\ (IndexNamed(ops) \/ s.idx \in scope)
               THEN {Row("indexes", s.idx, "")} ELSE {})

-----------------------------------------------------------------------------
(* prepare_checkpoint *)

\* Statements of the earlier checkpoints, each with its checkpoint.
Prior(k) ==
    FlattenSeq([j \in 1..k - 1 |->
        [l \in DOMAIN capsule[j] |-> [op |-> capsule[j][l], checkpoint |-> j]]])

\* The name under which a statement is recorded.  The index has its own.
Named(op, n) == op.kind # "CREATE_INDEX" /\ op.name = n

\* The catalog as the rows tell it, and what the prior statements add.
Catalog(rows) ==
    [kinds |-> [n \in Name |->
                   {t \in {"TABLE", "VIEW", "SYNONYM"} :
                       Row(CASE t = "TABLE" -> "tables" [] t = "VIEW" -> "views" [] OTHER -> "synonyms", n, "") \in rows}],
     cols |-> [n \in Name |-> {c \in Column : Row("columns", n, c) \in rows}],
     known |-> {n \in Name : \E r \in rows : r.section = "columns" /\ r.name = n},
     idx |-> \E r \in rows : r.section = "indexes"]

Simulate(acc, entry) ==
    LET op == entry.op IN
    CASE op.kind = "CREATE_INDEX" -> [acc EXCEPT !.idx = TRUE]
      [] op.kind = "ALTER_ADD_COLUMN" -> [acc EXCEPT !.cols[op.name] = @ \cup op.cols, !.known = @ \cup {op.name}]
      [] op.kind = "CREATE_TABLE" ->
            [acc EXCEPT !.kinds[op.name] = @ \cup {"TABLE"}, !.cols[op.name] = op.cols, !.known = @ \cup {op.name}]
      [] OTHER -> [acc EXCEPT !.kinds[op.name] = @ \cup {Type(op)}]

Check(what, op) == [what |-> what, op |-> op]
Presence(what, n) == [what |-> what, name |-> n]

\* The last earlier checkpoint that recorded the name, or 0.
Provider(prior, n) ==
    LET by == {i \in DOMAIN prior : Named(prior[i].op, n)}
    IN IF by = {} THEN 0 ELSE prior[CHOOSE i \in by : \A j \in by : j <= i].checkpoint

ReplacesView(acc, op) ==
    op.kind = "CREATE_VIEW" /\ op.replace /\ "VIEW" \in acc.cat.kinds[op.name]

\* A staged or a captured synonym, but not one of an earlier checkpoint.
ThroughSynonym(acc, rows, d) ==
    LET captured == {r.of : r \in {x \in rows : x.section = "feature-dependencies" /\ x.name = d}}
        targets == IF Row("synonyms", d, "") \in rows THEN captured ELSE acc.synonym[d]
    IN \E t \in targets : acc.cat.kinds[t] \cap Selectable # {}

Available(acc, rows, d) ==
    \/ acc.cat.kinds[d] \cap Selectable # {}
    \/ "SYNONYM" \in acc.cat.kinds[d] /\ ThroughSynonym(acc, rows, d)

(* Mutant: a column that an earlier statement of the checkpoint adds is    *)
(* not remembered.                                                         *)
AddForgotten(acc, op) ==
    [acc EXCEPT !.pre = @ \cup {Check("addable", op)},
                !.refused = @ \/ op.name \notin acc.cat.known \/ op.cols \cap acc.cat.cols[op.name] # {}]

Add(acc, op) ==
    [acc EXCEPT !.pre = @ \cup {Check("addable", op)},
                !.refused = @ \/ op.name \notin acc.cat.known \/ op.cols \cap acc.cat.cols[op.name] # {},
                !.cat.cols[op.name] = @ \cup op.cols]

\* The precondition of an index on a table of the same checkpoint is left out,
\* with its half about the name of the index.
Index(acc, op) ==
    [acc EXCEPT !.pre = IF op.name \in acc.staged THEN @ ELSE @ \cup {Check("indexable", op)},
                !.refused = \/ @ \/ acc.cat.idx
                            \/ op.name \notin acc.cat.known \/ ~(op.cols \subseteq acc.cat.cols[op.name]),
                !.cat.idx = TRUE]

Synonym(acc, prior, op) ==
    LET targets == {d \in op.deps : d \notin acc.staged /\ Provider(prior, d) = 0}
        staged == op.deps \cap acc.staged # {}
    IN [acc EXCEPT !.refused = \/ @ \/ op.name \in acc.staged \/ acc.cat.kinds[op.name] # {}
                               \/ \E d \in op.deps : acc.cat.kinds[d] = {},
                   !.pre = @ \cup {Presence("selectable", d) : d \in targets}
                             \cup (IF staged THEN {} ELSE {Check("no synonym", op)}),
                   !.staged = @ \cup {op.name},
                   !.synonym[op.name] = op.deps,
                   !.cat.kinds[op.name] = @ \cup {"SYNONYM"}]

Create(acc, rows, prior, op) ==
    LET replaces == ReplacesView(acc, op)
        now == [acc EXCEPT !.refused = @ \/ op.name \in acc.staged \/ (acc.cat.kinds[op.name] # {} /\ ~replaces),
                           !.staged = @ \cup {op.name},
                           !.cat.kinds[op.name] = @ \cup {Type(op)},
                           !.cat.cols[op.name] = IF op.kind = "CREATE_TABLE" THEN op.cols ELSE @,
                           !.cat.known = IF op.kind = "CREATE_TABLE" THEN @ \cup {op.name} ELSE @]
        outside == {d \in op.deps : d \notin now.staged /\ Provider(prior, d) = 0}
    IN [now EXCEPT !.refused = @ \/ \E d \in op.deps : ~Available(now, rows, d),
                   !.pre = @ \cup {Check(IF replaces THEN "view" ELSE "free", op)}
                             \cup {Presence("selectable", d) : d \in outside}]

Examine(rows, prior, acc, op) ==
    CASE op.kind = "CREATE_INDEX" -> Index(acc, op)
      [] op.kind = "ALTER_ADD_COLUMN" -> Add(acc, op)
      [] op.kind = "CREATE_SYNONYM" -> Synonym(acc, prior, op)
      [] OTHER -> Create(acc, rows, prior, op)

\* What the statements refer to, which earlier checkpoints may have provided.
Required(op) == IF op.kind \in {"CREATE_INDEX", "ALTER_ADD_COLUMN"} THEN {op.name} ELSE op.deps

Plan(k, rows) ==
    LET ops == capsule[k]
        prior == Prior(k)
        begin == [cat |-> FoldLeft(Simulate, Catalog(rows), prior), staged |-> {},
                  synonym |-> [n \in Name |-> {}], pre |-> {}, refused |-> FALSE]
        end == FoldLeft(LAMBDA acc, op : Examine(rows, prior, acc, op), begin, ops)
        required == {n \in UNION {Required(ops[l]) : l \in DOMAIN ops} : Provider(prior, n) # 0}
        checkpoints == {Provider(prior, n) : n \in required}
    IN [rows |-> rows,
        refused |-> end.refused,
        preconditions |-> end.pre \cup {Presence("present", n) : n \in {m \in required : end.cat.kinds[m] # {}}},
        priorEffects |-> {prior[i].op : i \in {j \in DOMAIN prior : prior[j].checkpoint \in checkpoints}}]

-----------------------------------------------------------------------------
(* The run *)

(* Mutant: takes away whatever bears an earlier name, or is on such a      *)
(* table.                                                                  *)
StripByName(rows, effects) ==
    {r \in rows : \A op \in effects : r.name # op.name}

\* strip_prior_effects
StripPriorEffects(rows, effects) ==
    LET created == {op \in effects : Creates(op)}
        names(kind) == {op.name : op \in {x \in created : x.kind = kind}}
        Of(r) == \/ r.section = "tables" /\ r.name \in names("CREATE_TABLE")
                 \/ r.section = "views" /\ r.name \in names("CREATE_VIEW")
                 \/ r.section = "synonyms" /\ r.name \in names("CREATE_SYNONYM")
                 \/ r.section = "columns" /\ r.name \in names("CREATE_TABLE")
                 \/ /\ r.section = "columns"
                    /\ \E op \in effects : op.kind = "ALTER_ADD_COLUMN" /\ op.name = r.name /\ r.of \in op.cols
                 \/ r.section = "indexes" /\ \E op \in effects : op.kind = "CREATE_INDEX"
                 \/ r.section = "feature-dependencies" /\ r.name \in {op.name : op \in created}
    IN {r \in rows : ~Of(r)}

Holds(s, check) ==
    CASE check.what = "addable" -> s.obj[check.op.name] = "TABLE" /\ check.op.cols \cap s.cols[check.op.name] = {}
      [] check.what = "indexable" -> Works(s, check.op)
      [] check.what = "no synonym" -> s.obj[check.op.name] # "SYNONYM"
      [] check.what = "view" -> s.obj[check.op.name] = "VIEW"
      [] check.what = "free" -> s.obj[check.op.name] = "none"
      [] check.what = "present" -> s.obj[check.name] # "none"
      [] check.what = "selectable" -> Resolves(s, check.name)

Done(s, op) ==
    CASE op.kind = "CREATE_INDEX" -> s.idx = op.name
      [] op.kind = "CREATE_TABLE" -> s.obj[op.name] = "TABLE" /\ s.cols[op.name] = op.cols
      [] op.kind = "ALTER_ADD_COLUMN" -> op.cols \subseteq s.cols[op.name]
      [] op.kind = "CREATE_VIEW" -> s.obj[op.name] = "VIEW" /\ \A d \in op.deps : Resolves(s, d)
      [] OTHER -> s.obj[op.name] = "SYNONYM" /\ s.deps[op.name] = op.deps

Conditions == \A check \in plans[cp].preconditions : Holds(schema, check)
Go(to) == pc' = to /\ UNCHANGED outcome
End(how) == outcome' = how /\ pc' = "end"

Prepare ==
    /\ pc = "prepare"
    /\ LET plan == Plan(cp, Rows(schema, capsule[cp])) IN
       IF plan.refused
         THEN End("not prepared") /\ UNCHANGED <<plans, cp>>
         ELSE /\ plans' = Append(plans, plan)
              /\ IF cp < Len(capsule) THEN cp' = cp + 1 /\ Go("prepare") ELSE cp' = 1 /\ Go("capture")
    /\ UNCHANGED <<schema, changes, capsule, line, late>>

Capture ==
    /\ pc = "capture"
    /\ late' = FALSE
    /\ IF StripPriorEffects(Rows(schema, capsule[cp]), plans[cp].priorEffects) = plans[cp].rows
         THEN Go("checks") ELSE End("changed")
    /\ UNCHANGED <<schema, changes, capsule, cp, line, plans>>

\* The preconditions: in a session of their own, then in the apply session.
RunChecks ==
    /\ pc \in {"checks", "session"}
    /\ IF Conditions
         THEN Go(IF pc = "checks" THEN "session" ELSE "payload")
         ELSE End("conditions")
    /\ line' = 1
    /\ UNCHANGED <<schema, changes, capsule, cp, plans, late>>

Statement ==
    /\ pc = "payload" /\ line <= Len(capsule[cp])
    /\ IF Works(schema, capsule[cp][line])
         THEN schema' = Effect(schema, capsule[cp][line]) /\ line' = line + 1 /\ Go("payload")
         ELSE End("failed") /\ UNCHANGED <<schema, line>>
    /\ UNCHANGED <<changes, capsule, cp, plans, late>>

Verify ==
    /\ pc = "payload" /\ line > Len(capsule[cp])
    /\ IF \E k \in DOMAIN capsule[cp] : ~Done(schema, capsule[cp][k])
         THEN End("unverified") /\ UNCHANGED cp
         ELSE IF cp < Len(capsule) THEN cp' = cp + 1 /\ Go("capture")
         ELSE End("verified") /\ UNCHANGED cp
    /\ UNCHANGED <<schema, changes, capsule, line, plans, late>>

-----------------------------------------------------------------------------
(* Others, until the run has ended *)

Change ==
    /\ pc # "end" /\ changes < MaxChanges
    /\ changes' = changes + 1
    /\ late' = (late \/ pc \in {"checks", "session", "payload"})
    /\ \E n \in Name, c \in Column :
        \/ /\ schema.obj[n] = "none"
           /\ schema' = [schema EXCEPT !.obj[n] = "TABLE", !.cols[n] = {c}]
        \/ /\ schema.obj[n] # "none"
           /\ schema' = [schema EXCEPT !.obj[n] = "none", !.cols[n] = {}, !.deps[n] = {},
                                       !.idx = IF @ = n THEN NoIndex ELSE @]
        \/ /\ schema.obj[n] = "TABLE" /\ c \notin schema.cols[n]
           /\ schema' = [schema EXCEPT !.cols[n] = @ \cup {c}]
        \/ /\ schema.idx = NoIndex /\ c \in schema.cols[n] /\ schema.obj[n] = "TABLE"
           /\ schema' = [schema EXCEPT !.idx = n]
    /\ UNCHANGED <<capsule, pc, cp, line, plans, outcome>>

Next == Prepare \/ Capture \/ RunChecks \/ Statement \/ Verify \/ Change

Spec == Init /\ [][Next]_vars

-----------------------------------------------------------------------------
(* Properties *)

\* What the analysis does not see: a view over itself, whose name it has already
\* put into the catalog, and an index on a view that the checkpoint replaces,
\* for which no precondition asks whether that is a table.
OverItself(op) ==
    op.kind = "CREATE_VIEW" /\ \E d \in op.deps : d = op.name \/ op.name \in schema.deps[d]
OnView(op) == op.kind = "CREATE_INDEX" /\ schema.obj[op.name] = "VIEW"
Unseen(ops) == \E k \in DOMAIN ops : OverItself(ops[k]) \/ OnView(ops[k])

(* A checkpoint whose plan was accepted, whose target was captured and     *)
(* found as planned, and whose preconditions hold does not stop half way   *)
(* and does not miss its postconditions, although the statements see each  *)
(* other's effects and the preconditions do not: only who changes the      *)
(* target in the seconds after the capture can make it fail.               *)
BegunIsFinished ==
    outcome \in {"failed", "unverified"} =>
        late \/ Unseen(capsule[cp])

\* What a statement of an earlier checkpoint leaves in a capture.
Leaves(op, r) ==
    CASE op.kind = "CREATE_INDEX" -> r.section = "indexes" /\ r.name = op.name
      [] op.kind = "ALTER_ADD_COLUMN" -> r.section = "columns" /\ r.name = op.name /\ r.of \in op.cols
      [] OTHER -> r.section # "indexes" /\ r.name = op.name

(* The payload starts on what was prepared: all that the plan has seen of  *)
(* the selected names is there, and what is there besides was left by an   *)
(* earlier checkpoint of the capsule.  A change by others between the      *)
(* preparation and the capture of the run is never overlooked.             *)
StartsAsPlanned ==
    pc = "session" /\ ~late =>
        LET now == Rows(schema, capsule[cp])
            earlier == Prior(cp)
        IN /\ plans[cp].rows \subseteq now
           /\ \A r \in now \ plans[cp].rows : \E i \in DOMAIN earlier : Leaves(earlier[i].op, r)

(* "A previous same-schema checkpoint may add only its recorded effects    *)
(* before this checkpoint starts" (feature_preflight.py:1065): on a target *)
(* that nobody else touches, a prepared capsule is not refused for what    *)
(* its own checkpoints did.                                                *)
OwnEffectsAreAccepted == outcome = "changed" => changes > 0

(* A checkpoint begins on the target it was planned for, and what begins is  *)
(* finished (capture_checkpoint_preflight, execute_checkpoint).              *)
PlanHolds == StartsAsPlanned /\ BegunIsFinished

=============================================================================
