------------------------ MODULE EnvironmentReadiness ------------------------
(***************************************************************************)
(* compare-env: the readiness of one environment for what another has.     *)
(* Each side is read in up to two read-only sessions, that of the          *)
(* environment and that of a DBA alias, one side after the other; what     *)
(* they saw is compared section by section.  A DBA may then run the script *)
(* of additions that the comparison writes.  Nobody holds a lock: either   *)
(* database may change between any two sessions.                           *)
(***************************************************************************)
EXTENDS Naturals, FiniteSets

CONSTANTS
    Databases,    \* the databases that the connections may reach
    Contents,     \* what a database can hold: finite sets of rows
    Stray,        \* names that no configured prefix matches
    Setups,       \* the commands that are explored
    None,
    MaxRows,      \* the rows of one section that a capture takes
    MaxChanges    \* bound: changes of the databases by others

VARIABLES
    db,           \* [Databases -> set of rows [section, order, name, value]]
    changes,      \* how often others have changed them
    setup,        \* [sections, alias, reach, dbaReach, owner, emit], see Setup
    capture,      \* what was read of each side, see NotCaptured
    stage,        \* the next step of the command
    script,       \* the statements of the script still to be run
    verdict       \* None, or the exit code

vars == <<db, changes, setup, capture, stage, script, verdict>>

Side == {"source", "target"}

\* Of the sections that need a DBA alias, "roles" also stands for system
\* privileges; "tables" stands for every section that is only compared.
DbaSections == {"roles", "network-aces", "ords"}
DbaCaptureSections == DbaSections \cup {"object-grants"}
Sections == DbaCaptureSections \cup {"tables", "invalid-objects", "versions"}
ScopedSections == {"tables", "invalid-objects", "object-grants"}

\* A row is known by its key; its value is what is compared.  The order is its
\* place in the ORDER BY of its section, which the privileges of one network
\* ACE share.  The key of an ACE holds its order and its type, grant or deny.
Key(r) ==
    IF r.section = "network-aces" THEN r
    ELSE [section |-> r.section, name |-> r.name]

InScope(r) == r.section \in ScopedSections => r.name \notin Stray

Row == [section : Sections, order : Nat, name : STRING, value : STRING]

\* Some sections are compared, all of them unless the caller names fewer.
Selections == (SUBSET Sections) \ {{}}

\* The choice of the caller, and where the connections lead: an alias may reach
\* another database than its environment, and both environments may be one.
\* Environments whose login is the schema's owner are in owner.
Setup ==
    [sections : Selections, alias : SUBSET Side, reach : [Side -> Databases],
     dbaReach : [Side -> Databases], owner : SUBSET Side, emit : BOOLEAN]

\* Nothing was read.  "truth" is no part of the program: it is what the
\* environment's database held, in scope, when the section was read.
NotCaptured ==
    [error |-> FALSE, identity |-> None, complete |-> {}, rows |-> {}, twice |-> {}, truth |-> {}]

Init ==
    /\ db \in [Databases -> Contents] /\ changes = 0
    /\ setup \in Setups
    /\ capture = [e \in Side |-> NotCaptured]
    /\ stage = "source" /\ script = {} /\ verdict = None

\* Databases hold finitely many rows.  The columns of a key decide the place in
\* the ORDER BY, and a grant, which nothing else has, has the option to grant on
\* or has it not.  None is neither a database nor an exit code.
ConstantsFit ==
    /\ Setups \subseteq Setup
    /\ \A rows \in Contents : IsFiniteSet(rows) /\ rows \subseteq Row
    /\ \A r, q \in UNION Contents : Key(r) = Key(q) => r.order = q.order
    /\ \A r \in UNION Contents :
         IF r.section \in {"object-grants", "roles"} THEN r.value \in {"plain", "option"}
         ELSE r.value # "option"
    /\ None \notin Databases /\ None \notin {0, 1, 2, 130}

-----------------------------------------------------------------------------
(* One read-only session *)

InSections(rows, sections) == {r \in rows : r.section \in sections}

Peers(r, rows) == {q \in rows : q.section = r.section /\ q.order = r.order}
Tied(rows) == {r \in rows : Peers(r, rows) # {r}}

\* A section is read page by page, each page a query of its own.  Rows that the
\* ORDER BY does not tell apart may come in another order on the next page: at
\* the place of one its peer is seen, once more or in exchange.
Shown(rows) ==
    {f \in [Tied(rows) -> Tied(rows)] : \A r \in Tied(rows) : f[r] \in Peers(r, rows)}

Seen(rows, f) == (rows \ Tied(rows)) \cup {f[r] : r \in Tied(rows)}
\* Two of the rows that are shown have one key: a row that is seen twice, or
\* grants of one privilege by two grantors.
SeenTwice(rows, f) ==
    {r.section : r \in {q \in Tied(rows) :
                          \E p \in Tied(rows) : p # q /\ Key(f[p]) = Key(f[q])}}

\* The rows that a session reads.  The alias sees every grant of the schema,
\* whatever the prefixes are.
Rows(e, read, dba) ==
    IF dba THEN InSections(db[setup.dbaReach[e]], read)
    ELSE {r \in InSections(db[setup.reach[e]], read) : InScope(r)}

\* More rows than the cap end the session with an error.
Fits(rows) == \A c \in Sections : Cardinality(InSections(rows, {c})) <= MaxRows

-----------------------------------------------------------------------------
(* The capture of one side *)

DbaStage(e) == IF e = "source" THEN "source dba" ELSE "target dba"
NextSide(e) == IF e = "source" THEN "target" ELSE "compare"

\* A selection of DBA sections alone still reads one section, for the identity.
NormalSections ==
    IF setup.sections \subseteq DbaSections THEN {"versions"} ELSE setup.sections \ DbaSections
DbaSelected == setup.sections \cap DbaCaptureSections

AfterBase(e) == IF DbaSelected # {} /\ e \in setup.alias THEN DbaStage(e) ELSE NextSide(e)

\* A capture after a session that was to read some sections, could read those
\* in read, and was shown their rows by f.
Taken(c, e, sections, read, rows, f) ==
    [c EXCEPT !.rows = InSections(@, Sections \ sections) \cup Seen(rows, f),
              !.twice = (@ \ sections) \cup SeenTwice(rows, f),
              !.complete = (@ \ sections) \cup read,
              !.truth = InSections(@, Sections \ sections)
                            \cup Rows(e, sections, FALSE)]

\* Sections that a session may report as unavailable: MLE modules without a
\* language, the version of APEX.
MayBeUnavailable == {"tables", "versions"}

\* Grants are complete for the owner alone.
BaseCapture(e) ==
    /\ stage = e
    /\ \E missing \in SUBSET (NormalSections \cap MayBeUnavailable) :
         LET read == {c \in NormalSections \ missing : c = "object-grants" => e \in setup.owner}
             rows == Rows(e, read, FALSE)
         IN /\ Fits(rows)
            /\ \E f \in Shown(rows) :
                 capture' = [capture EXCEPT ![e] =
                    [Taken(NotCaptured, e, NormalSections, read, rows, f) EXCEPT
                        !.identity = setup.reach[e]]]
    /\ stage' = AfterBase(e)
    /\ UNCHANGED <<db, changes, setup, script, verdict>>

\* The session fails, or what it printed is not one whole payload.
BaseFails(e) ==
    /\ stage = e
    /\ capture' = [capture EXCEPT ![e] = [NotCaptured EXCEPT !.error = TRUE]]
    /\ stage' = AfterBase(e)
    /\ UNCHANGED <<db, changes, setup, script, verdict>>

SameScope(at, other) == at # None /\ at = other

\* What the alias saw replaces what the environment's session saw of the same
\* sections, if both reached one database.
Merge(c, e, read, rows, f) ==
    IF SameScope(c.identity, setup.dbaReach[e]) THEN Taken(c, e, DbaSelected, read, rows, f)
    ELSE [c EXCEPT !.error = TRUE]

\* ORDS may be unreadable; any other section that is ends the session.
DbaCapture(e) ==
    /\ stage = DbaStage(e)
    /\ \E missing \in SUBSET (DbaSelected \cap {"ords"}) :
         LET read == DbaSelected \ missing
             rows == Rows(e, read, TRUE)
         IN /\ Fits(rows)
            /\ \E f \in Shown(rows) :
                 capture' = [capture EXCEPT ![e] = Merge(@, e, read, rows, f)]
    /\ stage' = NextSide(e)
    /\ UNCHANGED <<db, changes, setup, script, verdict>>

DbaFails(e) ==
    /\ stage = DbaStage(e)
    /\ capture' = [capture EXCEPT ![e].error = TRUE]
    /\ stage' = NextSide(e)
    /\ UNCHANGED <<db, changes, setup, script, verdict>>

-----------------------------------------------------------------------------
(* The comparison *)

\* Grants are compared for the configured prefixes, whoever read them.
Found(e, c) ==
    {r \in InSections(capture[e].rows, {c}) : c = "object-grants" => r.name \notin Stray}

\* The times of a network ACE are read without their time zone.
Bounded(r) == r.value = "bounded"

(* Mutant: keys that were seen twice do not block. *)
SectionBlockedNotTwice(c) ==
    \/ c \in DbaSections /\ setup.alias # Side
    \/ \E e \in Side :
         \/ c \notin capture[e].complete
         \/ c = "invalid-objects" /\ Found(e, c) # {}
         \/ c = "network-aces" /\ \E r \in Found(e, c) : Bounded(r)

\* A section that was not read on both sides, a key that was seen twice, a
\* bounded ACE, an invalid object, and one database on both sides.
SectionBlocked(c) ==
    \/ c \in DbaSections /\ setup.alias # Side
    \/ \E e \in Side :
         \/ c \notin capture[e].complete
         \/ c \in capture[e].twice
         \/ c = "invalid-objects" /\ Found(e, c) # {}
         \/ c = "network-aces" /\ \E r \in Found(e, c) : Bounded(r)

Blocked ==
    \/ \E e \in Side : capture[e].error
    \/ \E c \in setup.sections : SectionBlocked(c)
    \/ SameScope(capture["source"].identity, capture["target"].identity)

Different == {c \in setup.sections : Found("source", c) # Found("target", c)}

ExitCode == IF Blocked THEN 2 ELSE IF Different # {} THEN 1 ELSE 0

Compare ==
    /\ stage = "compare"
    /\ IF setup.emit /\ ~Blocked THEN stage' = "script" /\ UNCHANGED verdict
       ELSE stage' = "over" /\ verdict' = ExitCode
    /\ UNCHANGED <<db, changes, setup, capture, script>>

-----------------------------------------------------------------------------
(* The script *)

Missing(r) == \A t \in Found("target", r.section) : Key(t) # Key(r)

Upgrade(r) ==
    r.value = "option" /\ \E t \in Found("target", r.section) : Key(t) = Key(r) /\ t.value # "option"

(* Mutant: options that the target lacks are left out. *)
StatementMissing(r) ==
    \/ r.section \in {"object-grants", "roles"} /\ Missing(r)
    \/ r.section = "network-aces" /\ r.value = "grant" /\ Missing(r)
    \/ r.section = "ords" /\ r.value # "off" /\ r \notin Found("target", "ords")

\* A grant that is missing, or lacks the option that the source has; a missing
\* ACE that grants, a deny is left to a reader; a schema that ORDS serves and
\* that the target does not serve in the same way.
Statement(r) ==
    \/ r.section \in {"object-grants", "roles"} /\ (Missing(r) \/ Upgrade(r))
    \/ r.section = "network-aces" /\ r.value = "grant" /\ Missing(r)
    \/ r.section = "ords" /\ r.value # "off" /\ r \notin Found("target", "ords")

Statements == {r \in UNION {Found("source", c) : c \in setup.sections} : Statement(r)}

\* A temporary file replaces the old script.
WriteScript ==
    /\ stage = "script"
    /\ script' = Statements /\ stage' = "report"
    /\ UNCHANGED <<db, changes, setup, capture, verdict>>

ScriptNotWritten ==
    /\ stage = "script"
    /\ stage' = "over" /\ verdict' = 2
    /\ UNCHANGED <<db, changes, setup, capture, script>>

Report ==
    /\ stage = "report"
    /\ stage' = "over" /\ verdict' = ExitCode
    /\ UNCHANGED <<db, changes, setup, capture, script>>

\* Ctrl-C.
Interrupted ==
    /\ stage # "over"
    /\ stage' = "over" /\ verdict' = 130
    /\ UNCHANGED <<db, changes, setup, capture, script>>

\* What the target holds after one statement.  A grant never takes the option
\* away, an ACE gets an order of its own, and ORDS serves the schema as told.
After(rows, r) ==
    IF r.section = "network-aces"
    THEN LET taken == {q.order : q \in InSections(rows, {r.section})} IN
         rows \cup {[r EXCEPT !.order = CHOOSE n \in 1 .. Cardinality(taken) + 1 : n \notin taken]}
    ELSE LET old == {q \in rows : Key(q) = Key(r)} IN
         IF r.section # "ords" /\ \E q \in old : q.value = "option" THEN rows
         ELSE (rows \ old) \cup {r}

\* A DBA runs the script on the target, statement by statement.
RunStatement ==
    /\ stage = "over"
    /\ \E r \in script :
         /\ script' = script \ {r}
         /\ db' = [db EXCEPT ![setup.reach["target"]] = After(@, r)]
    /\ UNCHANGED <<changes, setup, capture, stage, verdict>>

\* Others change a database, before, between and after the sessions.
Change ==
    /\ changes < MaxChanges
    /\ changes' = changes + 1
    /\ \E d \in Databases, rows \in Contents : db' = [db EXCEPT ![d] = rows]
    /\ UNCHANGED <<setup, capture, stage, script, verdict>>

Next ==
    \/ \E e \in Side : BaseCapture(e) \/ BaseFails(e) \/ DbaCapture(e) \/ DbaFails(e)
    \/ Compare
    \/ WriteScript \/ ScriptNotWritten \/ Report \/ Interrupted
    \/ RunStatement
    \/ Change

-----------------------------------------------------------------------------
TruthOf(e, c) == InSections(capture[e].truth, {c})

\* Exit 0 ("every selected section was compared and no difference or blocker
\* was found", docs/compare-env.md) is never a page that was read twice, an
\* alias that led elsewhere or a section left out: what the two environments
\* held of the selected sections, each when it was read, was the same, nothing
\* in it was invalid, and they are two databases.
ReadyIsSeen ==
    verdict = 0 =>
        /\ setup.reach["source"] # setup.reach["target"]
        /\ \A c \in setup.sections : TruthOf("source", c) = TruthOf("target", c)
        /\ TruthOf("target", "invalid-objects") = {}

\* A script gives the target only what the source had in the selected sections
\* and in scope, and what the target was without, each when it was read: a
\* refused merge, an incomplete side or a row that was missed on a page leaves
\* no statement behind (emit_dba_script).
NothingInvented ==
    \A r \in script :
        /\ r.section \in setup.sections /\ InScope(r)
        /\ r \in capture["source"].truth
        /\ \A t \in TruthOf("target", r.section) :
               Key(t) = Key(r) => t.value \notin {r.value, "option"}

\* After the whole script, and while nobody else changes the two databases, the
\* target lacks no privilege, ACE that grants or ORDS mapping that the source
\* has in the selected sections, whatever the prefixes are not about.
ScriptCloses ==
    verdict \in {0, 1} /\ setup.emit /\ script = {} /\ changes = 0 =>
        \A r \in InSections(db[setup.reach["source"]], setup.sections \cap DbaCaptureSections) :
            \/ ~InScope(r)
            \/ r.section = "network-aces" /\ r.value # "grant"
            \/ r.section = "ords" /\ r.value = "off"
            \/ \E t \in db[setup.reach["target"]] :
                 /\ t.section = r.section /\ t.name = r.name
                 /\ t.value \in {r.value, "option"}

\* The script adds what is missing, all of it and nothing else (emit_dba_script).
ScriptIsRight == NothingInvented /\ ScriptCloses

=============================================================================
