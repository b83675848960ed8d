-------------------------------- MODULE DevTest --------------------------------
(***************************************************************************)
(* One DEV test run and the cleanups of what it created.  `dev-test --run` *)
(* executes the scenarios of a suite in order: it proves that the names of  *)
(* a scenario's fixtures are absent, records an intent before every step's  *)
(* SQLcl session, and records what it finds afterwards as its own in an     *)
(* event and in inventory.json.  `dev-test --cleanup` drops exactly what is *)
(* recorded, and only after a finished run without an unresolved step.      *)
(*                                                                         *)
(* The schema is shared with developers, who may drop, replace or alter any *)
(* object at any moment, and a session may execute its statement after its  *)
(* SQLcl process has been given up or killed.  The builtin suite records    *)
(* its inventory after every step; a project suite once, after the last     *)
(* step, and its cleanup is a program of deletes and drops the project      *)
(* supplies.  A project scenario without such a contract has no proof of    *)
(* absence and no inventory, and a step of a project may be there to be     *)
(* refused: it passes when its Oracle error comes.  An object is absent, or has an identity (1 when the run       *)
(* created it, higher for a developer's) and a definition (0 as created).   *)
(***************************************************************************)
EXTENDS Naturals, Sequences, FiniteSets, Functions, SequencesExt

CONSTANTS
    Suites,       \* the suites explored, each with its origin, "builtin" or "project", the scenarios
                  \* with a cleanup contract and the steps, by their objects, that expect an Oracle error
    Plan,         \* the selected scenarios, in order
    Fixture,      \* [scenario -> sequence of the objects its steps create]
    DependsOn,    \* [scenario -> SUBSET scenario], of a project suite
    Key,          \* keys the selector of a project scenario may return
    Cleaner,      \* dev-test --cleanup commands, each once
    None,
    MaxChanges    \* bound: what developers do to the schema

VARIABLES
    suite,        \* the one of this behaviour
    db,           \* [Object -> Version]
    key,          \* what the project's selector returns now
    rows,         \* project scenarios whose test rows are in their table
    changes,
    pending,      \* statements of step sessions that may still execute
    answer,       \* [Object -> what the step's SQL did]
    run,          \* the dev-test --run process
    events, inventory, report,    \* evidence on disk
    frozen,       \* names taken under inputs/generated/cleanup
    cleaner,
    drops,        \* [Cleaner -> its drop session]
    excused       \* history: objects a developer changed where no check can see it

schema == <<db, key, rows, changes, excused>>
evidence == <<events, inventory, report>>
running == <<run, pending, answer>>
cleaning == <<frozen, cleaner, drops>>
vars == <<suite, schema, running, evidence, cleaning>>

Scenario == Range(Plan)
Object == UNION {Range(Fixture[s]) : s \in Scenario}
NoObject == [id |-> 0, def |-> 0]
OwnVersion == [id |-> 1, def |-> 0]

Builtin == suite.origin = "builtin"
Project == suite.origin = "project"

\* The scenarios whose fixtures are proved absent, looked for and recorded.
Contracted(s) == Builtin \/ s \in suite.contract

\* The step is there to be refused.
ExpectsError(o) == Project /\ o \in suite.refused
Expected(o) == IF ExpectsError(o) THEN "refused" ELSE "done"

Present(o) == db[o] # NoObject
Owner(o) == CHOOSE s \in Scenario : o \in Range(Fixture[s])
NotFinished == [saved |-> FALSE, status |-> [s \in Scenario |-> "NOT_RUN"],
                exit |-> 2, cleanup |-> "NOT_REQUESTED"]

IdleCleaner == [pc |-> "idle", todo |-> <<>>, plan |-> <<>>, any |-> FALSE, refused |-> FALSE, n |-> 1]
NoDrop == [pc |-> "none", op |-> None]

Init ==
    /\ suite \in Suites
    /\ db = [o \in Object |-> NoObject]
    /\ key \in Key /\ rows = {} /\ changes = 0
    /\ pending = {} /\ answer = [o \in Object |-> "none"]
    /\ run = [pc |-> "plan", s |-> 1, k |-> 1, seen |-> <<>>, clear |-> TRUE, outcome |-> "NOT_RUN", key |-> key,
              status |-> [s \in Scenario |-> "NOT_RUN"]]
    /\ events = <<>> /\ inventory = [s \in Scenario |-> None] /\ report = NotFinished
    /\ frozen = {}
    /\ cleaner = [c \in Cleaner |-> IdleCleaner]
    /\ drops = [c \in Cleaner |-> NoDrop]
    /\ excused = {}

-----------------------------------------------------------------------------
(* Developers *)

\* What a cleanup no longer sees: another definition once it has looked at the
\* object for the last time, another object once the block has compared its id.
PastTheLastLook(o, v) ==
    \E c \in Cleaner :
        \/ drops[c].pc = "guarded" /\ drops[c].op.object = o
        \/ /\ v.id = db[o].id
           /\ \/ cleaner[c].pc = "intent" /\ Head(cleaner[c].todo).object = o
              \/ drops[c].pc = "sent" /\ drops[c].op.object = o

\* The name was proved absent, and the run has not yet looked at the object: it
\* will record what it finds.
BeforeTheFirstLook(o) ==
    /\ \E i \in DOMAIN events : events[i].type = "fixture-precreation" /\ o \in events[i].objects
    /\ o \notin DOMAIN run.seen
    /\ \A i \in DOMAIN events : events[i].type = "fixture-observed" => o \notin DOMAIN events[i].objects

Change(o, v) ==
    /\ changes < MaxChanges
    /\ changes' = changes + 1
    /\ db' = [db EXCEPT ![o] = v]
    /\ excused' = IF BeforeTheFirstLook(o) \/ PastTheLastLook(o, v) THEN excused \cup {o} ELSE excused \ {o}
    /\ UNCHANGED <<suite, key, rows, running, evidence, cleaning>>

DropByHand(o) == Present(o) /\ Change(o, NoObject)
Create(o) == ~Present(o) /\ Change(o, [id |-> changes + 2, def |-> 0])
Replace(o) == Present(o) /\ Change(o, [id |-> changes + 2, def |-> 0])
\* the definition, the status or the dependents of the object
Alter(o) == Present(o) /\ Change(o, [db[o] EXCEPT !.def = changes + 1])

\* The row a project's selector selects gets another key.
ChangeKey ==
    /\ Project /\ changes < MaxChanges
    /\ changes' = changes + 1
    /\ key' \in Key \ {key}
    /\ UNCHANGED <<suite, db, rows, running, evidence, cleaning, excused>>

-----------------------------------------------------------------------------
(* The database sessions of steps *)

\* The statement of a step that is refused as the scenario expects
Refuse(o) ==
    /\ o \in pending
    /\ ExpectsError(o)
    /\ pending' = pending \ {o}
    /\ answer' = [answer EXCEPT ![o] = "refused"]
    /\ UNCHANGED <<suite, schema, run, evidence, cleaning>>

\* The statement of a step: CREATE of its object, with a project's rows.
Execute(o) ==
    /\ o \in pending
    /\ pending' = pending \ {o}
    /\ IF Present(o)
       THEN answer' = [answer EXCEPT ![o] = "error"] /\ UNCHANGED <<db, rows>>
       ELSE /\ answer' = [answer EXCEPT ![o] = "done"]
            /\ db' = [db EXCEPT ![o] = OwnVersion]
            /\ rows' = IF Project THEN rows \cup {Owner(o)} ELSE rows
    /\ UNCHANGED <<suite, key, changes, excused, run, evidence, cleaning>>

\* The session is lost before it has executed anything.
LoseSession(o) ==
    /\ o \in pending
    /\ pending' = pending \ {o}
    /\ answer' = [answer EXCEPT ![o] = "lost"]
    /\ UNCHANGED <<suite, schema, run, evidence, cleaning>>

-----------------------------------------------------------------------------
(* The run *)

Current == Plan[run.s]
Step == Fixture[Current][run.k]
LastStep == run.k = Len(Fixture[Current])
InScenario == run.pc \in {"preflight", "selected", "step", "waiting", "capture", "checks", "record", "observed"}

Intents(s) == {i \in DOMAIN events : events[i].type = "step-intent" /\ events[i].s = s}

\* _has_write_started and, for one scenario, _has_new_write_started
HasWriteStarted == \E s \in Scenario : Intents(s) # {}

Event(type, objects) == Append(events, [type |-> type, s |-> Current, objects |-> objects])

Needs(s) == IF Project THEN DependsOn[s] ELSE {}

Goto(pc) == run' = [run EXCEPT !.pc = pc]

EndScenario(status) ==
    run' = [run EXCEPT !.status[Current] = status, !.pc = IF run.s = Len(Plan) THEN "finish" ELSE "scenario",
                       !.s = IF run.s = Len(Plan) THEN @ ELSE @ + 1,
                       !.k = 1, !.seen = <<>>, !.clear = TRUE, !.outcome = "NOT_RUN"]

\* The requirements of the scenarios are inspected in one read-only session and
\* the plan is saved; a scenario it finds ineligible is skipped below.
InspectSuite ==
    /\ run.pc = "plan"
    /\ Goto("scenario")
    /\ UNCHANGED <<suite, schema, pending, answer, evidence, cleaning>>

\* A required scenario did not pass, or the plan found the scenario blocked.
SkipScenario ==
    /\ run.pc = "scenario"
    /\ IF \E d \in Needs(Current) : run.status[d] # "PASSED"
       THEN EndScenario("NOT_RUN")
       ELSE \E status \in {"BLOCKED", "NOT_RUN"} : EndScenario(status)
    /\ UNCHANGED <<suite, schema, pending, answer, evidence, cleaning>>

\* The fresh identity check fails: no later scenario is dispatched.
StopScenarios ==
    /\ run.pc = "scenario"
    /\ Goto("finish")
    /\ UNCHANGED <<suite, schema, pending, answer, evidence, cleaning>>

\* The identity of the target is what the plan observed.
BeginScenario ==
    /\ run.pc = "scenario"
    /\ \A d \in Needs(Current) : run.status[d] = "PASSED"
    /\ Goto("preflight")
    /\ UNCHANGED <<suite, schema, pending, answer, evidence, cleaning>>

\* Inputs, target, requirements, or a project's effects and selectors refuse
\* the scenario before anything is written.
RefuseScenario ==
    /\ run.pc = "preflight"
    /\ \E status \in (IF Project THEN {"BLOCKED"} ELSE {"BLOCKED", "UNKNOWN"}) : EndScenario(status)
    /\ UNCHANGED <<suite, schema, pending, answer, evidence, cleaning>>

\* Each selector of a project scenario returns exactly one row.  Without a
\* cleanup contract the steps come next.
ReadSelectors ==
    /\ Project /\ run.pc = "preflight"
    /\ run' = [run EXCEPT !.pc = IF Contracted(Current) THEN "selected" ELSE "step", !.key = key]
    /\ UNCHANGED <<suite, schema, pending, answer, evidence, cleaning>>

\* A mutation: names that exist are taken over.
NamesMayExist == TRUE

\* A complete owner inventory shows that no fixture name is taken.
NamesAreFree == \A o \in Range(Fixture[Current]) : ~Present(o)

ProveAbsence ==
    /\ IF NamesAreFree
       THEN events' = Event("fixture-precreation", Range(Fixture[Current])) /\ Goto("step")
       ELSE EndScenario("BLOCKED") /\ UNCHANGED events
    /\ UNCHANGED <<suite, schema, pending, answer, inventory, report, cleaning>>

Preflight == Builtin /\ run.pc = "preflight" /\ ProveAbsence

RecordProjectPrecreation == run.pc = "selected" /\ ProveAbsence

\* A mutation: the intent of a scenario's first step is not recorded.
DispatchUnrecorded ==
    /\ run.pc = "step"
    /\ run.clear
    /\ events' = IF run.k = 1 THEN events ELSE Event("step-intent", {Step})
    /\ pending' = pending \cup {Step}
    /\ Goto("waiting")
    /\ UNCHANGED <<suite, schema, answer, inventory, report, cleaning>>

\* The durable intent, then the session.  A builtin scenario looks up the name
\* of its next fixture in the inventory it captured last.
DispatchStep ==
    /\ run.pc = "step"
    /\ run.clear
    /\ events' = Event("step-intent", {Step})
    /\ pending' = pending \cup {Step}
    /\ Goto("waiting")
    /\ UNCHANGED <<suite, schema, answer, inventory, report, cleaning>>

\* The step is refused locally: the name is taken, inputs have changed, or the
\* intent cannot be recorded.  A project step without identity is UNKNOWN.
RefuseStep ==
    /\ run.pc = "step"
    /\ \E status \in (IF Project THEN {"UNKNOWN"} ELSE {"BLOCKED", "UNKNOWN"}) : EndScenario(status)
    /\ UNCHANGED <<suite, schema, pending, answer, evidence, cleaning>>

AfterStep ==
    IF Project /\ ~LastStep
    THEN run' = [run EXCEPT !.k = @ + 1, !.pc = "step"]
    ELSE Goto(IF Project THEN "checks" ELSE "capture")

\* A mutation: a session that gave no answer counts as completed.
TrustExit ==
    /\ run.pc = "waiting"
    /\ \/ answer[Step] = Expected(Step) /\ AfterStep
       \/ answer[Step] = "none" /\ AfterStep
       \/ EndScenario("UNKNOWN")
    /\ UNCHANGED <<suite, schema, pending, answer, evidence, cleaning>>

\* A project scenario with a contract looks for what the steps before have made.
AfterFailure ==
    IF Project /\ Contracted(Current)
    THEN run' = [run EXCEPT !.pc = "capture", !.outcome = "FAILED"]
    ELSE EndScenario("FAILED")

\* execute_step: PASSED with every frame in place and the outcome the step
\* expects; FAILED with a verified Oracle error that it does not, or without
\* the one that it does; UNKNOWN after a timeout, a cancellation or a missing
\* frame.
StepResult ==
    /\ run.pc = "waiting"
    /\ \/ answer[Step] = Expected(Step) /\ AfterStep
       \/ answer[Step] \in {"done", "error"} \ {Expected(Step)} /\ AfterFailure
       \/ EndScenario("UNKNOWN")
    /\ UNCHANGED <<suite, schema, pending, answer, evidence, cleaning>>

NextIsClear == LastStep \/ ~Present(Fixture[Current][run.k + 1])

\* A builtin step is followed by a capture of its object, which must be there
\* and, as far as it is compared, as it was made.
CaptureBuiltin ==
    /\ Builtin /\ run.pc = "capture"
    /\ \/ db[Step] # OwnVersion /\ EndScenario("FAILED")
       \/ /\ Present(Step)
          /\ run' = [run EXCEPT !.pc = IF LastStep THEN "checks" ELSE "record", !.clear = NextIsClear,
                        !.seen = [o \in DOMAIN @ \cup {Step} |-> IF o = Step THEN db[o] ELSE @[o]]]
    /\ UNCHANGED <<suite, schema, pending, answer, evidence, cleaning>>

\* The checks of the scenario, in fresh sessions.  A project scenario records
\* nothing after an incomplete check, and nothing at all without a contract.
CheckScenario ==
    /\ run.pc = "checks"
    /\ \/ Project /\ EndScenario("UNKNOWN")
       \/ \E outcome \in {"PASSED", "FAILED"} \cup (IF Builtin THEN {"UNKNOWN"} ELSE {}) :
             IF Contracted(Current)
             THEN run' = [run EXCEPT !.pc = IF Builtin THEN "record" ELSE "capture", !.outcome = outcome]
             ELSE EndScenario(outcome)
    /\ UNCHANGED <<suite, schema, pending, answer, evidence, cleaning>>

\* A project scenario looks for its fixtures once, after its checks or after a
\* failed step, and takes those that exist.
CaptureProject ==
    /\ Project /\ run.pc = "capture"
    /\ run' = [run EXCEPT !.pc = "record", !.seen = [o \in {p \in Range(Fixture[Current]) : Present(p)} |-> db[o]]]
    /\ UNCHANGED <<suite, schema, pending, answer, evidence, cleaning>>

\* What was seen goes into an event first.
RecordFixtures ==
    /\ run.pc = "record"
    /\ events' = Event("fixture-observed", run.seen)
    /\ Goto("observed")
    /\ UNCHANGED <<suite, schema, pending, answer, inventory, report, cleaning>>

\* save_inventory, after the event
SaveInventory ==
    /\ run.pc = "observed"
    /\ inventory' = [inventory EXCEPT ![Current] = [objects |-> run.seen, key |-> run.key]]
    /\ IF Builtin /\ ~LastStep
       THEN run' = [run EXCEPT !.k = @ + 1, !.pc = "step"]
       ELSE EndScenario(run.outcome)
    /\ UNCHANGED <<suite, schema, pending, answer, events, report, cleaning>>

\* A capture, a check or a save raises: the scenario is UNKNOWN once it has
\* recorded an intent.
Raise ==
    /\ InScenario /\ run.pc # "waiting"
    /\ EndScenario(IF Intents(Current) # {} THEN "UNKNOWN" ELSE "BLOCKED")
    /\ UNCHANGED <<suite, schema, pending, answer, evidence, cleaning>>

\* aggregate_exit
ExitCode(interrupted, wrote, status) ==
    IF interrupted /\ ~wrote THEN 130
    ELSE IF interrupted \/ \E s \in Scenario : status[s] \in {"UNKNOWN", "BLOCKED", "NOT_RUN"} THEN 2
    ELSE IF \E s \in Scenario : status[s] = "FAILED" THEN 1
    ELSE 0

SaveReport(interrupted, wrote, status) ==
    /\ report' = [saved |-> TRUE, status |-> status, cleanup |-> "NOT_REQUESTED",
                  exit |-> ExitCode(interrupted, wrote, status)]
    /\ Goto("over")
    /\ UNCHANGED <<suite, schema, pending, answer, events, inventory, cleaning>>

\* The target, the connection or the plan is refused: nothing was run.
RefuseRun == run.pc = "plan" /\ SaveReport(FALSE, FALSE, run.status)

Finish == run.pc = "finish" /\ SaveReport(FALSE, HasWriteStarted, run.status)

\* A mutation: an interrupt asks the results and not the events.
InterruptByResults ==
    /\ InScenario
    /\ SaveReport(TRUE, \E s \in Scenario : run.status[s] # "NOT_RUN", run.status)

\* Ctrl-C in a scenario: finish_interrupted
InterruptScenario ==
    /\ InScenario
    /\ SaveReport(TRUE, HasWriteStarted,
                  IF Intents(Current) # {} THEN [run.status EXCEPT ![Current] = "UNKNOWN"] ELSE run.status)

\* Ctrl-C before, between or after the scenarios: the refusal report of main
InterruptBetween ==
    /\ run.pc \in {"plan", "scenario", "finish"}
    /\ SaveReport(TRUE, HasWriteStarted, [s \in Scenario |-> IF HasWriteStarted THEN "UNKNOWN" ELSE "NOT_RUN"])

\* kill -9, or the report cannot be saved
KillRun ==
    /\ run.pc # "over"
    /\ Goto("over")
    /\ UNCHANGED <<suite, schema, pending, answer, evidence, cleaning>>

-----------------------------------------------------------------------------
(* Cleanup *)

Inventoried == {s \in Scenario : inventory[s] # None}

\* _load_run and _validate_scenarios: the report of a finished run, without an
\* unresolved scenario among those with an inventory
Loadable == report.saved /\ Inventoried # {}

\* A mutation: UNKNOWN counts as finished.
ResolvedOrUnknown(s) == report.status[s] \in {"PASSED", "FAILED", "UNKNOWN"}

Resolved(s) == report.status[s] \in {"PASSED", "FAILED"}

Events(s, type) == {i \in DOMAIN events : events[i].type = type /\ events[i].s = s}
LastObserved(s) == CHOOSE i \in Events(s, "fixture-observed") : \A j \in Events(s, "fixture-observed") : j <= i

\* _verify_fixture_history: every fixture was absent before, and the latest
\* observation follows the last intent and is what the inventory says.
FixtureHistory(s) ==
    /\ Events(s, "fixture-precreation") # {}
    /\ Builtin =>
          \A i \in Events(s, "fixture-precreation") : events[i].objects = DOMAIN inventory[s].objects
    /\ Events(s, "fixture-observed") # {}
    /\ events[LastObserved(s)].objects = inventory[s].objects
    /\ \A i \in Intents(s) : i < LastObserved(s)

Unrecorded(s) == Range(Fixture[s]) \ DOMAIN inventory[s].objects
NoUnrecordedName == \A s \in Inventoried : \A o \in Unrecorded(s) : ~Present(o)
RowsAreGone == rows \cap Inventoried = {}
PreviousVerified == report.cleanup = "COMPLETE"

\* What a project's own selectors and checks must say before its cleanup.
ProjectAgrees ==
    /\ NoUnrecordedName
    /\ IF PreviousVerified THEN RowsAreGone ELSE \A s \in Inventoried : inventory[s].key = key

\* The recorded objects of builtin scenarios; of a project scenario its
\* program: the rows of the test, then the declared fixtures.
Drop(o) == [kind |-> "drop", s |-> Owner(o), object |-> o]
Delete(s) == [kind |-> "delete", s |-> s, object |-> None]

Program(s) ==
    IF inventory[s] = None THEN <<>>
    ELSE IF Project THEN <<Delete(s)>> \o [i \in DOMAIN Fixture[s] |-> Drop(Fixture[s][i])]
    ELSE LET recorded == SelectSeq(Fixture[s], LAMBDA o : o \in DOMAIN inventory[s].objects)
         IN [i \in DOMAIN recorded |-> Drop(recorded[i])]

Operations == FlattenSeq([i \in DOMAIN Plan |-> Program(Plan[i])])

Saved(o) == IF o \in Unrecorded(Owner(o)) THEN NoObject ELSE inventory[Owner(o)].objects[o]

\* _compare_artifact: identity, definition, status and dependents
Matches(o) == db[o] = Saved(o)

PlanOf(op) ==
    IF Project /\ (PreviousVerified \/ (op.kind = "drop" /\ Saved(op.object) = NoObject))
    THEN "ALREADY_ABSENT"
    ELSE IF op.kind = "delete" THEN "READY"
    ELSE IF ~Present(op.object) THEN "ALREADY_ABSENT"
    ELSE IF Matches(op.object) THEN "READY"
    ELSE "REFUSED"

\* _save_cleanup_result, of what has been a valid run
EndCleanup(c, status) ==
    /\ report' = IF Loadable THEN [report EXCEPT !.cleanup = status] ELSE report
    /\ cleaner' = [cleaner EXCEPT ![c] = [IdleCleaner EXCEPT !.pc = "over"]]

Stopped(c) == IF cleaner[c].any THEN "INCOMPLETE" ELSE "REFUSED"

\* _build_plan; a project's cleanup refuses as a whole
PlanCleanup(c) ==
    /\ cleaner[c].pc = "idle"
    /\ LET plan == [op \in Range(Operations) |-> PlanOf(op)] IN
       IF /\ Loadable
          /\ \A s \in Inventoried : Resolved(s) /\ FixtureHistory(s)
          /\ Project => ProjectAgrees /\ \A op \in DOMAIN plan : plan[op] # "REFUSED"
       THEN /\ cleaner' = [cleaner EXCEPT ![c].pc = "next", ![c].todo = Operations, ![c].plan = plan]
            /\ UNCHANGED report
       ELSE EndCleanup(c, "REFUSED")
    /\ UNCHANGED <<suite, schema, running, events, inventory, frozen, drops>>

Op(c) == Head(cleaner[c].todo)

\* A builtin drop is numbered by its place in the plan, a project's operation
\* by the writes before it.
Proceed(c, refused) ==
    cleaner' = [cleaner EXCEPT ![c].pc = "next", ![c].todo = Tail(@), ![c].refused = @ \/ refused,
                               ![c].n = IF Builtin THEN @ + 1 ELSE @]

\* A mutation: the plan's comparison is not repeated.
TrustPlan(c) ==
    /\ cleaner[c].pc = "next" /\ cleaner[c].todo # <<>>
    /\ IF cleaner[c].plan[Op(c)] = "READY"
       THEN cleaner' = [cleaner EXCEPT ![c].pc = "intent"]
       ELSE Proceed(c, cleaner[c].plan[Op(c)] = "REFUSED")
    /\ UNCHANGED <<suite, schema, running, evidence, frozen, drops>>

\* A builtin artifact is looked at again even when it was absent.
Settled(planned) == planned = "REFUSED" \/ (Project /\ planned = "ALREADY_ABSENT")

\* A fresh capture of the next artifact, or a fresh read of the selector: gone,
\* changed (a project stops, a builtin goes on with the others), or to be dropped.
Look(c) ==
    /\ cleaner[c].pc = "next" /\ cleaner[c].todo # <<>>
    /\ LET op == Op(c)
           planned == cleaner[c].plan[op]
       IN
       \/ Settled(planned) /\ Proceed(c, planned = "REFUSED") /\ UNCHANGED report
       \/ /\ ~Settled(planned)
          /\ \/ op.kind = "drop" /\ ~Present(op.object) /\ Proceed(c, FALSE) /\ UNCHANGED report
             \/ /\ op.kind = "drop" /\ Present(op.object) /\ ~Matches(op.object)
                /\ IF Project THEN EndCleanup(c, Stopped(c)) ELSE Proceed(c, TRUE) /\ UNCHANGED report
             \/ op.kind = "delete" /\ key # inventory[op.s].key /\ EndCleanup(c, Stopped(c))
             \/ /\ IF op.kind = "drop" THEN Present(op.object) /\ Matches(op.object) ELSE key = inventory[op.s].key
                /\ cleaner' = [cleaner EXCEPT ![c].pc = "intent"]
                /\ UNCHANGED report
    /\ UNCHANGED <<suite, schema, running, events, inventory, frozen, drops>>

InputName(c) == IF Builtin THEN <<cleaner[c].n>> ELSE <<cleaner[c].n, Op(c)>>

\* The durable intent, the frozen input (created exclusively, so that a second
\* attempt at the same name fails), the session.
Dispatch(c) ==
    /\ cleaner[c].pc = "intent"
    /\ IF InputName(c) \in frozen
       THEN EndCleanup(c, "INCOMPLETE") /\ UNCHANGED <<frozen, drops>>
       ELSE /\ frozen' = frozen \cup {InputName(c)}
            /\ drops' = [drops EXCEPT ![c] = [pc |-> "sent", op |-> Op(c)]]
            /\ cleaner' = [cleaner EXCEPT ![c].pc = "drop", ![c].any = TRUE]
            /\ UNCHANGED report
    /\ UNCHANGED <<suite, schema, running, events, inventory>>

DropGoto(c, pc) == drops' = [drops EXCEPT ![c].pc = pc]

\* A mutation: the block drops by name.
DropByName(c) ==
    /\ drops[c].pc = "sent" /\ drops[c].op.kind = "drop"
    /\ DropGoto(c, "guarded")
    /\ UNCHANGED <<suite, schema, running, evidence, frozen, cleaner>>

\* The PL/SQL block compares OBJECT_ID, then drops.
GuardDrop(c) ==
    /\ drops[c].pc = "sent" /\ drops[c].op.kind = "drop"
    /\ DropGoto(c, IF db[drops[c].op.object].id = Saved(drops[c].op.object).id THEN "guarded" ELSE "error")
    /\ UNCHANGED <<suite, schema, running, evidence, frozen, cleaner>>

ExecuteDrop(c) ==
    /\ drops[c].pc = "guarded"
    /\ LET o == drops[c].op.object IN
        /\ DropGoto(c, IF Present(o) THEN "done" ELSE "error")
        /\ db' = [db EXCEPT ![o] = NoObject]
    /\ UNCHANGED <<suite, key, rows, changes, excused, running, evidence, frozen, cleaner>>

ExecuteDelete(c) ==
    /\ drops[c].pc = "sent" /\ drops[c].op.kind = "delete"
    /\ rows' = rows \ {drops[c].op.s}
    /\ DropGoto(c, "done")
    /\ UNCHANGED <<suite, db, key, changes, excused, running, evidence, frozen, cleaner>>

LoseDrop(c) ==
    /\ drops[c].pc \in {"sent", "guarded"}
    /\ DropGoto(c, "error")
    /\ UNCHANGED <<suite, schema, running, evidence, frozen, cleaner>>

\* A mutation: the end of the session is enough.
TrustDrop(c) ==
    /\ cleaner[c].pc = "drop"
    /\ drops[c].pc \in {"done", "error"}
    /\ cleaner' = [cleaner EXCEPT ![c].pc = "next", ![c].todo = Tail(@), ![c].n = @ + 1]
    /\ UNCHANGED <<suite, schema, running, evidence, frozen, drops>>

\* The result of the step and, after a drop, the readback.
DropResult(c) ==
    /\ cleaner[c].pc = "drop"
    /\ \/ /\ drops[c].pc = "done"
          /\ Op(c).kind = "drop" => ~Present(Op(c).object)
          /\ cleaner' = [cleaner EXCEPT ![c].pc = "next", ![c].todo = Tail(@), ![c].n = @ + 1]
          /\ UNCHANGED report
       \/ EndCleanup(c, "INCOMPLETE")
    /\ UNCHANGED <<suite, schema, running, events, inventory, frozen, drops>>

\* Everything is gone.  A project's checks, a readback of all its artifacts and
\* of the names it never created confirm that.
FinishCleanup(c) ==
    /\ cleaner[c].pc = "next" /\ cleaner[c].todo = <<>>
    /\ LET confirmed == /\ RowsAreGone /\ NoUnrecordedName
                        /\ \A s \in Inventoried : \A o \in DOMAIN inventory[s].objects : ~Present(o)
       IN EndCleanup(c, IF cleaner[c].refused \/ (Project /\ ~confirmed) THEN Stopped(c) ELSE "COMPLETE")
    /\ UNCHANGED <<suite, schema, running, events, inventory, frozen, drops>>

\* Ctrl-C, or an error of a capture, an event or a changed input
StopCleanup(c) ==
    /\ cleaner[c].pc \in {"next", "intent", "drop"}
    /\ EndCleanup(c, Stopped(c))
    /\ UNCHANGED <<suite, schema, running, events, inventory, frozen, drops>>

KillCleanup(c) ==
    /\ cleaner[c].pc \in {"next", "intent", "drop"}
    /\ cleaner' = [cleaner EXCEPT ![c] = [IdleCleaner EXCEPT !.pc = "over"]]
    /\ UNCHANGED <<suite, schema, running, evidence, frozen, drops>>

-----------------------------------------------------------------------------
Developers ==
    \/ \E o \in Object : DropByHand(o) \/ Create(o) \/ Replace(o) \/ Alter(o)
    \/ ChangeKey

Run ==
    \/ InspectSuite \/ RefuseRun \/ SkipScenario \/ StopScenarios \/ BeginScenario
    \/ RefuseScenario \/ ReadSelectors \/ Preflight \/ RecordProjectPrecreation \/ DispatchStep \/ RefuseStep
    \/ StepResult \/ CaptureBuiltin \/ CheckScenario \/ CaptureProject
    \/ RecordFixtures \/ SaveInventory \/ Raise
    \/ Finish \/ InterruptScenario \/ InterruptBetween \/ KillRun

Cleanup(c) ==
    \/ PlanCleanup(c) \/ Look(c) \/ Dispatch(c) \/ DropResult(c) \/ FinishCleanup(c)
    \/ StopCleanup(c) \/ KillCleanup(c)

Sessions ==
    \/ \E o \in pending : Execute(o) \/ Refuse(o) \/ LoseSession(o)
    \/ \E c \in Cleaner : GuardDrop(c) \/ ExecuteDrop(c) \/ ExecuteDelete(c) \/ LoseDrop(c)

Next == Developers \/ Run \/ Sessions \/ \E c \in Cleaner : Cleanup(c)

Spec == Init /\ [][Next]_vars

-----------------------------------------------------------------------------
(* Properties *)

Drops(c) == drops[c].pc = "guarded" /\ drops'[c].pc = "done"

\* A cleanup drops an object as the run made it.  What a developer has made of
\* it survives, unless the change came between the proof that the name was free
\* and the run's first look at the object, or after the cleanup's last look
\* (dev_test_cleanup.py _compare_artifact, _drop_sql: the names are known, so a
\* developer may hold one of them).
DropsAsMade ==
    \A c \in Cleaner : Drops(c) =>
        LET o == drops[c].op.object IN db[o] = OwnVersion \/ o \in excused
DevelopersWorkIsKept == [][DropsAsMade]_vars

\* A cleanup drops nothing of a scenario whose outcome is not known or whose
\* sessions may still create something.  (dev_test_cleanup.py
\* _validate_scenarios, _verify_fixture_history)
DropsOnlySettled ==
    \A c \in Cleaner : Drops(c) =>
        LET s == Owner(drops[c].op.object)
        IN  report.status[s] \in {"PASSED", "FAILED"} /\ pending \cap Range(Fixture[s]) = {}
UncertainIsKept == [][DropsOnlySettled]_vars

\* Exit code 130 promises that no write has begun: nothing the run sent exists
\* or can still come to exist.  (dev_test.py finish_interrupted and main,
\* docs/dev-test.md)
InterruptIsHonest == report.saved /\ report.exit = 130 => pending = {} /\ \A o \in Object : answer[o] # "done"

\* A scenario that is reported PASSED did what it declares: every step had the
\* outcome it expects, a fixture made or an Oracle error met.  Where a cleanup
\* can be asked for, of a builtin scenario or by contract, the inventory is
\* saved with a history the cleanup accepts, and holds every builtin fixture.
\* (dev_test_runtime.py execute_step, execute_project_scenario;
\* dev_test_core_types.py run_datatype_roundtrip; dev_test_cleanup.py
\* _verify_fixture_history)
ReportIsTrue ==
    report.saved => \A s \in Scenario : report.status[s] = "PASSED" =>
        /\ \A o \in Range(Fixture[s]) : answer[o] = Expected(o)
        /\ Contracted(s) => inventory[s] # None /\ FixtureHistory(s)
        /\ Builtin => Range(Fixture[s]) = DOMAIN inventory[s].objects

\* After a COMPLETE cleanup nothing the run made or recorded for a scenario
\* with an inventory is left, and no session of such a scenario can bring it
\* back.  (dev_test_cleanup.py cleanup_run, _cleanup_project)
CompleteIsFinal ==
    report.cleanup = "COMPLETE" => \A s \in Inventoried :
        /\ s \notin rows
        /\ \A o \in Range(Fixture[s]) : o \notin pending /\ db[o].id # OwnVersion.id
        /\ \A o \in DOMAIN inventory[s].objects : db[o].id # inventory[s].objects[o].id

\* What a run says about the database is true, whoever was interrupted or
\* killed: its exit code, its PASSED scenarios and its COMPLETE cleanup.
ReportIsHonest == InterruptIsHonest /\ ReportIsTrue /\ CompleteIsFinal

\* A cleanup drops what the run is known to have made and nobody has changed.
OnlyOwnIsDropped == [][DropsAsMade /\ DropsOnlySettled]_vars

=============================================================================
