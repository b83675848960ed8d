----------------------------- MODULE CapsuleStore -----------------------------
(***************************************************************************)
(* The life of frozen release capsules under scratch/release-capsules:     *)
(* `feature freeze` builds one beside the final name and installs it with  *)
(* an exclusive rename, rollouts load it and run from it, and              *)
(* `feature clean-capsule` removes it with its target plans.  A freeze     *)
(* takes no lock; rollouts and cleanups meet in the index of local release *)
(* state and its writer lock.                                              *)
(*                                                                         *)
(* A capsule is named by its payload (source bytes and engine) and its     *)
(* commit.  What stands under the name is whole, or torn: incomplete or    *)
(* changed, so that its digests refuse it.  Index updates of rollouts are  *)
(* atomic (LocalStateIndex shows that); the cleanup writes the index       *)
(* several times under one lock, so its steps are actions of their own.    *)
(* What a rollout writes to a database is the matter of FeatureRollout.    *)
(***************************************************************************)
EXTENDS Naturals, Sequences

CONSTANTS
    Source,       \* bytes of the selected release inputs
    Engine,       \* versions of the workflow engine's files
    Commit,       \* commits
    SourceOf,     \* [Commit -> Source]: the committed inputs
    Builder,      \* feature freeze commands, each once
    Runner,       \* confirmed rollouts, each once
    Cleaner,      \* clean-capsule commands, each once
    NoRun,        \* no recovery
    NoName,       \* no capsule
    Free,         \* no writer lock
    MaxChanges    \* bound: edits, checkouts, engine changes, hand changes

ASSUME CommitsHaveInputs == SourceOf \in [Commit -> Source]
ASSUME FreeIsNoCleaner == Free \notin Cleaner

VARIABLES
    tree, head, engine,     \* working tree inputs, HEAD, engine files
    changes,
    dirs,                   \* what is under each capsule name
    plans,                  \* prepared target plans
    rollouts, cleanups,     \* rows of the index, in order
    lock,                   \* token of the index's writer lock
    tampered,               \* capsules changed by hand
    builder,                \* what a freeze has read
    runner, cleaner

world == <<tree, head, engine, changes>>
index == <<rollouts, cleanups, lock>>
vars == <<world, dirs, plans, index, tampered, builder, runner, cleaner>>

Env == {"staging", "prod"}
Name == [source : Source, engine : Engine, commit : Commit]
Payload == [source : Source, engine : Engine]
Plan == [env : Env, payload : Payload]
Target == Name \cup Plan

PayloadOf(n) == [source |-> n.source, engine |-> n.engine]

Occupied(n) == dirs[n] # "absent"
Whole(n) == dirs[n] = "whole"

\* load_capsule: an intact tree, built by the engine that is in place
Loadable(n) == Whole(n) /\ n.engine = engine

Exists(t) == IF t \in Name THEN Occupied(t) ELSE t \in plans

FreezeOver(b) == [builder EXCEPT ![b] = [pc |-> "over", name |-> NoName]]

Goto(f, p, place) == [f EXCEPT ![p].pc = place]

Init ==
    /\ tree \in Source /\ head \in Commit /\ SourceOf[head] = tree
    /\ engine \in Engine
    /\ changes = 0
    /\ dirs = [n \in Name |-> "absent"]
    /\ plans = {}
    /\ rollouts = <<>> /\ cleanups = <<>> /\ lock = Free
    /\ tampered = {}
    /\ builder = [b \in Builder |-> [pc |-> "idle", name |-> NoName]]
    /\ runner = [r \in Runner |-> [pc |-> "idle", env |-> "staging", recovers |-> NoRun, name |-> NoName]]
    /\ cleaner = [k \in Cleaner |-> [pc |-> "idle", targets |-> {}, current |-> NoName, row |-> 0]]

-----------------------------------------------------------------------------
(* Developers and operators *)

Changed == changes < MaxChanges /\ changes' = changes + 1

Edit ==
    /\ Changed
    /\ tree' \in Source \ {tree}
    /\ UNCHANGED <<head, engine, dirs, plans, index, tampered, builder, runner, cleaner>>

Checkout ==
    /\ Changed
    /\ \E c \in Commit \ {head} : head' = c /\ tree' = SourceOf[c]
    /\ UNCHANGED <<engine, dirs, plans, index, tampered, builder, runner, cleaner>>

ChangeEngine ==
    /\ Changed
    /\ engine' \in Engine \ {engine}
    /\ UNCHANGED <<tree, head, dirs, plans, index, tampered, builder, runner, cleaner>>

\* A file of an installed capsule is edited, or the whole capsule deleted.
Tamper(n) ==
    /\ Changed
    /\ Occupied(n)
    /\ dirs' \in {[dirs EXCEPT ![n] = "absent"], [dirs EXCEPT ![n] = "torn"]}
    /\ tampered' = tampered \cup {n}
    /\ UNCHANGED <<tree, head, engine, plans, index, builder, runner, cleaner>>

\* The report, a receipt or a check's evidence of a finished run is changed.
ChangeEvidence(i) ==
    /\ Changed
    /\ rollouts[i].state = "verified" /\ rollouts[i].evidence
    /\ rollouts' = [rollouts EXCEPT ![i].evidence = FALSE]
    /\ UNCHANGED <<tree, head, engine, dirs, plans, cleanups, lock, tampered, builder, runner, cleaner>>

\* The lock of a killed cleanup is reconciled explicitly.
Reconcile ==
    /\ lock # Free /\ cleaner[lock].pc = "killed"
    /\ lock' = Free
    /\ UNCHANGED <<world, dirs, plans, rollouts, cleanups, tampered, builder, runner, cleaner>>

-----------------------------------------------------------------------------
(* Freeze *)

\* The manifest and the checkpoints are loaded for the freeze gate.
ReadInputs(b) ==
    /\ builder[b].pc = "idle"
    /\ builder' = [builder EXCEPT ![b] = [pc |-> "read", name |-> [source |-> tree, engine |-> engine, commit |-> head]]]
    /\ UNCHANGED <<world, dirs, plans, index, tampered, runner, cleaner>>

\* A mutation: only the two reads are compared.
MatchesFirstRead(b) == builder[b].name.source = tree

MatchesCommit(b) == builder[b].name.source = tree /\ SourceOf[head] = tree

\* The inputs are read again, compared with the first read and with HEAD.
Make(b) ==
    /\ builder[b].pc = "read"
    /\ IF MatchesCommit(b)
       THEN builder' = [builder EXCEPT ![b] =
                [pc |-> "made", name |-> [source |-> @.name.source, engine |-> engine, commit |-> head]]]
       ELSE builder' = FreezeOver(b)
    /\ UNCHANGED <<world, dirs, plans, index, tampered, runner, cleaner>>

\* An occupied name is loaded and returned, or the freeze fails.
Reuse(b) ==
    /\ builder[b].pc = "made"
    /\ Occupied(builder[b].name)
    /\ builder' = FreezeOver(b)
    /\ UNCHANGED <<world, dirs, plans, index, tampered, runner, cleaner>>

\* A mutation: the stage is the final directory.
OpenInPlace(b) ==
    /\ builder[b].pc = "made"
    /\ ~Occupied(builder[b].name)
    /\ dirs' = [dirs EXCEPT ![builder[b].name] = "torn"]
    /\ builder' = Goto(builder, b, "staging")
    /\ UNCHANGED <<world, plans, index, tampered, runner, cleaner>>

OpenStage(b) ==
    /\ builder[b].pc = "made"
    /\ ~Occupied(builder[b].name)
    /\ builder' = Goto(builder, b, "staging")
    /\ UNCHANGED <<world, dirs, plans, index, tampered, runner, cleaner>>

\* Payload files and drivers, the manifest last.
WriteStage(b) ==
    /\ builder[b].pc = "staging"
    /\ builder' = Goto(builder, b, "staged")
    /\ UNCHANGED <<world, dirs, plans, index, tampered, runner, cleaner>>

\* The stage is validated, against the engine files of this moment too, and
\* renamed to its name unless that has become occupied.
Install(b) ==
    /\ builder[b].pc = "staged"
    /\ dirs' = IF builder[b].name.engine = engine /\ ~Occupied(builder[b].name)
               THEN [dirs EXCEPT ![builder[b].name] = "whole"]
               ELSE dirs
    /\ builder' = FreezeOver(b)
    /\ UNCHANGED <<world, plans, index, tampered, runner, cleaner>>

\* A killed or failing freeze leaves at most its private stage.
StopFreeze(b) ==
    /\ builder[b].pc \notin {"idle", "over"}
    /\ builder' = FreezeOver(b)
    /\ UNCHANGED <<world, dirs, plans, index, tampered, runner, cleaner>>

-----------------------------------------------------------------------------
(* Rollouts *)

\* rollout --prepare: the capsule is loaded, compared with the working tree,
\* and a plan is stored for the environment.
Prepare(e, n) ==
    /\ Loadable(n) /\ tree = n.source
    /\ plans' = plans \cup {[env |-> e, payload |-> PayloadOf(n)]}
    /\ plans' # plans
    /\ UNCHANGED <<world, dirs, index, tampered, builder, runner, cleaner>>

\* The confirmed rollout loads the capsule and the plan, before any lock.
Open(r, e, n, o) ==
    /\ runner[r].pc = "idle"
    /\ Loadable(n) /\ tree = n.source
    /\ [env |-> e, payload |-> PayloadOf(n)] \in plans
    /\ o # NoRun => \E i \in DOMAIN rollouts : rollouts[i].run = o /\ rollouts[i].unresolved
    /\ runner' = [runner EXCEPT ![r] = [pc |-> "open", env |-> e, recovers |-> o, name |-> n]]
    /\ UNCHANGED <<world, dirs, plans, index, tampered, builder, cleaner>>

Uncertain(row) == row.state \in {"running", "unknown"} \/ row.unresolved

\* One target per environment.  A recovery may start beside the one run whose
\* attempt it recovers and that left the attempt unresolved.
TargetFree(r) ==
    \A i \in DOMAIN rollouts : LET row == rollouts[i] IN
        (row.env = runner[r].env /\ Uncertain(row)) =>
            \/ row.run = runner[r].recovers /\ row.unresolved
            \/ row.retired

WithRun(r) ==
    Append(rollouts, [run |-> r, env |-> runner[r].env, name |-> runner[r].name, state |-> "running",
                      unresolved |-> FALSE, retired |-> FALSE, recovers |-> runner[r].recovers, evidence |-> TRUE])

\* A mutation: the capsule loaded before the lock is trusted.
StartUnchecked(r) ==
    /\ runner[r].pc = "open"
    /\ lock = Free
    /\ TargetFree(r)
    /\ rollouts' = WithRun(r)
    /\ runner' = Goto(runner, r, "running")
    /\ UNCHANGED <<world, dirs, plans, cleanups, lock, tampered, builder, cleaner>>

\* start_rollout reloads the capsule under the writer lock.
StartRollout(r) ==
    /\ runner[r].pc = "open"
    /\ lock = Free
    /\ Loadable(runner[r].name)
    /\ TargetFree(r)
    /\ rollouts' = WithRun(r)
    /\ runner' = Goto(runner, r, "running")
    /\ UNCHANGED <<world, dirs, plans, cleanups, lock, tampered, builder, cleaner>>

RowOf(r) == CHOOSE i \in DOMAIN rollouts : rollouts[i].run = r

\* A checkpoint of the run is recorded before it writes, and verified after.
Attempt(r) ==
    /\ runner[r].pc = "running" /\ lock = Free
    /\ \/ ~rollouts[RowOf(r)].unresolved /\ rollouts' = [rollouts EXCEPT ![RowOf(r)].unresolved = TRUE]
       \/ /\ rollouts[RowOf(r)].unresolved
          /\ rollouts' = [i \in DOMAIN rollouts |->
                IF rollouts[i].run = r THEN [rollouts[i] EXCEPT !.unresolved = FALSE]
                ELSE IF rollouts[i].run = runner[r].recovers
                     THEN [rollouts[i] EXCEPT !.unresolved = FALSE, !.retired = TRUE]
                ELSE rollouts[i]]
    /\ UNCHANGED <<world, dirs, plans, cleanups, lock, tampered, builder, runner, cleaner>>

Matching(p) == {n \in Name : PayloadOf(n) = p /\ Occupied(n)}

Finish(r, state) ==
    /\ runner[r].pc = "running" /\ lock = Free
    /\ rollouts' = [rollouts EXCEPT ![RowOf(r)].state = state]
    /\ runner' = [runner EXCEPT ![r] = [pc |-> "over", env |-> "staging", recovers |-> NoRun, name |-> NoName]]
    /\ UNCHANGED <<world, dirs, plans, cleanups, lock, tampered, builder, cleaner>>

\* A verified end wants every capsule of the payload whole, and its own loadable.
FinishVerified(r) ==
    /\ runner[r].pc = "running"
    /\ ~rollouts[RowOf(r)].unresolved
    /\ \A n \in Matching(PayloadOf(runner[r].name)) : Whole(n)
    /\ Loadable(runner[r].name)
    /\ Finish(r, "verified")

FinishOtherwise(r) == \E state \in {"failed", "unknown", "not-started"} : Finish(r, state)

\* A rollout is refused or interrupted before its row, is killed, or cannot
\* write its end: the row stays as it is.
StopRollout(r) ==
    /\ runner[r].pc \in {"open", "running"}
    /\ runner' = [runner EXCEPT ![r] = [pc |-> "over", env |-> "staging", recovers |-> NoRun, name |-> NoName]]
    /\ UNCHANGED <<world, dirs, plans, index, tampered, builder, cleaner>>

-----------------------------------------------------------------------------
(* Cleanup *)

\* Rows are added in the order of their start.
Candidates(n) ==
    {i \in DOMAIN rollouts : rollouts[i].env = "prod" /\ rollouts[i].name = n}

LatestVerified(n, i) ==
    /\ i \in Candidates(n)
    /\ \A j \in Candidates(n) : j <= i
    /\ rollouts[i].state = "verified"

\* The latest production run of the capsule is verified, its report, receipts
\* and evidence are unchanged and the capsule can be loaded.
Completed(n) ==
    /\ \E i \in DOMAIN rollouts : LatestVerified(n, i) /\ rollouts[i].evidence
    /\ Loadable(n)

NoRunNeeds(p) ==
    \A i \in DOMAIN rollouts :
        PayloadOf(rollouts[i].name) = p =>
            ~rollouts[i].unresolved /\ rollouts[i].state \notin {"running", "unknown", "not-started"}

NoRemovalOpen(p) ==
    \A j \in DOMAIN cleanups : cleanups[j].payload = p => cleanups[j].state # "removing"

\* Mutations: one blocker of the report is missing or weaker.
EligibleByAnyCapsule(p) ==
    /\ Matching(p) # {}
    /\ \A n \in Matching(p) : Whole(n)
    /\ \E n \in Matching(p) : Completed(n)
    /\ NoRunNeeds(p)
    /\ NoRemovalOpen(p)

EligibleAgain(p) ==
    /\ \A n \in Matching(p) : Whole(n) /\ Completed(n)
    /\ NoRunNeeds(p)

Eligible(p) ==
    /\ Matching(p) # {}
    /\ \A n \in Matching(p) : Whole(n) /\ Completed(n)
    /\ NoRunNeeds(p)
    /\ NoRemovalOpen(p)

CleanupTargets(p) == Matching(p) \cup {t \in plans : t.payload = p}

\* Under the lock: the report is made and the cleanup recorded as removing.
BeginCleanup(k, p) ==
    /\ cleaner[k].pc = "idle"
    /\ lock = Free
    /\ Eligible(p)
    /\ lock' = k
    /\ cleanups' = Append(cleanups, [payload |-> p, state |-> "removing", targets |-> CleanupTargets(p), removed |-> {}])
    /\ cleaner' = [cleaner EXCEPT ![k] = [pc |-> "arrive", targets |-> CleanupTargets(p), current |-> NoName, row |-> Len(cleanups) + 1]]
    /\ UNCHANGED <<world, dirs, plans, rollouts, tampered, builder, runner>>

Current(k) == cleaner[k].current

\* The capsules first, then the plans.
Arrive(k) ==
    /\ cleaner[k].pc = "arrive"
    /\ \E t \in cleaner[k].targets :
        /\ t \in Name \/ cleaner[k].targets \cap Name = {}
        /\ Exists(t)
        /\ cleaner' = [cleaner EXCEPT ![k].pc = "removing", ![k].current = t]
    /\ UNCHANGED <<world, dirs, plans, index, tampered, builder, runner>>

\* rmtree takes a capsule apart file by file; a plan is one file.
RemoveFile(k) ==
    /\ cleaner[k].pc = "removing"
    /\ LET t == Current(k) IN
        \/ /\ t \in Name /\ Whole(t)
           /\ dirs' = [dirs EXCEPT ![t] = "torn"]
           /\ UNCHANGED <<plans, cleaner>>
        \/ /\ t \in Name /\ ~Whole(t)
           /\ dirs' = [dirs EXCEPT ![t] = "absent"]
           /\ cleaner' = Goto(cleaner, k, "removed")
           /\ UNCHANGED plans
        \/ /\ t \in Plan
           /\ plans' = plans \ {t}
           /\ cleaner' = Goto(cleaner, k, "removed")
           /\ UNCHANGED dirs
    /\ UNCHANGED <<world, index, tampered, builder, runner>>

Ended(k) == [cleaner EXCEPT ![k] = [pc |-> "over", targets |-> {}, current |-> NoName, row |-> 0]]

\* The removal meets an error, or something stands at the path again: the
\* cleanup ends as partial, and says which targets are gone.
EndPartial(k) ==
    /\ \/ cleaner[k].pc = "removing"
       \/ cleaner[k].pc = "removed" /\ Exists(Current(k))
    /\ cleanups' = [cleanups EXCEPT ![cleaner[k].row].state = "partial",
                                    ![cleaner[k].row].removed = {t \in cleanups[cleaner[k].row].targets : ~Exists(t)}]
    /\ lock' = Free
    /\ cleaner' = Ended(k)
    /\ UNCHANGED <<world, dirs, plans, rollouts, tampered, builder, runner>>

RecordRemoved(k) ==
    /\ cleaner[k].pc = "removed"
    /\ ~Exists(Current(k))
    /\ cleanups' = [cleanups EXCEPT ![cleaner[k].row].removed = @ \cup {Current(k)}]
    /\ cleaner' = [cleaner EXCEPT ![k].pc = "arrive", ![k].targets = @ \ {Current(k)}, ![k].current = NoName]
    /\ UNCHANGED <<world, dirs, plans, rollouts, lock, tampered, builder, runner>>

\* A mutation: the end is recorded without looking for targets that are left.
CompleteEarly(k) ==
    /\ cleaner[k].pc = "arrive"
    /\ cleanups' = [cleanups EXCEPT ![cleaner[k].row].state = "complete"]
    /\ lock' = Free
    /\ cleaner' = Ended(k)
    /\ UNCHANGED <<world, dirs, plans, rollouts, tampered, builder, runner>>

Complete(k) ==
    /\ cleaner[k].pc = "arrive"
    /\ cleaner[k].targets = {}
    /\ cleanups' = [cleanups EXCEPT ![cleaner[k].row].state = "complete"]
    /\ lock' = Free
    /\ cleaner' = Ended(k)
    /\ UNCHANGED <<world, dirs, plans, rollouts, tampered, builder, runner>>

\* A target is gone on arrival, or the index cannot be written: the error
\* leaves the row as removing and gives the lock back.
Raise(k) ==
    /\ cleaner[k].pc \notin {"idle", "over", "killed"}
    /\ lock' = Free
    /\ cleaner' = Ended(k)
    /\ UNCHANGED <<world, dirs, plans, rollouts, cleanups, tampered, builder, runner>>

KillCleaner(k) ==
    /\ cleaner[k].pc \notin {"idle", "over", "killed"}
    /\ cleaner' = [Ended(k) EXCEPT ![k].pc = "killed"]
    /\ UNCHANGED <<world, dirs, plans, index, tampered, builder, runner>>

-----------------------------------------------------------------------------
Freeze(b) ==
    \/ ReadInputs(b) \/ Make(b) \/ Reuse(b) \/ OpenStage(b) \/ WriteStage(b) \/ Install(b) \/ StopFreeze(b)

Rollout(r) ==
    \/ \E e \in Env, n \in Name, o \in (Runner \ {r}) \cup {NoRun} : Open(r, e, n, o)
    \/ StartRollout(r) \/ Attempt(r) \/ FinishVerified(r) \/ FinishOtherwise(r) \/ StopRollout(r)

Cleanup(k) ==
    \/ \E p \in Payload : BeginCleanup(k, p)
    \/ Arrive(k) \/ RemoveFile(k) \/ EndPartial(k) \/ RecordRemoved(k) \/ Complete(k) \/ Raise(k) \/ KillCleaner(k)

People ==
    \/ Edit \/ Checkout \/ ChangeEngine \/ Reconcile
    \/ \E n \in Name : Tamper(n)
    \/ \E i \in DOMAIN rollouts : ChangeEvidence(i)

Next ==
    \/ People
    \/ \E b \in Builder : Freeze(b)
    \/ \E e \in Env, n \in Name : Prepare(e, n)
    \/ \E r \in Runner : Rollout(r)
    \/ \E k \in Cleaner : Cleanup(k)

Spec == Init /\ [][Next]_vars

-----------------------------------------------------------------------------
Row ==
    [run : Runner, env : Env, name : Name, state : {"running", "verified", "failed", "unknown", "not-started"},
     unresolved : BOOLEAN, retired : BOOLEAN, recovers : Runner \cup {NoRun}, evidence : BOOLEAN]

CleanupRow ==
    [payload : Payload, state : {"removing", "partial", "complete"}, targets : SUBSET Target, removed : SUBSET Target]

BuilderState ==
    [pc : {"idle", "read", "made", "staging", "staged", "over"}, name : Name \cup {NoName}]

RunnerState ==
    [pc : {"idle", "open", "running", "over"}, env : Env, recovers : Runner \cup {NoRun}, name : Name \cup {NoName}]

CleanerState ==
    [pc : {"idle", "arrive", "removing", "removed", "over", "killed"},
     targets : SUBSET Target, current : Target \cup {NoName}, row : Nat]

TypeOK ==
    /\ tree \in Source /\ head \in Commit /\ engine \in Engine
    /\ dirs \in [Name -> {"absent", "torn", "whole"}]
    /\ plans \subseteq Plan
    /\ rollouts \in Seq(Row)
    /\ cleanups \in Seq(CleanupRow)
    /\ lock \in Cleaner \cup {Free}
    /\ tampered \subseteq Name
    /\ builder \in [Builder -> BuilderState]
    /\ runner \in [Runner -> RunnerState]
    /\ cleaner \in [Cleaner -> CleanerState]

\* A rollout between its row and its end finds the capsule it was started
\* from in place and whole, whoever cleans up, unless somebody changed it by
\* hand (start_rollout reloads under the lock, cleanup looks for running rows).
RunningKeepsItsCapsule ==
    \A r \in Runner : runner[r].pc = "running" => Whole(runner[r].name) \/ runner[r].name \in tampered

\* A capsule that stands under its final name and is not whole was changed by
\* hand, or a cleanup is on record that did not complete: neither a killed
\* freeze nor a race of two freezes leaves one (the exclusive installation).
TornCapsuleIsOnRecord ==
    \A n \in Name :
        Occupied(n) /\ ~Whole(n) =>
            \/ n \in tampered
            \/ \E j \in DOMAIN cleanups : n \in cleanups[j].targets /\ cleanups[j].state # "complete"

\* A capsule holds the bytes of the commit in its name, although developers
\* edit and check out while the freeze reads (_require_committed).
CapsuleIsCommitted ==
    \A n \in Name : Occupied(n) => n.source = SourceOf[n.commit]

\* A cleanup recorded as complete has recorded the removal of every target.
CompleteIsComplete ==
    \A j \in DOMAIN cleanups :
        /\ cleanups[j].removed \subseteq cleanups[j].targets
        /\ cleanups[j].state = "complete" => cleanups[j].removed = cleanups[j].targets

\* At most one cleanup of a payload is open: one that was killed or failed
\* without a terminal state blocks all later ones until it is reconciled
\* (the last blocker of _cleanup_report).
OneCleanupOpen ==
    \A i, j \in DOMAIN cleanups :
        i # j /\ cleanups[i].payload = cleanups[j].payload =>
            cleanups[i].state # "removing" \/ cleanups[j].state # "removing"

\* Tools take a capsule apart only after its own latest production run was
\* verified, and while no run of the payload is open or uncertain.
Damaged(n) == Whole(n) /\ dirs'[n] # "whole" /\ n \notin tampered'

ProvenRemoval ==
    \A n \in Name : Damaged(n) =>
        /\ \E i \in DOMAIN rollouts : LatestVerified(n, i)
        /\ NoRunNeeds(PayloadOf(n))
RemovalIsProven == [][ProvenRemoval]_vars

\* Nobody works with half a capsule or a wrong one: a running rollout has its
\* capsule whole, a torn one is on record, and its bytes are the commit's.
CapsulesAreSound == RunningKeepsItsCapsule /\ TornCapsuleIsOnRecord /\ CapsuleIsCommitted

-----------------------------------------------------------------------------
(* The inductive invariant behind both, in parts (CapsuleStoreProofs).      *)

\* What a freeze has read has a name, and once the two reads and the commit
\* were compared it is the commit's.
Built ==
    \A b \in Builder :
        /\ builder[b].pc \notin {"idle", "over"} => builder[b].name \in Name
        /\ builder[b].pc \in {"made", "staging", "staged"} =>
               builder[b].name.source = SourceOf[builder[b].name.commit]

\* A rollout at work has its row, as running.
Started ==
    \A r \in Runner :
        /\ runner[r].pc \in {"open", "running"} => runner[r].name \in Name
        /\ runner[r].pc = "running" =>
               \E i \in DOMAIN rollouts :
                   /\ rollouts[i].run = r
                   /\ rollouts[i].name = runner[r].name
                   /\ rollouts[i].state = "running"

Active(k) == cleaner[k].pc \in {"arrive", "removing", "removed"}

\* A cleanup at work holds the lock, has its row as removing with what is left
\* to remove, and what made its capsules eligible still holds.
Removing ==
    \A k \in Cleaner : Active(k) =>
        /\ lock = k
        /\ cleaner[k].row \in DOMAIN cleanups
        /\ cleanups[cleaner[k].row].state = "removing"
        /\ cleaner[k].targets = cleanups[cleaner[k].row].targets \ cleanups[cleaner[k].row].removed
        /\ \A n \in cleaner[k].targets \cap Name :
               (\E i \in DOMAIN rollouts : LatestVerified(n, i)) /\ NoRunNeeds(PayloadOf(n))
        /\ cleaner[k].pc # "arrive" => cleaner[k].current \in cleaner[k].targets

\* A torn capsule nobody changed by hand is still to be removed by the cleanup
\* at work, or was left by one that is no longer at work and did not complete.
TornIsAccounted ==
    \A n \in Name :
        Occupied(n) /\ ~Whole(n) /\ n \notin tampered =>
            \/ \E k \in Cleaner : Active(k) /\ n \in cleaner[k].targets
            \/ \E j \in DOMAIN cleanups :
                   /\ n \in cleanups[j].targets /\ cleanups[j].state # "complete"
                   /\ \A k \in Cleaner : Active(k) => cleaner[k].row # j

IndInv ==
    /\ TypeOK /\ Built /\ CapsuleIsCommitted /\ Started /\ RunningKeepsItsCapsule
    /\ Removing /\ TornIsAccounted /\ CompleteIsComplete /\ OneCleanupOpen

=============================================================================
