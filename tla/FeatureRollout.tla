--------------------------- MODULE FeatureRollout ---------------------------
(***************************************************************************)
(* The life of feature-release rollouts of one checkout                    *)
(* (scripts/rollout.py, feature_release.py, release_state.py,              *)
(* release_ownership.py).                                                  *)
(*                                                                         *)
(* Every member of Run is one rollout: the --prepare command and the       *)
(* process that later executes the prepared plan.  The processes share     *)
(*   - the index releases/.local-state.json: attempt rows, checkpoint      *)
(*     verifications, recovery links and rollout rows;                     *)
(*   - one kernel lease per physical target scope, which dies with its     *)
(*     process;                                                            *)
(*   - step receipts and final reports on disk;                            *)
(*   - the databases, where an SQLcl operation may outlive its process.    *)
(* An index update is one atomic step here: LocalStateIndex shows that the *)
(* writer lock and the rename make it one.  An update refused because      *)
(* another process is inside the writer lock is Busy; a process killed     *)
(* inside the lock leaves it behind for ever (orphaned).                   *)
(*                                                                         *)
(* A rollout performs each step at most once, so an attempt, and the       *)
(* verification of a checkpoint, is named by its run and its step.         *)
(***************************************************************************)
EXTENDS Integers, FiniteSets

CONSTANTS
    Run,         \* rollouts
    Capsule,     \* frozen release capsules
    Scope,       \* physical target scopes
    CapsuleOf,   \* the capsule of each run
    EnvOf,       \* the environment of each run
    MaxSteps,    \* bound on the steps of a capsule
    Length,      \* number of steps of each capsule
    Kind,        \* type of each step of each capsule
    ScopeOf,     \* scope each step is bound to, per capsule and environment
    NoRun, NoAttempt

Step == 1..MaxSteps
Environment == {"staging", "prod"}

\* "sql-script" stands for ords-import too: both are auxiliary SQL steps.
StepKind == {"feature-migrate", "sql-script", "app-deploy", "verify"}
WriteKind == StepKind \ {"verify"}
LeasedKind == {"feature-migrate", "sql-script"}

ASSUME ConstantsAssumption ==
    /\ MaxSteps \in Nat \ {0}
    /\ CapsuleOf \in [Run -> Capsule]
    /\ EnvOf \in [Run -> Environment]
    /\ Length \in [Capsule -> Step]
    /\ Kind \in [Capsule -> [Step -> StepKind]]
    /\ ScopeOf \in [Capsule -> [Environment -> [Step -> Scope]]]
    /\ NoRun \notin Run
    /\ NoAttempt \notin Run \X Step

Attempt == Run \X Step

VARIABLES
    \* the rollout processes
    pc,            \* where each rollout process is
    at,            \* the step it is executing
    recovers,      \* the attempt its plan recovers, or NoAttempt
    bound,         \* state of that attempt when the plan was prepared
    outcome,       \* its report's status of the step at
    db,            \* its report's databaseState
    \* the durable state of the checkout
    attempt,       \* state of every attempt row, "none" when there is no row
    recoveredBy,   \* the recoveredBy field of the attempt rows
    verification,  \* checkpoint verification rows
    recoveryLink,  \* <<old attempt, verification>> rows
    roll,          \* state of every rollout row, "none" when there is no row
    receipt,       \* installed step receipts <<capsule, environment, step>>
    proof,         \* runs whose report on disk carries a completion proof
    orphaned,      \* a dead process left the index writer lock behind
    \* kernel and databases
    lease,         \* holder of the writer lease of each scope
    live           \* runs whose database operation is executing

process == <<pc, at, recovers, bound, outcome, db>>
index   == <<attempt, recoveredBy, verification, recoveryLink, roll>>
files   == <<receipt, proof, orphaned>>
vars    == <<process, index, files, lease, live>>

-----------------------------------------------------------------------------
(* Reading the plan and the index *)

Steps(r)       == 1..Length[CapsuleOf[r]]
KindAt(r, i)   == Kind[CapsuleOf[r]][i]
ScopeAt(r, i)  == ScopeOf[CapsuleOf[r]][EnvOf[r]][i]
Here(r)        == ScopeAt(r, at[r])
HereKind(r)    == KindAt(r, at[r])
Mine(r)        == <<r, at[r]>>
TargetScopes(r) == {ScopeAt(r, i) : i \in {j \in Steps(r) : KindAt(r, j) \in LeasedKind}}

\* Checkpoints are numbered by counting the feature-migrate steps.
CheckpointNumber(c, i) == Cardinality({j \in 1..i : Kind[c][j] = "feature-migrate"})

Uncertain == {"attempting", "unknown"}

\* The attempt recovered by the checkpoint at step i of r.
RecoveryOf(r, i) ==
    IF recovers[r] # NoAttempt /\ recovers[r] \in Run \X {i} THEN recovers[r] ELSE NoAttempt

\* Mutant: an attempt with no terminal state is taken for one not begun.
UnresolvedWhenUnknown(a) ==
    /\ attempt[a] = "unknown"
    /\ recoveredBy[a] = NoAttempt
    /\ \A v \in verification : <<a, v>> \notin recoveryLink

\* An attempt that still occupies its target.
Unresolved(a) ==
    /\ attempt[a] \in Uncertain
    /\ recoveredBy[a] = NoAttempt
    /\ \A b \in Attempt : attempt[b] = "verified" => RecoveryOf(b[1], b[2]) # a
    /\ \A v \in verification : <<a, v>> \notin recoveryLink

\* What the rollout row of q says: outcomes and database state reach the
\* index only when the rollout finishes.
IndexDb(q) == IF roll[q] = "running" THEN "not-started" ELSE db[q]
RecordedOutcome(q, i) ==
    IF roll[q] = "running" \/ i > at[q] THEN "not-started"
    ELSE IF i < at[q] THEN "verified" ELSE outcome[q]

\* Every doubt the row of q records is at a checkpoint of one of the given
\* attempts; the steps are those of the capsule c of the asking rollout.
UncertaintyIsCheckpointOnly(q, c, attempts) ==
    /\ roll[q] \in {"running", "unknown"}
    /\ IndexDb(q) \in {"not-started", "unknown"}
    /\ \A i \in Step : RecordedOutcome(q, i) \in {"failed", "unknown"} =>
         /\ i <= Length[c]
         /\ Kind[c][i] = "feature-migrate"
         /\ \E a \in attempts : CheckpointNumber(c, i) = CheckpointNumber(CapsuleOf[a[1]], a[2])

HasRecoveryVerification(a) ==
    \E v \in verification : <<a, v>> \in recoveryLink /\ v[1] # a[1]

UncertainOf(q) == {a \in {q} \X Step : attempt[a] \in Uncertain}

Reconciled(q, c) ==
    /\ UncertainOf(q) # {}
    /\ \A a \in UncertainOf(q) : HasRecoveryVerification(a)
    /\ UncertaintyIsCheckpointOnly(q, c, UncertainOf(q))

RecoveryParent(q, c, a) ==
    /\ a \in {q} \X Step
    /\ Unresolved(a)
    /\ UncertaintyIsCheckpointOnly(q, c, {a})

\* A run that no longer occupies its targets, as seen by run r.
Retired(q, r) == Reconciled(q, CapsuleOf[r]) \/ RecoveryParent(q, CapsuleOf[r], recovers[r])

\* The recovery part of a plan still names the one unresolved attempt of
\* its target, unchanged since it was acknowledged.
RecoveryPlanValid(r, a, state) ==
    a # NoAttempt =>
      /\ attempt[a] = state
      /\ Unresolved(a)
      /\ CapsuleOf[a[1]] = CapsuleOf[r]
      /\ EnvOf[a[1]] = EnvOf[r]
      /\ \A b \in Attempt \ {a} :
           Unresolved(b) => ScopeAt(b[1], b[2]) # ScopeAt(a[1], a[2])

\* The one parent rollout is eligible and restarting it repeats no write.
RecoveryRestartable(r, a) ==
    a # NoAttempt =>
      /\ RecoveryParent(a[1], CapsuleOf[r], a)
      /\ \A j \in Step : j < a[2] => KindAt(r, j) \notin WriteKind

\* Occupancy of the targets of r, checked before its row is created.
StartAllowed(r) ==
    /\ RecoveryPlanValid(r, recovers[r], bound[r])
    /\ \A q \in Run :
         /\ TargetScopes(q) \cap TargetScopes(r) # {}
         /\ roll[q] \in {"running", "unknown"} \/ (roll[q] # "none" /\ IndexDb(q) = "unknown")
         => Retired(q, r)
    /\ \A a \in Attempt :
         ScopeAt(a[1], a[2]) \in TargetScopes(r) /\ Unresolved(a) => a = recovers[r]

\* r is the only active rollout of the scope of its step.
OwnsScope(r) ==
    /\ roll[r] = "running"
    /\ \A q \in Run \ {r} :
         roll[q] = "running" /\ Here(r) \in TargetScopes(q) => Retired(q, r)

\* The check of assert_checkpoint_allowed, repeated inside every update of
\* a checkpoint; own is the attempt of the update itself, or NoAttempt.
CheckpointAllowed(r, own) ==
    /\ OwnsScope(r)
    /\ Mine(r) \notin verification
    /\ \A a \in Attempt :
         ScopeAt(a[1], a[2]) = Here(r) /\ Unresolved(a)
         => a \in {RecoveryOf(r, at[r]), own}

\* Mutant: any report of the capsule will do.
StageProvenByAnyReport(r) ==
    EnvOf[r] = "prod" =>
      \E q \in Run : roll[q] # "none" /\ EnvOf[q] = "staging" /\ CapsuleOf[q] = CapsuleOf[r]

\* The report of q carries a completion proof, and it is one of the capsule of r:
\* every step of its list ended and every checkpoint is verified.
CompletionProof(q, r) == q \in proof /\ CapsuleOf[q] = CapsuleOf[r]

\* Production starts only with a staging report that proves this capsule.
StageProven(r) ==
    EnvOf[r] = "prod" => \E q \in Run : EnvOf[q] = "staging" /\ CompletionProof(q, r)

-----------------------------------------------------------------------------
(* Where a process can be *)

\* Inside the lease of its step's scope.
Holding == {"leased", "recorded", "applying", "checking", "ambiguous", "nowrite", "written"}
\* Between start_rollout and the end of its step loop.
Active == Holding \cup {"step", "receipt"}
\* About to update the index, so possibly inside the writer lock.
Updating == {"confirmed", "leased", "checking", "ambiguous", "nowrite",
             "proved", "failing", "interrupted"}
PC == Active \cup Updating \cup {"idle", "prepared", "closing", "ended", "crashed"}

\* The writer lock file exists: it refuses, it is never waited for.
Busy(r) == orphaned \/ \E q \in Run \ {r} : pc[q] \in Updating

Goto(r, label) == pc' = [pc EXCEPT ![r] = label]
Released(r) == [s \in Scope |-> IF lease[s] = r THEN NoRun ELSE lease[s]]

-----------------------------------------------------------------------------
(* Preparing, confirming, starting *)

\* Mutant: a free lease is taken for proof that the old operation ended.
PrepareUnacknowledged(r, a) ==
    /\ pc[r] = "idle"
    /\ IF a = NoAttempt
       THEN UNCHANGED <<recovers, bound>>
       ELSE /\ RecoveryPlanValid(r, a, attempt[a])
            /\ RecoveryRestartable(r, a)
            /\ lease[ScopeAt(a[1], a[2])] = NoRun
            /\ recovers' = [recovers EXCEPT ![r] = a]
            /\ bound' = [bound EXCEPT ![r] = attempt[a]]
    /\ Goto(r, "prepared")
    /\ UNCHANGED <<at, outcome, db, index, files, lease, live>>

\* rollout --prepare, with --recover when a is an attempt.  The operator's
\* acknowledgment asserts that the old database operation has ended.
Prepare(r, a) ==
    /\ pc[r] = "idle"
    /\ IF a = NoAttempt
       THEN UNCHANGED <<recovers, bound>>
       ELSE /\ RecoveryPlanValid(r, a, attempt[a])
            /\ RecoveryRestartable(r, a)
            /\ a[1] \notin live
            /\ lease[ScopeAt(a[1], a[2])] = NoRun
            /\ recovers' = [recovers EXCEPT ![r] = a]
            /\ bound' = [bound EXCEPT ![r] = attempt[a]]
    /\ Goto(r, "prepared")
    /\ UNCHANGED <<at, outcome, db, index, files, lease, live>>

\* Loading the plan: the recovery parent, the staging proof, the operator.
Confirm(r) ==
    /\ pc[r] = "prepared"
    /\ RecoveryPlanValid(r, recovers[r], bound[r])
    /\ RecoveryRestartable(r, recovers[r])
    /\ StageProven(r)
    /\ Goto(r, "confirmed")
    /\ UNCHANGED <<at, recovers, bound, outcome, db, index, files, lease, live>>

\* start_rollout.
StartRollout(r) ==
    /\ pc[r] = "confirmed"
    /\ ~orphaned
    /\ StartAllowed(r)
    /\ roll' = [roll EXCEPT ![r] = "running"]
    /\ Goto(r, "step")
    /\ UNCHANGED <<at, recovers, bound, outcome, db, attempt, recoveredBy,
                   verification, recoveryLink, files, lease, live>>

\* Declined, refused by a check, or the index lock was busy: no row exists.
NotStarted(r) ==
    /\ pc[r] \in {"prepared", "confirmed"}
    /\ Goto(r, "ended")
    /\ UNCHANGED <<at, recovers, bound, outcome, db, index, files, lease, live>>

-----------------------------------------------------------------------------
(* One step of the frozen list *)

\* The step at which r is ended its loop: the lease is gone, the report
\* carries the outcome o of the step and the database state d.
StepEnds(r, o, d) ==
    /\ outcome' = [outcome EXCEPT ![r] = o]
    /\ db' = [db EXCEPT ![r] = d]
    /\ lease' = Released(r)
    /\ Goto(r, "failing")
    /\ UNCHANGED <<at, recovers, bound>>

\* The lease is a non-blocking flock.
AcquireLease(r) ==
    /\ pc[r] = "step"
    /\ HereKind(r) \in LeasedKind
    /\ lease[Here(r)] = NoRun
    /\ lease' = [lease EXCEPT ![Here(r)] = r]
    /\ Goto(r, "leased")
    /\ UNCHANGED <<at, recovers, bound, outcome, db, index, files, live>>

\* Refused before any write: lease taken, target drifted, precondition
\* false, checkpoint not allowed, index lock busy.
StepRefused(r) ==
    /\ pc[r] \in {"step", "leased"}
    /\ HereKind(r) \in LeasedKind
    /\ StepEnds(r, "failed", db[r])
    /\ UNCHANGED <<index, files, live>>

\* The capsule changed, or the object budget was reached, before the step.
StepNotReached(r) ==
    /\ pc[r] = "step"
    /\ StepEnds(r, "not-started", db[r])
    /\ UNCHANGED <<index, files, live>>

\* record_attempt; every checkpoint of a recovery first checks its plan.
RecordAttempt(r) ==
    /\ pc[r] = "leased"
    /\ HereKind(r) = "feature-migrate"
    /\ ~orphaned
    /\ CheckpointAllowed(r, NoAttempt)
    /\ RecoveryPlanValid(r, recovers[r], bound[r])
    /\ attempt' = [attempt EXCEPT ![Mine(r)] = "attempting"]
    /\ Goto(r, "recorded")
    /\ UNCHANGED <<at, recovers, bound, outcome, db, recoveredBy, verification,
                   recoveryLink, roll, files, lease, live>>

\* Every input already matches the target: no session and no attempt.
SkipWrite(r) ==
    /\ pc[r] = "leased"
    /\ HereKind(r) = "feature-migrate"
    /\ ~orphaned
    /\ CheckpointAllowed(r, NoAttempt)
    /\ RecoveryPlanValid(r, recovers[r], bound[r])
    /\ Goto(r, "checking")
    /\ UNCHANGED <<at, recovers, bound, outcome, db, index, files, lease, live>>

StartSession(r) ==
    /\ pc[r] = "recorded"
    /\ live' = live \cup {r}
    /\ Goto(r, "applying")
    /\ UNCHANGED <<at, recovers, bound, outcome, db, index, files, lease>>

SessionSucceeds(r) ==
    /\ pc[r] = "applying"
    /\ live' = live \ {r}
    /\ Goto(r, IF HereKind(r) = "feature-migrate" THEN "checking" ELSE "written")
    /\ UNCHANGED <<at, recovers, bound, outcome, db, index, files, lease>>

\* SQLcl failed, timed out or gave no complete answer (or could not be
\* staged at all): its database operation may still be executing.
SessionFails(r) ==
    /\ pc[r] \in {"recorded", "applying"}
    /\ HereKind(r) = "feature-migrate"
    /\ Goto(r, "ambiguous")
    /\ UNCHANGED <<at, recovers, bound, outcome, db, index, files, lease, live>>

\* Mutant: the lease is given up before the attempt is finished.
SessionRefusedUnleased(r) ==
    /\ pc[r] = "applying"
    /\ HereKind(r) = "feature-migrate"
    /\ live' = live \ {r}
    /\ lease' = Released(r)
    /\ Goto(r, "nowrite")
    /\ UNCHANGED <<at, recovers, bound, outcome, db, index, files>>

\* The log proves that no payload began.
SessionRefused(r) ==
    /\ pc[r] = "applying"
    /\ HereKind(r) = "feature-migrate"
    /\ live' = live \ {r}
    /\ Goto(r, "nowrite")
    /\ UNCHANGED <<at, recovers, bound, outcome, db, index, files, lease>>

Wrote(r) == attempt[Mine(r)] # "none"

\* A postcondition is false, or could not be observed.
ChecksFail(r) ==
    /\ pc[r] = "checking"
    /\ IF Wrote(r)
       THEN Goto(r, "ambiguous") /\ UNCHANGED <<at, recovers, bound, outcome, db, lease>>
       ELSE StepEnds(r, "failed", "not-started")
    /\ UNCHANGED <<index, files, live>>

\* Mutant: only a recovery that wrote links the attempt it recovers.
RecordVerificationUnlinked(r) ==
    LET old == RecoveryOf(r, at[r])
    IN  /\ pc[r] = "checking"
        /\ ~orphaned
        /\ CheckpointAllowed(r, IF Wrote(r) THEN Mine(r) ELSE NoAttempt)
        /\ attempt' = IF Wrote(r) THEN [attempt EXCEPT ![Mine(r)] = "verified"] ELSE attempt
        /\ verification' = verification \cup {Mine(r)}
        /\ recoveryLink' = IF Wrote(r) THEN recoveryLink \cup ({old} \ {NoAttempt}) \X {Mine(r)}
                           ELSE recoveryLink
        /\ db' = [db EXCEPT ![r] = "verified"]
        /\ Goto(r, "written")
        /\ UNCHANGED <<at, recovers, bound, outcome, recoveredBy, roll, files, lease, live>>

\* record_checkpoint_verification: one update ends the attempt, verifies
\* the checkpoint and links the attempt it recovers.
RecordVerification(r) ==
    LET old == RecoveryOf(r, at[r])
    IN  /\ pc[r] = "checking"
        /\ ~orphaned
        /\ CheckpointAllowed(r, IF Wrote(r) THEN Mine(r) ELSE NoAttempt)
        /\ old # NoAttempt => attempt[old] \in Uncertain /\ Unresolved(old)
        /\ attempt' = IF Wrote(r) THEN [attempt EXCEPT ![Mine(r)] = "verified"] ELSE attempt
        /\ recoveredBy' = IF Wrote(r) /\ old # NoAttempt /\ attempt[old] = "unknown"
                          THEN [recoveredBy EXCEPT ![old] = Mine(r)] ELSE recoveredBy
        /\ verification' = verification \cup {Mine(r)}
        /\ recoveryLink' = recoveryLink \cup ({old} \ {NoAttempt}) \X {Mine(r)}
        /\ db' = [db EXCEPT ![r] = "verified"]
        /\ Goto(r, "written")
        /\ UNCHANGED <<at, recovers, bound, outcome, roll, files, lease, live>>

\* The checks passed but the index lock was busy.
VerificationNotRecorded(r) ==
    /\ pc[r] = "checking"
    /\ Busy(r)
    /\ IF Wrote(r)
       THEN Goto(r, "ambiguous") /\ UNCHANGED <<at, recovers, bound, outcome, db, lease>>
       ELSE StepEnds(r, "failed", "verified")
    /\ UNCHANGED <<index, files, live>>

\* finish_attempt after a failed session or failed checks.
FinishAttempt(r) ==
    /\ pc[r] \in {"ambiguous", "nowrite"}
    /\ ~orphaned
    /\ attempt' = [attempt EXCEPT ![Mine(r)] =
                     IF pc[r] = "nowrite" THEN "not-started" ELSE "unknown"]
    /\ StepEnds(r, "failed", "unknown")
    /\ UNCHANGED <<recoveredBy, verification, recoveryLink, roll, files, live>>

\* finish_attempt met a busy index lock: the row stays "attempting" and the
\* error replaces the checkpoint's result.
AttemptNotFinished(r) ==
    /\ pc[r] \in {"ambiguous", "nowrite"}
    /\ Busy(r)
    /\ StepEnds(r, "failed", db[r])
    /\ UNCHANGED <<index, files, live>>

\* assert_auxiliary_step_allowed, then the SQL session of the step.
AllowAuxiliary(r) ==
    /\ pc[r] = "leased"
    /\ HereKind(r) = "sql-script"
    /\ ~orphaned
    /\ OwnsScope(r)
    /\ \A a \in Attempt : ScopeAt(a[1], a[2]) = Here(r) => ~Unresolved(a)
    /\ live' = live \cup {r}
    /\ Goto(r, "applying")
    /\ UNCHANGED <<at, recovers, bound, outcome, db, index, files, lease>>

\* The auxiliary session failed, or the tree changed while it ran.
AuxiliaryFails(r) ==
    /\ pc[r] \in {"applying", "written"}
    /\ HereKind(r) = "sql-script"
    /\ StepEnds(r, "failed", "unknown")
    /\ UNCHANGED <<index, files, live>>

ReleaseLease(r) ==
    /\ pc[r] = "written"
    /\ lease' = Released(r)
    /\ db' = [db EXCEPT ![r] = "verified"]
    /\ Goto(r, "receipt")
    /\ UNCHANGED <<at, recovers, bound, outcome, index, files, live>>

\* app-deploy and verify steps run without a lease.
OtherStep(r) ==
    /\ pc[r] = "step"
    /\ HereKind(r) \notin LeasedKind
    /\ \/ Goto(r, "receipt") /\ UNCHANGED <<at, recovers, bound, outcome, db, lease>>
       \/ StepEnds(r, "failed", db[r])
    /\ UNCHANGED <<index, files, live>>

StepReceipt(r) == <<CapsuleOf[r], EnvOf[r], at[r]>>

\* Mutant: an occupied receipt path is not an error, and a spent object
\* budget does not stop the loop.
InstallReceiptOnce(r) ==
    /\ pc[r] = "receipt"
    /\ receipt' = receipt \cup {StepReceipt(r)}
    /\ at' = [at EXCEPT ![r] = @ + 1]
    /\ Goto(r, IF at[r] < Length[CapsuleOf[r]] THEN "step" ELSE "closing")
    /\ UNCHANGED <<recovers, bound, outcome, db, lease>>
    /\ UNCHANGED <<index, proof, orphaned, live>>

\* The receipt is linked into place without overwriting; then the next
\* step, the end of the loop, or a stop because the object budget is spent.
InstallReceipt(r) ==
    /\ pc[r] = "receipt"
    /\ StepReceipt(r) \notin receipt
    /\ receipt' = receipt \cup {StepReceipt(r)}
    /\ \/ /\ at[r] < Length[CapsuleOf[r]]
          /\ at' = [at EXCEPT ![r] = @ + 1]
          /\ Goto(r, "step")
          /\ UNCHANGED <<recovers, bound, outcome, db, lease>>
       \/ /\ at[r] = Length[CapsuleOf[r]]
          /\ outcome' = [outcome EXCEPT ![r] = "verified"]
          /\ Goto(r, "closing")
          /\ UNCHANGED <<at, recovers, bound, db, lease>>
       \/ /\ HereKind(r) = "feature-migrate"
          /\ StepEnds(r, "verified", "verified")
    /\ UNCHANGED <<index, proof, orphaned, live>>

\* Mutant: a step whose receipt cannot be installed still counts.
ReceiptSkipped(r) ==
    /\ pc[r] = "receipt"
    /\ outcome' = [outcome EXCEPT ![r] = "verified"]
    /\ Goto(r, IF at[r] = Length[CapsuleOf[r]] THEN "closing" ELSE "step")
    /\ at' = [at EXCEPT ![r] = IF @ = Length[CapsuleOf[r]] THEN @ ELSE @ + 1]
    /\ UNCHANGED <<recovers, bound, db, lease, index, files, live>>

\* The receipt path is occupied, or the capsule changed during the step.
ReceiptNotInstalled(r) ==
    /\ pc[r] = "receipt"
    /\ StepEnds(r, "failed", IF HereKind(r) = "sql-script" THEN "unknown" ELSE db[r])
    /\ UNCHANGED <<index, files, live>>

-----------------------------------------------------------------------------
(* The end of a run *)

\* The report with its completion proof is on disk before the index says
\* that the run is verified.
PublishProof(r) ==
    /\ pc[r] = "closing"
    /\ proof' = proof \cup {r}
    /\ Goto(r, "proved")
    /\ UNCHANGED <<at, recovers, bound, outcome, db, index, receipt, orphaned, lease, live>>

\* A receipt, an evidence file or the object budget does not prove
\* completion, or finish_rollout met a busy index lock: the report is
\* rewritten as failed.  The step whose receipt cannot be read back counts as
\* unknown from then on.
NotProved(r) ==
    /\ \/ pc[r] = "closing" /\ outcome' \in {outcome, [outcome EXCEPT ![r] = "unknown"]}
       \/ pc[r] = "proved" /\ Busy(r) /\ UNCHANGED outcome
    /\ proof' = proof \ {r}
    /\ Goto(r, "failing")
    /\ UNCHANGED <<at, recovers, bound, db, index, receipt, orphaned, lease, live>>

Finish(r, state) ==
    /\ ~orphaned
    /\ roll' = [roll EXCEPT ![r] = state]
    /\ Goto(r, "ended")
    /\ UNCHANGED <<at, recovers, bound, outcome, db, attempt, recoveredBy,
                   verification, recoveryLink, files, lease, live>>

FinishVerified(r) == pc[r] = "proved" /\ Finish(r, "verified")

FinishFailed(r) ==
    /\ pc[r] = "failing"
    /\ Finish(r, IF db[r] = "unknown" \/ outcome[r] = "unknown" THEN "unknown" ELSE "failed")

FinishInterrupted(r) == pc[r] = "interrupted" /\ Finish(r, "unknown")

\* Mutant: finish_rollout waits for the index lock.
FinishWaits(r) == FALSE /\ UNCHANGED vars

\* finish_rollout met a busy index lock: the row stays "running".
FinishLost(r) ==
    /\ pc[r] \in {"failing", "interrupted"}
    /\ Busy(r)
    /\ Goto(r, "ended")
    /\ UNCHANGED <<at, recovers, bound, outcome, db, index, files, lease, live>>

-----------------------------------------------------------------------------
(* Interrupts, crashes and operations that outlive their process *)

\* Ctrl-C: finally blocks release the lease; attempts keep their state, the
\* step that was running is reported as unknown.
Interrupt(r) ==
    /\ pc[r] \in Active \cup {"closing", "proved", "failing"}
    /\ \E o \in IF pc[r] \in Holding THEN {"unknown"}
                ELSE IF pc[r] \in Active THEN {"unknown", "not-started"}
                ELSE {outcome[r]} :
         outcome' = [outcome EXCEPT ![r] = o]
    /\ proof' = proof \ {r}
    /\ lease' = Released(r)
    /\ Goto(r, "interrupted")
    /\ UNCHANGED <<at, recovers, bound, db, index, receipt, orphaned, live>>

\* kill -9 or power loss of the process: the kernel frees the lease, the
\* index lock file stays if it was held.
Crash(r) ==
    /\ pc[r] \notin {"idle", "prepared", "ended", "crashed"}
    /\ \/ pc[r] \in Updating /\ orphaned' = TRUE
       \/ UNCHANGED orphaned
    /\ lease' = Released(r)
    /\ Goto(r, "crashed")
    /\ UNCHANGED <<at, recovers, bound, outcome, db, index, receipt, proof, live>>

\* A database operation whose process no longer waits for it ends.
OperationEnds(r) ==
    /\ r \in live
    /\ pc[r] # "applying"
    /\ live' = live \ {r}
    /\ UNCHANGED <<process, index, files, lease>>

-----------------------------------------------------------------------------
Init ==
    /\ pc = [r \in Run |-> "idle"]
    /\ at = [r \in Run |-> 1]
    /\ recovers = [r \in Run |-> NoAttempt]
    /\ bound = [r \in Run |-> "none"]
    /\ outcome = [r \in Run |-> "not-started"]
    /\ db = [r \in Run |-> "not-started"]
    /\ attempt = [a \in Attempt |-> "none"]
    /\ recoveredBy = [a \in Attempt |-> NoAttempt]
    /\ verification = {}
    /\ recoveryLink = {}
    /\ roll = [r \in Run |-> "none"]
    /\ receipt = {}
    /\ proof = {}
    /\ orphaned = FALSE
    /\ lease = [s \in Scope |-> NoRun]
    /\ live = {}

\* What a process does by itself once the operator has confirmed.
Advance(r) ==
    \/ StartRollout(r) \/ NotStarted(r)
    \/ AcquireLease(r) \/ StepRefused(r) \/ StepNotReached(r)
    \/ RecordAttempt(r) \/ SkipWrite(r) \/ StartSession(r)
    \/ SessionSucceeds(r) \/ SessionFails(r) \/ SessionRefused(r)
    \/ ChecksFail(r) \/ RecordVerification(r) \/ VerificationNotRecorded(r)
    \/ FinishAttempt(r) \/ AttemptNotFinished(r)
    \/ AllowAuxiliary(r) \/ AuxiliaryFails(r) \/ OtherStep(r)
    \/ ReleaseLease(r) \/ InstallReceipt(r) \/ ReceiptNotInstalled(r)
    \/ PublishProof(r) \/ NotProved(r)
    \/ FinishVerified(r) \/ FinishFailed(r) \/ FinishInterrupted(r) \/ FinishLost(r)

Next ==
    \E r \in Run :
      \/ \E a \in Attempt \cup {NoAttempt} : Prepare(r, a)
      \/ Confirm(r)
      \/ Advance(r)
      \/ Interrupt(r) \/ Crash(r) \/ OperationEnds(r)

Spec == Init /\ [][Next]_vars

\* A process runs until it ends: it never waits for a lock (lease and index
\* lock refuse), and SQLcl sessions and database calls have time limits.
Fairness == \A r \in Run : WF_vars(Advance(r)) /\ WF_vars(OperationEnds(r))

FairSpec == Spec /\ Fairness

-----------------------------------------------------------------------------
(* Invariants *)

TypeOK ==
    /\ pc \in [Run -> PC]
    /\ at \in [Run -> Step] /\ \A r \in Run : at[r] \in Steps(r)
    /\ recovers \in [Run -> Attempt \cup {NoAttempt}]
    /\ bound \in [Run -> Uncertain \cup {"none"}]
    /\ outcome \in [Run -> {"not-started", "verified", "failed", "unknown"}]
    /\ db \in [Run -> {"not-started", "verified", "unknown"}]
    /\ attempt \in [Attempt -> Uncertain \cup {"none", "not-started", "verified"}]
    /\ recoveredBy \in [Attempt -> Attempt \cup {NoAttempt}]
    /\ verification \subseteq Attempt
    /\ recoveryLink \subseteq Attempt \X Attempt
    /\ roll \in [Run -> {"none", "running", "verified", "failed", "unknown"}]
    /\ receipt \subseteq Capsule \X Environment \X Step
    /\ proof \subseteq Run
    /\ orphaned \in BOOLEAN
    /\ lease \in [Scope -> Run \cup {NoRun}]
    /\ live \subseteq Run

\* Two database operations, of processes alive or dead, never write the
\* same target scope at the same time.
NoOverlappingWriters ==
    \A q, r \in live : q # r => Here(q) # Here(r)

\* While an operation executes, the index shows its write as uncertain:
\* a checkpoint through its attempt, an auxiliary step through its run.
LiveWriteIsOnRecord ==
    \A r \in live :
      IF HereKind(r) = "feature-migrate"
      THEN attempt[Mine(r)] \in Uncertain
      ELSE roll[r] \in {"running", "unknown"}

\* No sequence of updates reaches an index that _validate_index refuses:
\* the tool would then refuse every later command.
IndexValid ==
    /\ \A b \in Attempt : LET old == RecoveryOf(b[1], b[2]) IN
         attempt[b] # "none" /\ old # NoAttempt =>
           /\ attempt[old] \in Uncertain
           /\ EnvOf[old[1]] = EnvOf[b[1]] /\ CapsuleOf[old[1]] = CapsuleOf[b[1]]
    /\ \A a \in Attempt : recoveredBy[a] # NoAttempt =>
         LET b == recoveredBy[a] IN
           attempt[a] \in Uncertain /\ attempt[b] = "verified" /\ RecoveryOf(b[1], b[2]) = a
    /\ \A v \in verification : roll[v[1]] # "none" /\ attempt[v] \in {"none", "verified"}
    /\ \A l \in recoveryLink :
         /\ attempt[l[1]] \in Uncertain
         /\ l[2] \in verification /\ RecoveryOf(l[2][1], l[2][2]) = l[1]
         /\ \A k \in recoveryLink : k[1] = l[1] => k = l
    /\ \A v \in verification : RecoveryOf(v[1], v[2]) # NoAttempt =>
         <<RecoveryOf(v[1], v[2]), v>> \in recoveryLink
    /\ \A r \in Run : roll[r] = "verified" =>
         \A i \in Steps(r) : KindAt(r, i) = "feature-migrate" => <<r, i>> \in verification

\* A completion proof, and a run recorded as verified, stand for a receipt
\* of every step and a settled write at every checkpoint.
ProofIsBacked ==
    \A r \in Run : r \in proof \/ roll[r] = "verified" =>
      \A i \in Steps(r) :
        /\ <<CapsuleOf[r], EnvOf[r], i>> \in receipt
        /\ attempt[<<r, i>>] \in {"none", "verified"}
        /\ KindAt(r, i) = "feature-migrate" => <<r, i>> \in verification

\* Production starts only when some staging run of the same capsule has
\* verified every checkpoint.
PromotionBacked ==
    \A r \in Run : EnvOf[r] = "prod" /\ roll[r] # "none" =>
      \E q \in Run :
        /\ EnvOf[q] = "staging" /\ CapsuleOf[q] = CapsuleOf[r]
        /\ \A i \in Steps(q) : KindAt(q, i) = "feature-migrate" => <<q, i>> \in verification

-----------------------------------------------------------------------------
(* Action properties *)

\* The outcome of the write is not known and no recovery has verified it.
Unsettled(a) ==
    attempt[a] \in {"attempting", "unknown"} /\ \A v \in verification : <<a, v>> \notin recoveryLink

\* An operation begins on a scope only when every unsettled attempt there
\* is its own or the one it was prepared to recover.
UncertainTargetIsFrozen ==
    [][\A r \in live' \ live : \A a \in Attempt :
         ScopeAt(a[1], a[2]) = Here(r) /\ Unsettled(a)
         => a \in {Mine(r), RecoveryOf(r, at[r])}]_vars

\* A rollout starts only when no operation executes on any of its targets.
StartsOnQuietTargets ==
    [][\A r \in Run : roll[r] = "none" /\ roll'[r] = "running" =>
         \A q \in live : Here(q) \notin TargetScopes(r)]_vars

\* An unsettled attempt is settled only by its own run while that run holds
\* the lease of the scope, or by the recovery that names it, which holds
\* the lease too.
SettledUnderLease ==
    [][\A a \in Attempt : Unsettled(a) /\ ~(Unsettled(a))' =>
         LET holder == lease[ScopeAt(a[1], a[2])] IN
           /\ holder # NoRun
           /\ holder = a[1] \/ recovers[holder] = a]_vars

-----------------------------------------------------------------------------
(* Liveness *)

\* A confirmed rollout ends, whatever locks the others hold or left behind.
EveryRunEnds ==
    \A r \in Run : pc[r] = "confirmed" ~> pc[r] \in {"ended", "crashed"}

-----------------------------------------------------------------------------
(* What the documentation says and the code does not do *)

\* docs/migration-rules.md: before execution the rollout refuses a step
\* whose receipt exists.  So no script runs again after its receipt.
ReceiptedScriptIsNotRepeated ==
    [][\A r \in live' \ live :
         HereKind(r) = "sql-script" => StepReceipt(r) \notin receipt]_vars

Quiet == \A r \in Run : pc[r] \in {"idle", "ended", "crashed"}

\* docs/feature-releases.md: recovery accepts a rollout killed mid-step as
\* parent, provided every earlier writing step has a verified outcome; here
\* there is no earlier writing step.
KilledRunIsRecoverable ==
    \A r, q \in Run : \A i \in Step :
      /\ Quiet /\ pc[r] = "idle" /\ pc[q] = "crashed" /\ q \notin live
      /\ CapsuleOf[q] = CapsuleOf[r] /\ EnvOf[q] = EnvOf[r]
      /\ Unresolved(<<q, i>>)
      /\ \A j \in Step : j < i => KindAt(q, j) \notin WriteKind
      => /\ RecoveryPlanValid(r, <<q, i>>, attempt[<<q, i>>])
         /\ RecoveryRestartable(r, <<q, i>>)

\* _rollout_retired: a run no longer occupies its target once an
\* acknowledged recovery has reconciled it; whoever asks.
ReconciledRunReleasesTarget ==
    \A q, r \in Run : Reconciled(q, CapsuleOf[q]) => Reconciled(q, CapsuleOf[r])

\* docs/feature-releases.md: recovery restarts the frozen step order from
\* the beginning.  So a checkpoint after the recovered one, allowed by the
\* index, is not refused by the plan of the recovery itself.
RecoveryGoesOn ==
    \A r \in Run :
      /\ pc[r] = "leased" /\ HereKind(r) = "feature-migrate"
      /\ recovers[r] # NoAttempt /\ <<r, recovers[r][2]>> \in verification
      /\ CheckpointAllowed(r, NoAttempt)
      => RecoveryPlanValid(r, recovers[r], bound[r])

=============================================================================
