# Formal model of the APEX team template

This directory holds a TLA+ model of the tooling in `scripts/` (file names
below are relative to that directory: `rollout.py` is `scripts/rollout.py`), the
TLC configurations that check it on small instances, and TLAPS proofs of its
main safety properties.

The tooling writes to Oracle databases that it does not own. DDL commits at
once and cannot be repeated, an SQLcl session can outlive the command that
started it, several developers and terminals work in one checkout and on one
schema, and any command can be interrupted or killed. What the code keeps on
disk between two commands, and what it looks at before it writes, decide whether
the next write is safe. That is what is modelled.

Contents: 1 the system, 2 the modules, 3 the runs, 4 abstractions, 5 what is
proved, 6 findings and observations, 7 not modelled, 8 plan, 9 running.

## 1. The system

| Component | State it keeps | Operations | What must be right | Module |
|---|---|---|---|---|
| Feature rollout (`rollout.py`, `feature_release.py`) | plan, report, step receipts | prepare, confirm, run the steps in order, install receipts, publish the completion proof, finish | no two writers on a target; no promotion without proof; every run ends | `FeatureRollout` |
| Release state (`release_state.py`) | `releases/.local-state.json`: attempts, verifications, recovery links, rollouts, cleanups | `start_rollout`, `record_attempt`, `record_checkpoint_verification`, `finish_attempt`, `finish_rollout`, `cleanup_capsule` | an uncertain write stays visible until it is settled; the index is always readable; updates are atomic | `FeatureRollout`, `LocalStateIndex`, `CapsuleStore` |
| Target writer lease (`release_ownership.py`) | one `flock` per physical target | acquire, release | one writing process per target, freed when it dies | `FeatureRollout` |
| Release capsule (`release_capsule.py`) | directories under `scratch/release-capsules` | freeze, load, clean | the executed bytes are those of the commit; what somebody needs is not removed | `CapsuleStore` |
| Legacy rollout (`rollout.py`) | plan, receipts of the steps | run, resume from receipts | a receipt stands for a step that ran; nothing runs before its predecessors | `LegacyRollout` |
| Migration apply (`migrate.py`, `migration_attempts.py`) | attempt events and receipts in the folders, run directories under `scratch/` | apply a batch, classify the outcome, verify | SQL that may have run is never taken for SQL that did not | `MigrationApply` |
| Migration folders (`new_migration.py`, `migration_revision.py`, `migration_archive.py`, `migration_plan.py`) | the tree of folders, archive indexes | new, revise, archive, load | evidence is not lost; the tree and its indexes agree | `MigrationFolders` |
| Rehearsal (`migration_rehearsal.py`) | scratch only | rehearse in one session, roll back, prove it | nothing is committed; "rehearsed" is true | `MigrationRehearsal` |
| Migration preflight (`migration_checks.py`, `schema_catalog.py`) | captured catalog | capture until it stands still, run the checks, lay the effects over each other | a passed batch runs; a conflict is one | `MigrationPreflight` |
| Feature preflight (`feature_preflight.py`) | the plan of every checkpoint in the capsule | plan, capture again, compare, execute | what begins is as planned, and finishes | `CheckpointPreflight` |
| Application lock and publishing (`application_lock.py`, `publish_app.sh`, `partial_publish.py`) | native lock in the database, `recovery.json`, version stamp, baselines | acquire, assert, import, verify, release, clean up | imports exclude each other; nobody's work is replaced unseen; what is left behind is on record | `ApplicationPublish` |
| Mirrors (`replace_mirror.sh`, `replace_mirror.ps1`) | directories, lock files, backups | lock, check, move aside, move in, unwind | the mirror is the old or the new one and never lost | `MirrorReplace` |
| SQLcl session (`sqlcl_session.py`, `windows_job.py`) | a process tree and a pipe | start, read, limit, stop, conclude | nothing runs on unseen; the answer is whole; the call returns | `SqlclSession` |
| DEV test runtime and cleanup (`dev_test*.py`) | events, inventory, report; objects in a shared schema | run, capture, clean up | exactly the own objects are removed; the report is true | `DevTest` |
| Baseline, structure and data (`baseline.py`) | generated folders, exports of rows | build, apply, export | the target gets what the source has, and keeps its own | `BaselineStructure`, `BaselineData` |
| Template upgrade (`upgrade_template.py`) | the managed files, the lock file | compare, exchange, roll back | saves survive; the lock file is true | `TemplateUpgrade` |
| Readiness of an environment (`compare_schema.py`) | what it read of each side, the script of additions | capture a side in one or two sessions, merge, compare, write the script | exit 0 is true; the script adds what is missing, all of it and nothing else | `EnvironmentReadiness` |
| The rest | - | - | - | section 7 |

**How they interact.** A developer runs `rollout --prepare`, reviews the plan, and
runs it: the process adds its row to the index (`start_rollout`), then goes
through the frozen steps. A feature checkpoint takes the lease of its target,
records an attempt in the index, starts SQLcl, verifies the target, records
verification and attempt, and releases the lease. A script or ORDS step asks the
index whether it may run while it holds the lease. Deployments and verify steps
hold no lease. Each step ends with a receipt that is never replaced. A completed
staging run publishes a report with a completion proof, and a production run
reads it. After a crash a *recovery* is prepared: a second run of the same capsule
that names the uncertain attempt and settles it by verifying its own checkpoint.
`feature freeze` and `clean-capsule` meet the rollouts in the index and its lock.

`migrate` is a separate path for migration folders: it has no lease and no index,
its only shared state is what it links into the folders and what it leaves under
`scratch/`. `new-migration`, `revise`, `archive-migrations` and `baseline build`
work on the same folders without any lock. Preflight and rehearsal look at the
database before. Publishing has the database's application lock instead of a
lease. Exports replace mirrors of the working tree, an upgrade replaces the
scripts themselves. Everything reaches a database through one call, `run_sqlcl`.

**Hard behaviours.** Processes interleave at every update of the index and between
them; every update can be refused because another process is inside the index
lock; a kill can come anywhere, also inside a lock and between two moves; the
database operation goes on after its process; outcomes may be unknown; recoveries
may fail and be recovered; evidence that Git does not track can be deleted;
developers save, commit, drop and recreate while a command works. `PROJECT.json`
lists these as hazards, at their lines, with the properties that cover them.

## 2. The modules

Every component has one module, with a process or a command as a member of a
constant set (or a single one where the code has only one), its program counter
as a variable, and one action per step of the code.

### FeatureRollout (MCFeatureRollout)

The life of several rollouts of one checkout. A member of `Run` is one prepare
command together with the process that executes its plan.

| Model | Code |
|---|---|
| `pc`, `at`, `outcome`, `db` | position and report of `_run_capsule_rollout` |
| `recovers`, `bound` | the recovery plan bound to an attempt by `prepare_target` |
| `attempt`, `recoveredBy`, `verification`, `recoveryLink`, `roll` | the tables of the index |
| `receipt`, `proof` | step receipts, reports with a completion proof |
| `orphaned` | a killed process left `.local-state.lock` behind |
| `lease`, `live` | the flocks; the operations that execute in the databases |
| `Prepare`, `Confirm`, `StartRollout` | `prepare_target`, the checks before confirmation, `start_rollout` |
| `AcquireLease`, `RecordAttempt`, `StartSession`, `SessionSucceeds`, `SessionFails`, `SessionRefused`, `ChecksFail`, `RecordVerification`, `FinishAttempt`, ... | `execute_checkpoint` and what it calls |
| `AllowAuxiliary`, `OtherStep`, `InstallReceipt` | script, deployment and verify steps |
| `PublishProof`, `Finish*` | `finish_local_run` and `finish_rollout` |
| `Interrupt`, `Crash`, `OperationEnds` | Ctrl-C, kill -9, the end of a session nobody waits for |
| `Unresolved`, `Reconciled`, `Retired`, `StartAllowed`, `OwnsScope`, `CheckpointAllowed`, `StageProven`, `RecoveryPlanValid`, `RecoveryRestartable` | the predicates of the same purpose in `release_state.py` and `rollout.py` |

An index update is one step here. `LocalStateIndex` is the reason this is
allowed. A refusal by the index lock is an alternative of every updating step
(`Busy`). An update made inside another's lock is refused and never waits.

### LocalStateIndex and AtomicIndex

The update protocol of one JSON file: `O_EXCL` lock file with a token, load,
update, retention of the schema-1 original at the first migration, temporary
file, `os.replace`, unlock; each step may fail, and a kill may come between any
two. `AtomicIndex` is its abstract specification: an update happens at one
instant or not at all, a success was applied, a refusal was not, nothing is
lost. The refinement (`IsAtomic`) maps the index to the index and the process
positions to what their callers have been told. A failure may be reported after
the commit (unlocking or chmod failed), which the abstract `Answer` allows
because the code does it.

### CapsuleStore (MCCapsuleStore)

Freezes, rollouts and cleanups of one store. A capsule's name is its payload
(sources and engine) and its commit. `Builder` reads the inputs, compares them
with the commit, reads them again and installs by an exclusive rename; `Runner`
loads, records its row and finishes; `Cleaner` records "removing", removes plan by
plan and the tree, and records the end. The cleanup holds the index lock over
several writes, hence its steps are actions.

### LegacyRollout (MCEnvironment)

`_run_legacy_rollout` twice side by side: the snapshot of the inputs,
confirmation, resumption behind receipts, the session of every step (which can
commit and still fail), the receipt, which nobody replaces. `Edit` changes an
input, `Switch` points the connection elsewhere.

### MigrationApply (MCMigrationApply) and MigrationFolders (MCWorkingTree)

`MigrationApply`: several `migrate` commands with their batches: preparation, lock
inspection, pending event, the write-attempted record, the SQLcl session, the
classification of its output, no-write event, receipt, verified event. `LockedBy`,
`Locked`, `Unclear` are `inspect_migration_lock` for one environment.
`SessionMoves` lets the session go on after its command; `DropScratch` deletes the
run directory of a command that is over; `RemoveManifest` and `EndRemoval` are
`safe_rmtree`, which ignores errors and can be cut off.

`MigrationFolders`: the commands that move and make folders. A folder is its
files, events and receipts, `visible` in its place and `archived`; `index` are the
archive indexes. `Author` is `new-migration` or `revise`, `Archiver` is
`archive-migrations` with its recovery, `Applier` the steps of `migrate` that touch
the folder. `Loads`, `TreeValid`, `FamilyValid` are the validations every command
begins with. A folder is half written until its README, the last file of
`new-migration`, is there. When `new-migration` removes its folder after a failure
and a `migrate` has loaded it before (`Taken`), the folder joins `withdrawn`.

### MigrationRehearsal (MCEnvironment), MigrationPreflight, CheckpointPreflight (MCCaptures)

`MigrationRehearsal` goes from the review of the files to the exit code. `Driver`
is the driver the code renders, a sequence of what the session will print;
`Conclude` judges only by the output. Teammates commit, sessions break.

`MigrationPreflight` and `CheckpointPreflight` hold small models of a schema:
what an operation needs (`Works`), what it leaves (`Effect`), and beside it what
the code examines (`Examine*`), which is another thing: the properties compare
the two. The first is the selection of migration folders against a catalog that
is captured in two sessions; the second the checkpoints of a capsule, with
`StripPriorEffects` before the comparison and statements that commit one by one.

### ApplicationPublish (MCApplicationPublish)

Publishes from several checkouts. The database `lock`, sessions that outlive
their command (`sess`), records (`rec`), version tags, the `live` pages and each
checkout's baseline (`marker`) are variables; one command goes through begin, acquire, drift guard,
stamp, snapshot, import, verification by two exports, release, or through the
exit trap (`Cleanup*`). `BuilderSave`, `Export`, `CheckoutOlder` and `ManualUnlock`
are people.

### MirrorReplace (MCMirrorReplace, MCWorkingTree)

The lock files of both shells and how they judge each other's (`JudgeHolder`,
`LiveKin`, `BreakLock`), the recheck, the moves in their order, unwinding, signals
and kills. `Impl` says which shell a command runs in. The PowerShell command gives
its locks back in `finally`, before it discards the backups (`LeaveTry`); the other
keeps them until its exit trap (`Disarm` and the release that follows). `Working` is
the part of a command that moves mirrors or moves them back.

### TemplateUpgrade (MCWorkingTree)

Plan, staging, `MoveAside`/`Compare`/`Install` for every file, the lock file among
them, `Sync`, and the rollback from the last mark, with a developer who saves
and commits, two signals, and kills. The operations of a plan are a set; `Precedes`
is their order in the code: deletions, then creations and replacements, by path.

### DevTest (MCCaptures)

A run and its cleanups. `events` (intents too), `inventory` and `report` are the
files, `db` the objects with identity and definition, `pending` the statements a
session given up may still execute. The builtin suite records after every step, a
project suite once. `suite` says whose the scenarios are, which of them have a
cleanup contract (without one nothing is created ahead or inventoried, and no cleanup
can be asked for) and which steps expect an Oracle error: such a step passes when the
database refuses it and fails when it does not.

### BaselineStructure (MCCaptures), BaselineData (MCEnvironment)

Structure: `Plan` computes from source and target the steps of a folder, `Install`
makes it the next revision, the run applies it statement by statement while rows,
constraints and indexes change. Data: exporters with lock, incomplete marker,
file by file replacement; the build that reads them; the folder that is applied
in one transaction.

### EnvironmentReadiness (MCEnvironment)

`compare-env`. A database is a set of rows of the compared sections. Each side is
read in the session of its environment (`BaseCapture`) and in that of its DBA alias
(`DbaCapture`), whose connection may lead to another database (`Merge`). Both read
page by page: rows that the ORDER BY of a section does not tell apart may be `Shown`
twice or not at all. `SectionBlocked`, `Blocked` and `ExitCode` are the comparison,
`Statements` the script, which a DBA runs later (`RunStatement`, `After`); `Change` is
everybody else, between any two sessions.

### SqlclSession

One call: the bridge and its SQLcl child, the pipe, the reader thread, the
limits, cancellation, signals and the order in which the loop looks at them.

### Modules that hold several

`WorkingTree` holds instances of `MirrorReplace`, `MigrationFolders` and
`TemplateUpgrade`, named `M`, `F` and `U`; `Environment` of `BaselineData`,
`LegacyRollout`, `MigrationRehearsal` and `EnvironmentReadiness`, named `Data`,
`Legacy`, `Rehearsal` and `Readiness`; `MCCaptures` of `MigrationPreflight`,
`CheckpointPreflight`, `BaselineStructure` and `DevTest`. The variable `part` says which module a
behaviour is one of, the variables of the others are `Off`, and the constant
`Parts` says which are explored. A property is stated for its part and true
elsewhere. Nothing is composed by this: it is several independent checks in
one run, and one place for their proofs. What the constants of a part must be is
its operator `ConstantsFit`, assumed by the module that holds it.

### Modules for TLC

`MCFeatureRollout`, `MCMigrationApply`, `MCApplicationPublish`, `MCCapsuleStore`,
`MCMirrorReplace`, `MCWorkingTree` and `MCEnvironment` extend their module and
define values for its constants; `MCCaptures` gives them in its instances.

### Proof modules

`FeatureRolloutProofs`, `LocalStateIndexProofs`, `MigrationApplyProofs`,
`ApplicationPublishProofs`, `SqlclSessionProofs`, `CapsuleStoreProofs`,
`WorkingTreeProofs`, `EnvironmentProofs` (section 5).

## 3. The runs

| Run | Instance | Distinct states |
|---|---|---|
| `mixed` | 3 rollouts, 2 capsules (script + checkpoint on s1; checkpoints on s1 and s2) | 433,116 |
| `promotion` | 2 staging rollouts and a production one; checkpoint + deployment | 400,266 |
| `termination` | 2 rollouts, script + checkpoint, fair | 3,638 |
| `local_index` | 3 processes, fair | 23,040 |
| `migration_apply` | batches <<f1,f2>> and <<f1>> on dev, <<f1>> on staging | 1,094,016 |
| `working_tree` | mirrors: 2 commands (sh, ps1), a schema mirror and the ords mirror inside it; folders: 2 families in 2 schema directories, 2 revisions, a pair of author, archiver and applier; upgrade: 2 versions, one managed file and the lock file | 2,322,537 |
| `captures` | preflight: every pair of operations over 2 names on 50 schemas; checkpoints: every 2-statement capsule in 1 or 2 checkpoints, and triples on 6 schemas, 2 changes; structure: 2 tables, 3 columns, keys, check, 2 indexes, 1 sequence, 2 folders; DEV test: 2 scenarios, 3 objects, 2 cleanups, of a builtin suite, of project suites with a contract, and of project suites without one and with an expected error; symmetric | 2,528,118 |
| `environment` | data: 2 exporters, 1 build, 1 apply; legacy: 2 runs of 2 steps, 1 edit, 1 switch; rehearsal: at most 2 folders of 2 files, 1 commit of a teammate; readiness: 2 databases, 5 contents, 11 commands, 1 change | 2,517,597 |
| `publish` | a whole publish and a partial one from 2 checkouts and accounts, 2 pages | 1,598,058 |
| `capsule` | 2 commits of one source, 2 engines, 2 freezes, rollouts and cleanups, 1 change; symmetric | 964,634 |
| `session` | 2 lines of output, limit 1 or none, both platforms, fair | 99,220 |
| `script_repeated` | the finding of section 6 | - |

`CHECK_DEADLOCK FALSE` in every configuration: all commands end, and then
nothing needs to happen.

The properties:

- `mixed`. `NoOverlappingWriters`: two operations, of living or dead processes,
  never execute on one target. It needs the index, the lease and the rule that a
  recovery is prepared after the operation ended, all three.
  `IndexValid`: no sequence of updates reaches an index that `_validate_index`
  refuses, which would stop every later command. `ProofIsBacked`: a proof stands
  for receipts and verified checkpoints. `UncertainTargetIsFrozen`: nobody writes
  where a doubt is unsettled except the recovery of that doubt.
- `promotion`. `PromotionBacked`: production starts only behind a staging run that
  verified every checkpoint.
- `termination`, `local_index`, `session`. `EveryRunEnds`, `LockIsReleased`,
  `EveryCallReturns`: liveness. `OriginalIsKept`: the schema-1 original is kept
  whole before it is replaced. `IsAtomic`: the refinement.
- `migration_apply`. `UnlockedIsUntouched`: a folder that inspection calls free was
  not sent to that environment by anybody and will not be. `OneIsVerified`: side by
  side commands are possible (no lock), but one alone is verified, with its receipt
  and committed SQL. `ReportIsTrue`: "no writes were attempted" and "retry is
  permitted" are true of the database and the evidence.
- `working_tree`. `MirrorIsKept`: a mirror is in place or in a backup, and as it was
  if the replacement was unwound. `OnlyLateEditsAreLost`: an edit is discarded only
  if it came after the recheck. `OverlappingMovesExclude`: commands on overlapping
  mirrors do not move them, or move them back, at the same time, unless a running
  command's lock was judged stale. (Backups are discarded outside this: by then the
  PowerShell command has given its locks back.) `TreeIsConsistent`: archives and indexes agree, no half-written folder is
  taken for a finished one. `EvidenceStays`: what a database may have run is on
  record, wherever the folder went, except for a folder its author withdrew.
  `SavesAreKept`, `LockIsTrue`: an upgrade keeps
  what a developer saved, and its lock file says what is installed.
- `captures`. `VerdictIsRight`: a preflight that passed
  runs on a quiet schema, and a conflict is one. `PlanHolds`: a checkpoint begins on
  the schema it was planned for, and what begins finishes. `TargetConverges`: a run
  of a generated folder whose preconditions held gets to its end, the target then
  has what the source has, sequences are ahead of the ids. `ReportIsHonest`: exit
  code, PASSED and COMPLETE of a DEV test are true; PASSED means that every step had
  the outcome it expects, and that there is an inventory wherever a cleanup can be
  asked for. `OnlyOwnIsDropped`: a cleanup
  drops what the run made, unchanged.
- `environment`. `TakesOneExport`: a build reads one whole export, never older than
  the last begun. `RefersByLabel`: inserted rows refer to the parent that carries
  the label. `ProgressIsTrue` (legacy rollout): receipts are true, predecessors ran,
  one owner. `RehearsedIsProven`, `LeavesNoTrace`: exit 0 of a rehearsal is true, and
  whatever breaks nothing is committed. `ReadyIsSeen`: exit 0 of a comparison means that
  the two environments, when they were read, held the same in every selected section,
  nothing invalid, and are two databases. `ScriptIsRight`: a statement of the script
  is for a row that the source had and the target lacked (`NothingInvented`), and after
  the script, while nobody else changed anything, nothing that a script can add is
  missing (`ScriptCloses`).
- `publish`. `ImportsExclude`: two accounts are never in their imports together.
  `NoSilentOverwrite`: an unforced publish replaces another's work that its checkout
  never exported, verified or not, in three cases only: a version tag was repeated, an
  account raced with itself for the lock, or the work is half a partial publish, whose
  session ended between its pages and its tag. `LeftoversAreOnRecord`: a lock or an
  unverified import left behind is on record. `PublishedIsLive`: a publish is called
  verified only if its pages are live.
- `capsule`. `CapsulesAreSound`: a running rollout has its capsule whole, a torn
  capsule is on record, the bytes are the commit's. `RemovalIsProven`: a capsule
  is taken apart only when its production run is verified and nobody needs it.
- `session`. `AnswerIsWhole`: a success is complete, and a call cut off hands over
  what SQLcl had written. `TreeIsGone`: no process of the tree runs on.

Several properties have an exception in them (`reentered`, `raced`, `torn`,
`withdrawn`, `repeated`, `HalfImported`, `skewed`, `excused`, `tampered`, `alone`, `quiet`). Each is a history
variable or a condition that names a window the code really leaves open; the
comment of the property says which. Section 6 lists the windows.

### Bounds, and why they are enough

`FeatureRollout`: at most two steps, each performed once. Two steps of different
kinds on one target, or of one kind on two targets, produce every guard of the
code: "earlier step", "other step of the same target", "other target". Three runs
are a crashed run, its recovery and a third that acts beside or after it. Crashes,
interrupts, busy locks and failures are not bounded. Three migrate commands are
two that race and one of another environment; two folders give a batch a boundary.

In the other modules two commands of each kind are one that acts and one that
finds what it did, or what it left when it was killed; every pair of kinds meets.
What people do is bounded by `MaxChanges` (one, two for the checkpoints): one change in
the wrong window is what the checks have to see. Failing moves are bounded by
`MaxFaults` = 2, a failure and another while it is being undone. In
`ApplicationPublish`, `MaxClock` bounds the saves of pages. The preflights
enumerate every small schema and every pair of operations, the order in
which two statements depend on each other being what they decide; three
statements are needed for a name used a third time. `SqlclSession` writes two
lines with a limit of one: below, at and above the limit. `DevTest` has one object
per step, a scenario of two steps and a dependent one of one step, and two
cleanups: the second is beside the first or its retry.

### Fairness

`WF(Advance(r))` for each rollout: it never waits for another. The lease is taken
with `LOCK_NB`, the index lock with `O_EXCL` (both refuse), and SQLcl runs under a
time limit. `WF(OperationEnds(r))`: a database call ends. Confirming, preparing,
interrupting and crashing are not fair. In `LocalStateIndex` a process is fair
once its update began; reconciling a dead lock is not fair, so `LockIsReleased`
excludes dead and stranded holders. In `SqlclSession` time passes (`Deadline`) and
the caller's own steps are fair; nothing is assumed of SQLcl and the bridge, which
may hang, write nothing, or never exit.

## 4. Abstractions

Of `FeatureRollout`, `LocalStateIndex`, `MigrationApply`:

- A run is one prepare and its execution; two executions of one plan and the
  matching of attempts to runs by plan digest and time are not modelled.
- Database contents show as a step that is refused (`StepRefused`); their preflight
  is `CheckpointPreflight`. A checkpoint found already applied is `SkipWrite`.
- A receipt that cannot be read back when a run ends is that of its last step
  (`NotProved` records it as unknown); those of the earlier steps are read.
- A step list and its targets are constants. Receipts are keyed by capsule (the
  code: the digest of its manifest). `"sql-script"` stands for ORDS imports too.
- `Busy` may refuse an update whenever another process is at a place that updates
  the index, or a dead one left the lock: more often than the code, never less.
  `FinishLost` likewise covers the repeated attempt to finish.
- Index I/O errors are in `LocalStateIndex`; `FeatureRollout` has the busy and the
  orphaned lock only. Power loss (durability of a rename) is not modelled.
- A recovery's acknowledgement by the operator is taken at its word: the old
  database operation has ended. `NoOverlappingWriters` depends on it.
- `MigrationApply`: one command per process and one schema per folder; files are not
  tampered with. The session is over-approximated: it is refused, or runs and
  commits or breaks. The locking states of a record are one value.

Of the others:

- Contents are versions: of a source, of a page, of a file, of a folder, of an object
  (identity and definition). Hashes are equality. Digests, formats, parsing and
  rendering are left out, except that `MigrationRehearsal` and `SqlclSession` keep
  the lines that the verdict is read from.
- A schema has two names of the common namespace and one index name; a statement has
  a kind, a name, columns and the name it depends on. Dependencies are what the
  analyser extracts; how it reads SQL text is not modelled.
- `MigrationRehearsal`: one number stands for the data; each file adds one to it.
- `ApplicationPublish`: one application; staging and production publishes (which take
  no lock), the renames of `swap_if_unchanged` and the restore of a mirror are not
  modelled. `StepFails` is any failure of any step.
- `MirrorReplace`: a directory is one value; a move into an existing directory makes
  a mix, as `mv` does. Process identities are not reused. Both shells unwind pair by
  pair here, from the last; the catch of `replace_mirror.ps1` takes back all that was
  moved in before it moves anything back, which comes to the same for pairs that do
  not overlap.
- `MigrationFolders`: one folder per `migrate`. A file system step is atomic.
- `CapsuleStore`: what a rollout does between start and end is `FeatureRollout`.
- `LegacyRollout`: a migration step is one outcome with a commit or without.
- `DevTest`: the compiler-settings and migration builtins are left out.
- `BaselineData`: two tables; export and build run in one checkout. The build decides
  which labels get a refusing precondition (`LabelConflicts`); what it refuses is
  looked at in the target when the folder is applied.
- `EnvironmentReadiness`: "tables" stands for every section that is only compared and
  "roles" for system privileges too. The `order` of a row is its place in the ORDER BY;
  a page is seen as rows exchanged with their peers. `truth` is a history variable: what
  the database held, in scope, when the section was read. A session is one step.

## 5. What is proved

All for any number of runs, capsules, steps, targets, processes, folders, batches,
files, rows, lines, commands, pages and versions. The assumptions say what the
constants are:

| Assumption | What it says |
|---|---|
| `ConstantsAssumption` (`FeatureRollout`, `ApplicationPublish`) | the domains of the constants; there is an author |
| `NoProcessAssumption`, `ExporterAssumption`, `FreeIsNoCleaner` | the value for "nobody" is nobody |
| `CommitsHaveInputs` | every commit has sources |
| `BatchAssumption` | a batch names no folder twice, which `load_batch` checks |
| `LimitAssumption`, `ManifestAssumption` | an output limit and a number of steps are numbers |
| `SaveAssumption` | a save in the Builder is not a publish |
| `RowsAssumption` | sources and targets are finite tables of parents and children, with unique numbers as ids of parents (a primary key) |
| `MirrorAssumption` | the mirrors of one call are distinct and not inside each other, and only one level of mirrors is inside another (the ords mirror) |
| `FoldersAssumption` | there is a revision; no folder is "none"; a family has a schema directory |
| `ReadinessAssumption` | a command selects a section; databases hold finitely many rows; the columns of a key decide the place in the ORDER BY; only grants and roles are given with or without an option |
| `TemplateAssumption` | the lock file is no managed file, each managed file has its own candidate, and a developer's text is not that of a version |

**FeatureRolloutProofs**, the sessions (`TypeCorrect`, `NoOverlap`, `WriteOnRecord`,
`StartsQuiet`). The exclusion is not inductive. `IndInv` adds: the row of a run
follows its process; the lease belongs to the run inside it; an uncertain attempt
is the last step of its run; an executing operation shows in its attempt or its
row; a run is recovered only when its operation is over and its process has left
the steps; links say what plans say; active runs have disjoint targets; no other
operation executes on the targets of an active run. The argument: an operation
that may still execute belongs to a run nobody recovers, so this run is not
retired, so `start_rollout` refuses every overlapping run, and only active runs
begin operations.

The records (`IndexStaysValid`, `ProofBacked`, `PromotionsBacked`, `TargetFrozen`),
on top of `IndInv`. `RecInv` says of every run: `Course` (which records exist where
it is in its steps), `Backing` (a receipt follows the verification of its
checkpoint, a proof follows all receipts), `Frozen` (an attempt in doubt on its
target is its own or the one it recovers), and of pairs of runs: links fit the
plans, name a restartable run, are unique and are in both tables. The argument: a
run writes only records of the step it is at, and leaves them when it goes on;
nobody else writes them, except a recovery, which can exist only when the run has
left its steps; another run cannot open an attempt on the same target because the
lease is held.

**LocalStateIndexProofs** (`TypeCorrect`, `LockExcludes`, `OriginalKept`,
`Implements`). The invariant says what a process inside the lock holds in memory;
with it each step is a step of `AtomicIndex` or a stutter.

**MigrationApplyProofs** (`TypeCorrect`, `FreeFoldersUntouched`, `OneVerified`,
`ReportTrue`). `OwnInv(p)` is what command `p` knows of its own attempt: the pending
event stands while the attempt is open, what it concluded of the session is true
and stays true, sent SQL is on record, receipts follow commits, the report agrees
with the flag. A step of `p` keeps its own conclusions (one lemma for each), and
leaves those of the others (`OthersKept`), because it writes only its own entries
and a receipt is linked only where there is none. Run directories appear nowhere
in the invariant: the evidence in the folder is enough.

**CapsuleStoreProofs** (`TypeCorrect`, `CapsulesSound`, `CleanupsAreOrderly`,
`RemovalProven`). The argument goes through the index lock. `Started`:
a rollout at work has its row as running, under the name it loaded. `Removing`: what
made the targets of a cleanup at work eligible still holds, since it keeps the lock
over all its writes and rows change under the free lock only; no row is open for
them, hence a running rollout keeps its capsule. `TornIsAccounted`: a capsule that
is half there is a target of a cleanup at work or of a row that is not complete.
`CompleteIsComplete` and `OneCleanupOpen` are the reverse: a complete row has no
target left, and an open one refuses every other cleanup of its payload.
`RemovalIsProven` is an action property: `Removing` before the step is enough for it.

**ApplicationPublishProofs** (`TypeCorrect`, `ImportsAreExclusive`,
`LeftoversRecorded`, `NothingIsOverwritten`, `VerifiedLive`). `IndInv`: `Shape` (which
session belongs to which place), `Asserted` (an import that may write holds the
lock, or the holder is the same account), `Place` and `Recorded` (what the record
says at every place). An account unlocks only its own lock, and not while it sees
its own import run; the record is written before the session that may take the
lock and before the one that gives it back. `LiveInv` is about contents: `Since`
relates every state a checkout remembers to the application now (with the same
tag, a page is as it was seen or newer than the state), `Covered` says that
behind the drift guard and under the lock the pages about to be replaced are the
command's own to replace, `Shown` that what it has seen live under its lock stays
live. Both hold while no tag was repeated and no account raced with itself.
`wrote` is what an import has committed: nothing, its pages, or all of it. The pages
that a command wrote without its tag (`Unfinished`) are the one kind of new content
under an old tag, so `Since` excepts them and `Covered` says of what is about to be
replaced that it is seen, the account's own, or half imported (`Mine`); nobody else's
import can still be under way there, because the lock is held.

**SqlclSessionProofs** (`NothingRunsOn`, `AnswersAreWhole`). `PipeInv` (read, in the
pipe and written lines are one sequence), `CourseInv` and `TreeInv` (who is alive at
which place of the call), `StatusInv`, `LogInv`. For any length of output.

**WorkingTreeProofs**, mirrors (`MirrorsKept`, `EarlyEditsKept`, `OverlapExcluded`).
`OwnsLocks`: a command that moves has a lock file on every one of its mirrors and on
the schema mirror around it, so that two of them have disjoint mirrors, and a step
of one leaves the other's as they are. The locks
are needed as long as something moves (`Holding`); a PowerShell command discards its
backups without them. By then it needs nothing of them: `AbsentIsKept` says that a
mirror which is not in place has a copy that its command is not about to delete
(`InBackup`), and `CopiesAreOwn` that nobody deletes copies of mirrors it was not
called for. `Progress` goes through the pairs of a call:
those before the current one are `Replaced` (the old directory is the backup, the
new one in place), those after it `Untouched`; while unwinding, those after it are as
before. `NoOrphan`: nothing is in place inside a schema mirror that is not, so that
an ords mirror always has room to go back. `EditIsKnown` follows the edit. All but
the last hold only until a running command's lock was judged stale (`raced`), and
so do the properties.

Folders (`AttemptsOnRecord`, `OnlyWholeFolders`). `RecordInv`: an event is in the
folder that its command applies and SQL runs only with its event there
(`AttemptsAreOnRecord`), wherever an archive moves the folder; the removals of the
code are of folders that hold no event (or are `withdrawn`); the checks of a folder
come after all its steps (`ChecksComeLast`), hence nobody freezes, copies or
archives half a folder (`NothingHalfWritten`, the second part of `TreeIsConsistent`).

Archives and indexes (`TreeConsistent`), for one author and one archive at a time
(`OneOfAKind`; two archives lose index records, see 6). `RestInv` holds until something
is killed or left for inspection: `Numbered` (the revisions of a family, here and in
the archive, are 1 to n), `InOrder` (the archive is what the index names, and older
than the rest), while an archive runs `Sorted` (what it does not take is as it was, what
it takes lies in between), `Extent` (which of it is in the archive) and `Indexes` (which
index is the old one, which the planned one), for each place of the archive. It needs
the rest of the tree to keep still: `PlanIsLow` (a plan takes a low prefix),
`BaseStays` (the folder being revised stays) and `DraftAlone` (a folder that
`new-migration` may still remove is the only one of its family that an archive took).

Template (`SavesSurvive`, `LockNamesWhatIsThere`). `SavesInv`: the operations of a plan
are on different files and never decided on a developer's text (`PlanFits`); such a
text is in a backup only between its move and the comparison, or while it is being
undone (`SavesAside`). `LockInv` is about an upgrade that runs alone: `Forward` (each
file is that of the old lock file before its operation and that of the new one
after it), `Reversible` (what has been done can be taken back with the backup),
`Backward` (what has been taken back is as it was), `Agree` when nothing runs.

**EnvironmentProofs**, data (`OneExportTaken`, `InsertsReferByLabel`). `DataInv`: an
exporter past its lock is the last that marked the directory and there is no
manifest until it writes its own; a manifest is that of an export which had not
begun before the build that may still read it; a build has read the tables the
manifest lists. `RowsInv`: on a target that nobody else changes (`quiet`) every
label of the folder is found among the parents when the inserts begin; the id
of an inserted parent is one more than the greatest, so ids stay unique; a child
that was inserted refers to the parent with its label. Legacy rollout
(`ProgressRecorded`): `RunInv`, `SessionInv`, `AppliedInv`, `OwnedInv`: a run stands behind
receipts it matched or wrote, a session belongs to the step its run is at, an
applied step stays applied, and a receipt path is linked once. Rehearsal
(`NothingIsLeft`, `ExitIsProven`): no step of the session commits (`ProvenOff`); what is
printed answers the driver in its order (`AnswersInv`), the driver asks nothing twice
and ends with the final proof, so an output whose end was read and in which every
asked line is "true" answers all of it (`RehearsedInv`). What the driver is for any
batch is computed by `FlattenSeq` of the community modules; `FlattenIs` proves what
this fold gives, and `MaxExists` what the maximum of a finite set is, by an
induction over a set of numbers (`Induct`, from the well-foundedness of `<`).

Readiness (`ReadyIsProven`, `ScriptIsProven`). `CaptureOf`: a section
that is complete and without a key seen twice is exactly what the environment held
of it, in scope, when it was read. That is the heart of it (`SeenWhole`): the code counts keys, not rows, and without two equal keys the
exchange of rows on the pages is an injection of a finite set into itself, hence
onto, so nothing was missed. `CommandInv` ties script and verdict to the comparison
of such captures. `ClosingInv`, while nobody changes the databases: what was read
is what they hold now, and a row of the source that a script can add is either
still in the script or has its like in the target. Running one statement keeps
the others' because their keys differ.

**Only model-checked.** `VerdictIsRight`, `PlanHolds`, `TargetConverges`, `ReportIsHonest`, `OnlyOwnIsDropped` (the modules of
`MCCaptures`, whose schemas and statements are enumerated), and `SettledUnderLease`
(an uncertain attempt is settled only under the lease; `Recovery.cfg`). Proved and in
no run, because the proof says more: `LiveWriteIsOnRecord` (an executing operation
shows as uncertain in the index), `StartsOnQuietTargets` (nobody starts beside an
executing operation), the `TypeOK` of `FeatureRollout`,
`LocalStateIndex`, `MigrationApply`, `CapsuleStore` and `ApplicationPublish`, and
`LockNamesItsHolder`.

Out of the prover's reach: `EveryRunEnds`, `LockIsReleased`, `EveryCallReturns`
(liveness under fairness, and ENABLED); the library's induction theorems, whose
operator parameter no backend instantiates (`Induct` takes a set in its place, which
is enough for numbers and finite sequences); and recursive operators, of which the
modules have none.

## 6. Findings and observations

### The run that ends with a counterexample

`script_repeated`: a capsule rollout runs a script whose receipt exists and fails
afterwards, when it installs its own (`rollout.py`); the documentation says that
existing receipts are refused before execution.

### Configurations of further counterexamples

Each of these states a sentence of a doc, a comment or a test; TLC ends it with a
violation in seconds. They are kept beside the runs.

| Configuration (module) | Property | What happens |
|---|---|---|
| `RecoveryKilled` (`MCFeatureRollout`) | `KilledRunIsRecoverable` | a recovery killed in its checkpoint leaves two unresolved attempts, and neither can be recovered again (`release_state.py:1423`; `docs/feature-releases.md:192`) |
| `OtherCapsule` (`MCFeatureRollout`) | `ReconciledRunReleasesTarget` | a reconciled run is seen as reconciled by rollouts of its own step layout only |
| `SecondCheckpoint` (`MCFeatureRollout`) | `RecoveryGoesOn` | a recovery refuses its own second checkpoint, because the first one resolved the attempt it is bound to |
| `RetainedCopy` (`LocalStateIndex`) | `RetryIsPossible` | a kill while the schema-1 original is copied makes every later update fail, also after the lock is reconciled |
| `NotStarted` (`SqlclSession`) | `NotStartedIsTrue` | any `OSError` of the loop becomes "unable to start SQLcl" (`sqlcl_session.py:440`), which `migration_attempts.py:57` takes for a proof that no payload began |
| `OwnEffects` (`MCCaptures`) | `OwnEffectsAreAccepted` | a capsule is refused for what its own earlier checkpoints did: only the last provider of a name is stripped (`feature_release.py:1535-1540`; `feature_preflight.py:1065`) |
| `UpgradeInterrupted` (`MCWorkingTree`) | `InterruptedIsRestored` | Ctrl-C during the synchronisation after the exchange says "left as it was" and exits 130 with the new files in place (`upgrade_template.py:790`; `README.md:736`) |
| `BaselineAdditive` (`MCCaptures`) | `ChecksAreKept` | a check constraint is dropped, committed, and its replacement fails (`baseline.py:2042-2077`; `docs/baseline.md:238`) |
| `MirrorStale` (`MCMirrorReplace`) | `SameShellExcludes` | two contenders judge one lock stale, the second removes the fresh lock of the first (`replace_mirror.sh:255`; comment at 198) |

`Recovery.cfg` passes: three rollouts of a one-checkpoint capsule, recoveries of
recoveries, with `SettledUnderLease`.

### Observations

Behaviours the models contain and no property refuses; some are deliberate.

*Rollouts and the index.* An attempt proved not to have begun still leaves its run
with an unknown database state that nothing retires; a run killed after its
verified checkpoint, or in an auxiliary step, occupies its target for ever; a
collision on the index lock at both the verification and the end of an attempt
leaves it "attempting" beside a failed run; a report with a proof is readable
before the index says verified; a recovery is possible only when no writing step
precedes the recovered checkpoint.

*Capsules.* A change of the engine makes a verified capsule uncleanable; a killed
or unknown run blocks its cleanup for ever, and a cleanup killed while "removing"
blocks later ones; after a partial cleanup whose capsule is gone the plans stay.

*Legacy rollouts.* Two runs side by side execute a script twice (no lock; the
message admits that it does not serialize); steps of one connection can run in
different databases when the alias is repointed between them; the session of an
app deployment is not tied to the identities observed around it.

*migrate.* Interrupted right after its pending event it says that nothing was
attempted (true of the database) while the event keeps the folder locked; a run
directory without manifest, also that of a command that is just preparing, makes
every `migrate` of the checkout refuse.

*Migration folders.* Two concurrent archives lose index records. An archive killed
between its moves and its index leaves a gap that makes every command refuse.
`new-migration` beside an archive recreates an archived identity, killed after its
`mkdir` it leaves a blocking folder, and its `rmtree` after a failure can remove a
folder that a `migrate` loaded in between, with the record of its attempt. Archive
may move a folder with a dev receipt while a
prod apply is in flight: a commit without a receipt, as for an unrelated apply in
the middle of the moves. `revise` copies the preconditions of the old base, and
beside a partly failed rollback of an archive recreates an archived revision.

*Rehearsal.* After a lost session the fresh proof can say "true" while the
transaction is still open (the exit is 2 though); a proof "false" in the session
keeps no evidence directory; a session killed after it printed
`CHECK_REHEARSAL_FAILED` counts as a clean refusal.

*Preflights.* The migration preflight never compares the identity of the check
session with that of the captured catalog; a view over itself passes; the kind of
an existing dependency is not looked at; `IF NOT EXISTS` counts as a plain create;
an object dropped and recreated, or a column changed after it was read, is unseen.
In a checkpoint `CREATE TABLE N` with `ALTER TABLE N` is always refused before the write,
and preparing the same capsule again too; `CREATE OR REPLACE VIEW` with an index on
it passes and fails in the middle of the payload.

*Publishing.* An account that publishes twice at once takes its own lock again,
which neither the exclusion nor the drift guard nor the verification survives.
An older checkout makes the stamp repeat a tag (`stamp_publish_version.py:56`).
`apex import` commits the selected pages of a partial publish before
`partial_publish.sql` sets the version. When the session ends in between and the lock is
undone by hand, the live tag is still the old one: the drift guard, which compares tag
and date, passes, and the next unforced publish replaces those pages unseen.
`import_source` of `upgrade_apexlang.py:154`
passes 8 arguments to `publish_app.sql`, which needs 16. The renames of
`publish_app.sh:304-319` can overwrite a save between the comparison and the rename.

*Mirrors and upgrade.* Upgrades do not exclude each other. The lock file is replaced
before most files, so a kill leaves it claiming the new version for old ones; once
that is committed, the next upgrade keeps them as local for ever. The rollback's
look, unlink and restore can overwrite a save; a second Ctrl-C skips it and removes
the backups.

*DEV tests.* The retry of a cleanup after a killed or unfinished drop always collides
with the `O_EXCL` name of its input and stays INCOMPLETE. A builtin scenario whose
second step failed is never cleanable. A project scenario whose CREATE fails because
a developer took the name adopts and drops the developer's object. Concurrent
cleanups overwrite the report's history. One unknown scenario refuses all of it.

*Baseline.* Tables are created in name order with inline foreign keys and before
sequences, keys after those that refer to them: folders that fail midway. Nothing
checks that rows satisfy a new constraint. An object of the same name that appears
meanwhile passes. A sequence synchronisation killed between its two ALTERs leaves a
huge increment. An exporter killed while it writes leaves a temporary file that
makes every later export refuse, one killed before its marker leaves the old export
valid. A conflict of labels always generates a precondition that refuses; a new
parent and its new child cannot be generated together; a parent relabelled between
checks and insert gives a row without reference.

*Sessions.* A signal between `Popen` and the handlers, or outside the main thread,
leaves the tree running; Ctrl-C writes no log although the docstring says that
output is preserved for every attempt; on Windows SQLcl started before its job, or
without one, survives (`windows_job.py:187` says so).

## 7. Not modelled

- Feature sources, claims and manifests, read-only queries, directory installation
  (one exclusive rename, used as a step by three modules): functions of files and
  text without a protocol.
- Application lifecycle: one comparison and one driver, a step in `ApplicationPublish`.
- `compare-schema` (the other command of `compare_schema.py`): it compares the
  definitions of selected objects, writes a report and no database.
- Automation operations and the ORDS export: thin commands around one session.
- Chrome MCP daemon, Graphify extractors, team and loader scripts: no part in releases.
- Parts of modelled components: the status commands and summaries, `--plan`, the
  rendering of SQL, DDL text analysis, the live migration plan, publishes to
  staging and production, downloading of a release, the migration and
  compiler-settings builtins of DEV tests. `PROJECT.json` has them by component.

## 8. Plan

Done: the core (`FeatureRollout`, `LocalStateIndex`, `MigrationApply`) with proofs;
then the other writers of databases and of the working tree, the checks before a
write and the session below all; then the proofs about the capsule store, the
publishing, the working tree and the environments.

Left, in this order: proofs of those properties of `MCCaptures`
that are protocols (`OnlyOwnIsDropped`, `ReportIsHonest`), for which `DevTest`
needs a module with constants of its own; a refinement from `MirrorReplace` to
"replace all or none"; the composition of `MigrationApply` with the classification
that `SqlclSession` delivers; the migration builtin of DEV tests; the native lock and
staging publishes.

## 9. Running

    tlc -workers 2 -config Mixed.cfg MCFeatureRollout
    tlc -workers 2 -config WorkingTree.cfg MCWorkingTree
    tlc -workers 2 -config Session.cfg SqlclSession
    tlapm FeatureRolloutProofs.tla

`PROJECT.json` lists every run with its module and configuration, the mutant that
breaks each checked property, the source lines of every definition, the hazards and
the theorems. The longest run takes under five minutes with two workers;
`WorkingTreeProofs`, the longest proof, takes about twenty-two.
