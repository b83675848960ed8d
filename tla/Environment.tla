----------------------------- MODULE Environment -----------------------------
(***************************************************************************)
(* What is done to one database environment beside the rollout of a        *)
(* capsule: the transport of reference data from another environment, the  *)
(* rollout of a manifest without a capsule, the rehearsal of migration     *)
(* folders, and the comparison with another environment.  They share no    *)
(* files and no locks, so a behaviour here is one of one of them; the      *)
(* variables of the others are off.                                        *)
(***************************************************************************)
EXTENDS Naturals, Sequences, FiniteSets

CONSTANTS
    Parts,        \* which of them are explored
    Off, None,
    MaxChanges    \* bound: changes of the environment by others

CONSTANTS         \* of BaselineData
    Exporter, Sources, Targets

CONSTANTS         \* of LegacyRollout
    Runs, Steps, MaxEdits, MaxSwitches

CONSTANTS         \* of MigrationRehearsal
    MaxFolders, MaxFiles, MaxMates

CONSTANTS         \* of EnvironmentReadiness
    Databases, Contents, Stray, Setups, MaxRows

\* A manifest has a number of steps.
ASSUME ManifestAssumption == Steps \in Nat

\* No exporter is the absence of one.
ASSUME ExporterAssumption == None \notin Exporter

VARIABLES
    part,         \* the module whose behaviour this is
    src, dir, order, exporter, tgt, changes, build, folder, run, kind, edits,
    db, switches, ran, sessions, attempted, applied, receipt, batch,
    autocommit, committed, mates, edited, stage, out, own, session, verdict,
    setup, capture, script

vars ==
    <<part, src, dir, order, exporter, tgt, changes, build, folder, run, kind,
      edits, db, switches, ran, sessions, attempted, applied, receipt, batch,
      autocommit, committed, mates, edited, stage, out, own, session,
      verdict, setup, capture, script>>

-----------------------------------------------------------------------------
Data == INSTANCE BaselineData

ASSUME RowsAssumption == Data!ConstantsFit

InitData ==
    /\ part = "data" /\ Data!Init
    /\ kind = Off /\ edits = Off /\ db = Off /\ switches = Off
    /\ ran = Off /\ sessions = Off /\ attempted = Off /\ applied = Off
    /\ receipt = Off /\ batch = Off /\ autocommit = Off /\ committed = Off
    /\ mates = Off /\ edited = Off /\ stage = Off /\ out = Off
    /\ own = Off /\ session = Off /\ verdict = Off
    /\ setup = Off /\ capture = Off /\ script = Off

StepData ==
    /\ part = "data" /\ Data!Next
    /\ UNCHANGED <<part, kind, edits, db, switches, ran, sessions, attempted,
                   applied, receipt, batch, autocommit, committed, mates,
                   edited, stage, out, own, session, verdict, setup, capture,
                   script>>

Legacy == INSTANCE LegacyRollout

InitLegacy ==
    /\ part = "legacy" /\ Legacy!Init
    /\ dir = Off /\ order = Off /\ exporter = Off /\ tgt = Off
    /\ changes = Off /\ build = Off /\ folder = Off /\ batch = Off
    /\ autocommit = Off /\ committed = Off /\ mates = Off /\ edited = Off
    /\ stage = Off /\ out = Off /\ own = Off /\ session = Off
    /\ verdict = Off /\ setup = Off /\ capture = Off /\ script = Off

StepLegacy ==
    /\ part = "legacy" /\ Legacy!Next
    /\ UNCHANGED <<part, dir, order, exporter, tgt, changes, build, folder,
                   batch, autocommit, committed, mates, edited, stage, out,
                   own, session, verdict, setup, capture, script>>

Rehearsal == INSTANCE MigrationRehearsal

InitRehearsal ==
    /\ part = "rehearsal" /\ Rehearsal!Init
    /\ src = Off /\ dir = Off /\ order = Off /\ exporter = Off
    /\ tgt = Off /\ changes = Off /\ build = Off /\ folder = Off
    /\ run = Off /\ kind = Off /\ edits = Off /\ db = Off
    /\ switches = Off /\ ran = Off /\ sessions = Off /\ attempted = Off
    /\ applied = Off /\ receipt = Off
    /\ setup = Off /\ capture = Off /\ script = Off

StepRehearsal ==
    /\ part = "rehearsal" /\ Rehearsal!Next
    /\ UNCHANGED <<part, src, dir, order, exporter, tgt, changes, build,
                   folder, run, kind, edits, db, switches, ran, sessions,
                   attempted, applied, receipt, setup, capture, script>>

Readiness == INSTANCE EnvironmentReadiness

ASSUME ReadinessAssumption == Readiness!ConstantsFit

InitReadiness ==
    /\ part = "readiness" /\ Readiness!Init
    /\ src = Off /\ dir = Off /\ order = Off /\ exporter = Off
    /\ tgt = Off /\ build = Off /\ folder = Off /\ run = Off
    /\ kind = Off /\ edits = Off /\ switches = Off /\ ran = Off
    /\ sessions = Off /\ attempted = Off /\ applied = Off /\ receipt = Off
    /\ batch = Off /\ autocommit = Off /\ committed = Off /\ mates = Off
    /\ edited = Off /\ out = Off /\ own = Off /\ session = Off

StepReadiness ==
    /\ part = "readiness" /\ Readiness!Next
    /\ UNCHANGED <<part, src, dir, order, exporter, tgt, build, folder, run,
                   kind, edits, switches, ran, sessions, attempted, applied,
                   receipt, batch, autocommit, committed, mates, edited, out,
                   own, session>>

-----------------------------------------------------------------------------
Init ==
    /\ part \in Parts
    /\ InitData \/ InitLegacy \/ InitRehearsal \/ InitReadiness

Next == StepData \/ StepLegacy \/ StepRehearsal \/ StepReadiness

Spec == Init /\ [][Next]_vars

-----------------------------------------------------------------------------
(* The properties of the parts, as their modules state and explain them.    *)

\* A build takes the rows of one export, of the last that was begun.
TakesOneExport == part = "data" => Data!TakesOneExport

\* An inserted row refers to the parent with the source's label.
RefersByLabel == part = "data" => Data!RefersByLabel

\* The receipts of a rollout tell the truth and its earlier steps ran.
ProgressIsTrue == part = "legacy" => Legacy!ProgressIsTrue

\* Exit 0 of a rehearsal stands for checks that were all seen to be true.
RehearsedIsProven == part = "rehearsal" => Rehearsal!RehearsedIsProven

\* A rehearsal changes nothing for good (migration_rehearsal.py).
LeavesNoTrace == part = "rehearsal" => Rehearsal!LeavesNoTrace

\* Exit 0 of compare-env is never a row missed or an alias that led elsewhere.
ReadyIsSeen == part = "readiness" => Readiness!ReadyIsSeen

\* A script of additions gives only what the source had and the target lacked,
\* and all of it.
ScriptIsRight == part = "readiness" => Readiness!ScriptIsRight

=============================================================================
