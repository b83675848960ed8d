-------------------------- MODULE CapsuleStoreProofs --------------------------
(***************************************************************************)
(* CapsuleStore for any number of capsules, freezes, rollouts, cleanups    *)
(* and changes by hand: nobody works with half a capsule or a wrong one,   *)
(* and tools take a capsule apart only after its production was proven.    *)
(*                                                                         *)
(* The argument goes through the writer lock.  Rows of the index change    *)
(* under the free lock only, except for the evidence of a finished run; a  *)
(* cleanup at work holds the lock, so what made its capsules eligible      *)
(* still holds when it takes a file away (Removing), and no rollout that   *)
(* runs can have one of them (Started).                                    *)
(***************************************************************************)
EXTENDS CapsuleStore, SequenceTheorems, TLAPS

\* Records of capsules, plans and payloads have the fields they are read by.
LEMMA NameFields == ASSUME NEW n \in Name
                    PROVE n.source \in Source /\ n.engine \in Engine /\ n.commit \in Commit /\ PayloadOf(n) \in Payload
  BY DEF Name, Payload, PayloadOf

\* As many rows as before make a sequence again.
LEMMA RowsByRow == ASSUME NEW S, NEW s \in Seq(S), NEW f \in [DOMAIN s -> S] PROVE f \in Seq(S)
  <1>1. DOMAIN s = 1 .. Len(s) /\ Len(s) \in Nat
    BY LenProperties
  <1> QED
    BY <1>1

LEMMA Initially == Init => IndInv
  <1> SUFFICES ASSUME Init PROVE IndInv
    OBVIOUS
  <1> USE CommitsHaveInputs, FreeIsNoCleaner DEF Init
  <1>1. TypeOK
    BY DEF TypeOK, Env, BuilderState, RunnerState, CleanerState
  <1>2. Built /\ CapsuleIsCommitted /\ Started /\ RunningKeepsItsCapsule
    BY DEF Built, CapsuleIsCommitted, Started, RunningKeepsItsCapsule, Occupied
  <1>3. Removing /\ TornIsAccounted /\ CompleteIsComplete /\ OneCleanupOpen
    BY DEF Removing, Active, TornIsAccounted, CompleteIsComplete, OneCleanupOpen, Occupied
  <1> QED
    BY <1>1, <1>2, <1>3 DEF IndInv

-----------------------------------------------------------------------------
(* What a step leaves alone keeps the parts that speak of nothing else.      *)

LEMMA IndexFrame == ASSUME IndInv, UNCHANGED <<rollouts, cleanups, lock, cleaner>>
                    PROVE Removing' /\ CompleteIsComplete' /\ OneCleanupOpen'
  <1>1. Removing'
    BY DEF IndInv, Removing, Active, LatestVerified, Candidates, NoRunNeeds
  <1>2. CompleteIsComplete' /\ OneCleanupOpen'
    BY DEF IndInv, CompleteIsComplete, OneCleanupOpen
  <1> QED
    BY <1>1, <1>2

LEMMA DirsFrame == ASSUME IndInv, UNCHANGED <<dirs, tampered, cleanups, cleaner>>
                   PROVE CapsuleIsCommitted' /\ TornIsAccounted'
  BY DEF IndInv, CapsuleIsCommitted, TornIsAccounted, Occupied, Whole, Active

LEMMA RunnerFrame == ASSUME IndInv, UNCHANGED <<rollouts, runner>> PROVE Started'
  BY DEF IndInv, Started

-----------------------------------------------------------------------------
(* Developers and operators *)

LEMMA WorldKeeps == ASSUME IndInv, Edit \/ Checkout \/ ChangeEngine \/ \E e \in Env, n \in Name : Prepare(e, n)
                    PROVE IndInv'
  <1>0. UNCHANGED <<dirs, index, tampered, builder, runner, cleaner>>
    BY DEF Edit, Checkout, ChangeEngine, Prepare
  <1>1. TypeOK'
    <2>1. tree' \in Source /\ head' \in Commit /\ engine' \in Engine
      BY CommitsHaveInputs DEF Edit, Checkout, ChangeEngine, Prepare, IndInv, TypeOK, world
    <2>2. plans' \subseteq Plan
      BY NameFields DEF Edit, Checkout, ChangeEngine, Prepare, IndInv, TypeOK, Plan
    <2> QED
      BY <1>0, <2>1, <2>2 DEF IndInv, TypeOK, index
  <1>2. Built' /\ RunningKeepsItsCapsule'
    BY <1>0 DEF IndInv, Built, RunningKeepsItsCapsule, Whole
  <1> QED
    BY <1>0, <1>1, <1>2, IndexFrame, DirsFrame, RunnerFrame DEF IndInv, index

LEMMA TamperKeeps == ASSUME IndInv, NEW n \in Name, Tamper(n) PROVE IndInv'
  <1> USE DEF Tamper
  <1>0. UNCHANGED <<index, builder, runner, cleaner>>
    OBVIOUS
  <1>1. TypeOK'
    <2>1. dirs' \in [Name -> {"absent", "torn", "whole"}]
      BY DEF IndInv, TypeOK
    <2> QED
      BY <1>0, <2>1 DEF IndInv, TypeOK, index
  <1>2. \A m \in Name \ {n} : dirs'[m] = dirs[m]
    BY DEF IndInv, TypeOK
  <1>3. Built' /\ CapsuleIsCommitted'
    BY <1>2 DEF IndInv, Built, CapsuleIsCommitted, Occupied
  <1>4. RunningKeepsItsCapsule'
    BY <1>2 DEF IndInv, RunningKeepsItsCapsule, Started, Whole
  <1>5. TornIsAccounted'
    BY <1>0, <1>2 DEF IndInv, TornIsAccounted, Occupied, Whole, Active, index
  <1> QED
    BY <1>0, <1>1, <1>3, <1>4, <1>5, IndexFrame, RunnerFrame DEF IndInv, index

LEMMA ChangeEvidenceKeeps == ASSUME IndInv, NEW i \in DOMAIN rollouts, ChangeEvidence(i) PROVE IndInv'
  <1> USE DEF ChangeEvidence
  <1>1. rollouts' \in Seq(Row)
    <2>1. rollouts \in [DOMAIN rollouts -> Row]
      BY LenProperties DEF IndInv, TypeOK
    <2>2. rollouts' \in [DOMAIN rollouts -> Row]
      BY <2>1 DEF Row
    <2> QED
      BY <2>2, RowsByRow DEF IndInv, TypeOK
  <1>2. TypeOK'
    BY <1>1 DEF IndInv, TypeOK
  <1>3. /\ DOMAIN rollouts' = DOMAIN rollouts
        /\ \A j \in DOMAIN rollouts :
             /\ rollouts'[j].run = rollouts[j].run /\ rollouts'[j].env = rollouts[j].env
             /\ rollouts'[j].name = rollouts[j].name /\ rollouts'[j].state = rollouts[j].state
             /\ rollouts'[j].unresolved = rollouts[j].unresolved
    BY DEF IndInv, TypeOK, Row
  <1> HIDE DEF ChangeEvidence
  <1>4. UNCHANGED <<dirs, cleanups, lock, tampered, builder, runner, cleaner>>
    BY DEF ChangeEvidence
  <1>5. Built' /\ RunningKeepsItsCapsule' /\ CompleteIsComplete' /\ OneCleanupOpen'
    BY <1>4 DEF IndInv, Built, RunningKeepsItsCapsule, CompleteIsComplete, OneCleanupOpen, Whole
  <1>6. Started'
    BY <1>3, <1>4 DEF IndInv, Started
  <1>7. Removing'
    <2>1. \A p : NoRunNeeds(p) => NoRunNeeds(p)'
      BY <1>3 DEF NoRunNeeds, PayloadOf
    <2>2. \A m, j : LatestVerified(m, j) => LatestVerified(m, j)'
      BY <1>3 DEF LatestVerified, Candidates
    <2> QED
      BY <1>3, <1>4, <2>1, <2>2 DEF IndInv, Removing, Active, PayloadOf
  <1> QED
    BY <1>2, <1>4, <1>5, <1>6, <1>7, DirsFrame DEF IndInv

LEMMA ReconcileKeeps == ASSUME IndInv, Reconcile PROVE IndInv'
  <1> USE DEF Reconcile
  <1>1. \A k \in Cleaner : ~Active(k)
    BY DEF IndInv, Removing, Active
  <1>2. TypeOK' /\ Built' /\ RunningKeepsItsCapsule' /\ CompleteIsComplete' /\ OneCleanupOpen'
    BY DEF IndInv, TypeOK, Built, RunningKeepsItsCapsule, CompleteIsComplete, OneCleanupOpen, Whole, world
  <1>3. Removing'
    BY <1>1 DEF Removing, Active
  <1> QED
    BY <1>2, <1>3, DirsFrame, RunnerFrame DEF IndInv

-----------------------------------------------------------------------------
(* Freeze: the index and its users stay as they are.  Only the installation  *)
(* changes what stands under a name.                                         *)

LEMMA FreezeKeeps == ASSUME IndInv, NEW b \in Builder, Freeze(b) PROVE IndInv'
  <1>0. UNCHANGED <<world, plans, index, tampered, runner, cleaner>>
    BY DEF Freeze, ReadInputs, Make, Reuse, OpenStage, WriteStage, Install, StopFreeze
  <1>1. builder \in [Builder -> BuilderState] /\ Built
    BY DEF IndInv, TypeOK
  <1>2. builder' \in [Builder -> BuilderState] /\ Built'
    <2>1. CASE ReadInputs(b)
      <3> DEFINE read == [source |-> tree, engine |-> engine, commit |-> head]
      <3>1. read \in Name
        BY DEF Name, IndInv, TypeOK
      <3>2. builder' = [builder EXCEPT ![b] = [pc |-> "read", name |-> read]]
        BY <2>1 DEF ReadInputs
      <3> HIDE DEF read
      <3> QED
        BY <1>1, <3>1, <3>2 DEF Built, BuilderState
    <2>2. CASE Make(b) /\ MatchesCommit(b)
      <3> DEFINE made == [source |-> builder[b].name.source, engine |-> engine, commit |-> head]
      <3>1. builder[b].name \in Name
        BY <1>1, <2>2 DEF Make, Built
      <3>2. made \in Name /\ made.source = SourceOf[made.commit]
        BY <2>2, <3>1 DEF Name, MatchesCommit, IndInv, TypeOK
      <3>3. builder' = [builder EXCEPT ![b] = [pc |-> "made", name |-> made]]
        BY <1>1, <2>2 DEF Make
      <3> HIDE DEF made
      <3> QED
        BY <1>1, <3>2, <3>3 DEF Built, BuilderState
    <2>3. CASE builder' = FreezeOver(b)
      BY <1>1, <2>3 DEF FreezeOver, Built, BuilderState
    <2>4. CASE OpenStage(b) \/ WriteStage(b)
      BY <1>1, <2>4 DEF OpenStage, WriteStage, Goto, Built, BuilderState
    <2> QED
      BY <2>1, <2>2, <2>3, <2>4 DEF Freeze, Make, Reuse, Install, StopFreeze
  <1>3. CASE Install(b)
    <2> DEFINE n == builder[b].name
    <2>1. n \in Name /\ n.source = SourceOf[n.commit]
      BY <1>3 DEF Install, IndInv, Built
    <2>2. \/ UNCHANGED dirs
          \/ ~Occupied(n) /\ dirs' = [dirs EXCEPT ![n] = "whole"]
      BY <1>3 DEF Install
    <2>3. dirs' \in [Name -> {"absent", "torn", "whole"}]
      BY <2>1, <2>2 DEF IndInv, TypeOK
    <2> HIDE DEF n
    <2>4. \A m \in Name : dirs'[m] = dirs[m] \/ (m = n /\ dirs'[m] = "whole")
      <3>1. dirs \in [Name -> {"absent", "torn", "whole"}]
        BY DEF IndInv, TypeOK
      <3>2. CASE UNCHANGED dirs
        BY <3>2
      <3>3. CASE dirs' = [dirs EXCEPT ![n] = "whole"]
        BY <2>1, <3>1, <3>3
      <3> QED
        BY <2>2, <3>2, <3>3
    <2>5. CapsuleIsCommitted' /\ RunningKeepsItsCapsule' /\ TornIsAccounted'
      <3>1. CapsuleIsCommitted'
        BY <2>1, <2>4 DEF IndInv, CapsuleIsCommitted, Occupied
      <3>2. RunningKeepsItsCapsule'
        BY <1>0, <2>4 DEF IndInv, RunningKeepsItsCapsule, Started, Whole
      <3>3. TornIsAccounted'
        BY <1>0, <2>4 DEF IndInv, TornIsAccounted, Occupied, Whole, Active, index
      <3> QED
        BY <3>1, <3>2, <3>3
    <2> QED
      BY <1>0, <1>2, <2>3, <2>5, IndexFrame, RunnerFrame DEF IndInv, TypeOK, index, world
  <1>4. CASE UNCHANGED dirs
    <2>1. TypeOK' /\ RunningKeepsItsCapsule'
      BY <1>0, <1>2, <1>4 DEF IndInv, TypeOK, RunningKeepsItsCapsule, Whole, index, world
    <2> QED
      BY <1>0, <1>2, <1>4, <2>1, IndexFrame, DirsFrame, RunnerFrame DEF IndInv, index
  <1> QED
    BY <1>3, <1>4 DEF Freeze, ReadInputs, Make, Reuse, OpenStage, WriteStage, StopFreeze

-----------------------------------------------------------------------------
(* Rollouts *)

\* What a rollout changes in the index it changes while nobody cleans up.
LEMMA FreeLock == ASSUME IndInv, lock = Free PROVE \A k \in Cleaner : ~Active(k)
  BY FreeIsNoCleaner DEF IndInv, Removing

LEMMA RolloutFrame ==
    ASSUME IndInv, UNCHANGED <<world, dirs, plans, cleanups, lock, tampered, builder, cleaner>>,
           rollouts' \in Seq(Row), rollouts' = rollouts \/ lock = Free,
           runner' \in [Runner -> RunnerState],
           Started', RunningKeepsItsCapsule'
    PROVE  IndInv'
  <1>1. TypeOK' /\ Built'
    BY DEF IndInv, TypeOK, Built, world
  <1>2. CASE UNCHANGED rollouts
    BY <1>1, <1>2, IndexFrame, DirsFrame DEF IndInv
  <1>3. CASE lock = Free
    <2>1. Removing'
      BY <1>3, FreeLock DEF Removing, Active
    <2>2. CompleteIsComplete' /\ OneCleanupOpen'
      BY DEF IndInv, CompleteIsComplete, OneCleanupOpen
    <2> QED
      BY <1>1, <2>1, <2>2, DirsFrame DEF IndInv
  <1> QED
    BY <1>2, <1>3

LEMMA OpenKeeps ==
    ASSUME IndInv, NEW r \in Runner, NEW e \in Env, NEW n \in Name, NEW o \in (Runner \ {r}) \cup {NoRun}, Open(r, e, n, o)
    PROVE  IndInv'
  <1>1. runner' = [runner EXCEPT ![r] = [pc |-> "open", env |-> e, recovers |-> o, name |-> n]]
    BY DEF Open
  <1>2. UNCHANGED <<world, dirs, plans, rollouts, cleanups, lock, tampered, builder, cleaner>>
    BY DEF Open, index
  <1>3. runner' \in [Runner -> RunnerState]
    BY <1>1 DEF IndInv, TypeOK, RunnerState
  <1>4. Started' /\ RunningKeepsItsCapsule'
    BY <1>1, <1>2 DEF IndInv, TypeOK, RunnerState, Started, RunningKeepsItsCapsule, Whole
  <1> QED
    BY <1>2, <1>3, <1>4, RolloutFrame DEF IndInv, TypeOK

LEMMA StartRolloutKeeps == ASSUME IndInv, NEW r \in Runner, StartRollout(r) PROVE IndInv'
  <1> DEFINE row == [run |-> r, env |-> runner[r].env, name |-> runner[r].name, state |-> "running",
                     unresolved |-> FALSE, retired |-> FALSE, recovers |-> runner[r].recovers, evidence |-> TRUE]
  <1>1. row \in Row /\ rollouts' = Append(rollouts, row)
    BY DEF StartRollout, WithRun, Row, IndInv, TypeOK, RunnerState, Started
  <1>2. runner' = [runner EXCEPT ![r].pc = "running"]
    BY DEF StartRollout, Goto
  <1>3. /\ rollouts' \in Seq(Row)
        /\ DOMAIN rollouts' = 1 .. Len(rollouts) + 1 /\ DOMAIN rollouts = 1 .. Len(rollouts)
        /\ \A i \in DOMAIN rollouts : rollouts'[i] = rollouts[i]
        /\ rollouts'[Len(rollouts) + 1] = row
    BY <1>1, AppendProperties, LenProperties DEF IndInv, TypeOK
  <1>4. runner' \in [Runner -> RunnerState]
    <2>1. runner \in [Runner -> RunnerState]
      BY DEF IndInv, TypeOK
    <2> QED
      BY <1>2, <2>1 DEF RunnerState
  <1>5. Started'
    <2> SUFFICES ASSUME NEW q \in Runner
                 PROVE  /\ runner'[q].pc \in {"open", "running"} => runner'[q].name \in Name
                        /\ runner'[q].pc = "running" =>
                               \E i \in DOMAIN rollouts' :
                                   /\ rollouts'[i].run = q
                                   /\ rollouts'[i].name = runner'[q].name
                                   /\ rollouts'[i].state = "running"
      BY DEF Started
    <2>1. CASE q = r
      <3>1. runner'[q].name = runner[r].name /\ runner[r].name \in Name
        BY <1>2, <2>1 DEF StartRollout, IndInv, TypeOK, RunnerState, Started
      <3>2. Len(rollouts) + 1 \in DOMAIN rollouts'
        BY <1>3, LenProperties DEF IndInv, TypeOK
      <3> QED
        BY <1>3, <2>1, <3>1, <3>2
    <2>2. CASE q # r
      <3>1. runner'[q] = runner[q]
        BY <1>2, <2>2 DEF IndInv, TypeOK
      <3>2. DOMAIN rollouts \subseteq DOMAIN rollouts'
        BY <1>3, LenProperties DEF IndInv, TypeOK
      <3> QED
        BY <1>3, <3>1, <3>2 DEF IndInv, Started
    <2> QED
      BY <2>1, <2>2
  <1>6. RunningKeepsItsCapsule'
    <2> SUFFICES ASSUME NEW q \in Runner, runner'[q].pc = "running"
                 PROVE  (Whole(runner[q].name) \/ runner[q].name \in tampered)'
      BY DEF RunningKeepsItsCapsule
    <2>1. runner'[q].name = runner[q].name /\ UNCHANGED <<dirs, tampered>>
      BY <1>2 DEF StartRollout, IndInv, TypeOK, RunnerState
    <2>2. q = r \/ runner[q].pc = "running"
      BY <1>2 DEF IndInv, TypeOK
    <2> QED
      BY <2>1, <2>2 DEF StartRollout, Loadable, Whole, IndInv, RunningKeepsItsCapsule
  <1> QED
    BY <1>3, <1>4, <1>5, <1>6, RolloutFrame DEF StartRollout

LEMMA RowOfRun == ASSUME IndInv, NEW r \in Runner, runner[r].pc = "running"
                  PROVE  RowOf(r) \in DOMAIN rollouts /\ rollouts[RowOf(r)].run = r
  BY DEF IndInv, Started, RowOf

\* An attempt changes no state, name or run of a row.
LEMMA AttemptKeeps == ASSUME IndInv, NEW r \in Runner, Attempt(r) PROVE IndInv'
  <1> DEFINE own == RowOf(r)
  <1>1. own \in DOMAIN rollouts /\ rollouts \in [DOMAIN rollouts -> Row] /\ rollouts \in Seq(Row)
    BY RowOfRun, LenProperties DEF Attempt, IndInv, TypeOK
  <1> HIDE DEF own
  <1>2. \/ rollouts' = [rollouts EXCEPT ![own].unresolved = TRUE]
        \/ rollouts' = [i \in DOMAIN rollouts |->
                IF rollouts[i].run = r THEN [rollouts[i] EXCEPT !.unresolved = FALSE]
                ELSE IF rollouts[i].run = runner[r].recovers
                     THEN [rollouts[i] EXCEPT !.unresolved = FALSE, !.retired = TRUE]
                ELSE rollouts[i]]
    BY DEF Attempt, own
  <1>3. /\ rollouts' \in [DOMAIN rollouts -> Row]
        /\ \A i \in DOMAIN rollouts : /\ rollouts'[i].run = rollouts[i].run
                                      /\ rollouts'[i].name = rollouts[i].name
                                      /\ rollouts'[i].state = rollouts[i].state
    <2>1. CASE rollouts' = [rollouts EXCEPT ![own].unresolved = TRUE]
      BY <1>1, <2>1 DEF Row
    <2>2. CASE rollouts' # [rollouts EXCEPT ![own].unresolved = TRUE]
      <3>1. \A row \in Row : /\ [row EXCEPT !.unresolved = FALSE] \in Row
                             /\ [row EXCEPT !.unresolved = FALSE, !.retired = TRUE] \in Row
                             /\ \A new \in {[row EXCEPT !.unresolved = FALSE],
                                           [row EXCEPT !.unresolved = FALSE, !.retired = TRUE]} :
                                 new.run = row.run /\ new.name = row.name /\ new.state = row.state
        BY DEF Row
      <3>2. DOMAIN rollouts' = DOMAIN rollouts
        BY <1>2, <2>2
      <3>3. \A i \in DOMAIN rollouts :
              rollouts'[i] \in {rollouts[i], [rollouts[i] EXCEPT !.unresolved = FALSE],
                               [rollouts[i] EXCEPT !.unresolved = FALSE, !.retired = TRUE]}
        BY <1>2, <2>2
      <3>4. \A i \in DOMAIN rollouts : rollouts[i] \in Row
        BY <1>1
      <3>5. \A i \in DOMAIN rollouts : /\ rollouts'[i] \in Row
                                       /\ rollouts'[i].run = rollouts[i].run
                                       /\ rollouts'[i].name = rollouts[i].name
                                       /\ rollouts'[i].state = rollouts[i].state
        BY <3>1, <3>3, <3>4
      <3>6. rollouts' = [i \in DOMAIN rollouts |-> rollouts'[i]]
        BY <1>2, <2>2
      <3> QED
        BY <3>5, <3>6
    <2> QED
      BY <2>1, <2>2
  <1>4. rollouts' \in Seq(Row)
    BY <1>1, <1>3, RowsByRow
  <1>5. lock = Free /\ UNCHANGED <<world, dirs, plans, cleanups, lock, tampered, builder, runner, cleaner>>
    BY DEF Attempt
  <1>6. Started' /\ RunningKeepsItsCapsule'
    BY <1>3, <1>5 DEF IndInv, Started, RunningKeepsItsCapsule, Whole
  <1> QED
    BY <1>4, <1>5, <1>6, RolloutFrame DEF IndInv, TypeOK

LEMMA FinishKeeps ==
    ASSUME IndInv, NEW r \in Runner, NEW state \in {"verified", "failed", "unknown", "not-started"}, Finish(r, state)
    PROVE  IndInv'
  <1> DEFINE own == RowOf(r)
  <1>1. own \in DOMAIN rollouts /\ rollouts[own].run = r /\ rollouts \in [DOMAIN rollouts -> Row] /\ rollouts \in Seq(Row)
    BY RowOfRun, LenProperties DEF Finish, IndInv, TypeOK
  <1> HIDE DEF own
  <1>2. rollouts' = [rollouts EXCEPT ![own].state = state]
    BY DEF Finish, own
  <1>3. rollouts' \in [DOMAIN rollouts -> Row]
    BY <1>1, <1>2 DEF Row
  <1>4. \A i \in DOMAIN rollouts : rollouts[i].run # r => rollouts'[i] = rollouts[i]
    BY <1>1, <1>2
  <1>5. rollouts' \in Seq(Row)
    BY <1>1, <1>3, RowsByRow
  <1>6. /\ lock = Free /\ UNCHANGED <<world, dirs, plans, cleanups, lock, tampered, builder, cleaner>>
        /\ runner' = [runner EXCEPT ![r] = [pc |-> "over", env |-> "staging", recovers |-> NoRun, name |-> NoName]]
    BY DEF Finish
  <1>7. runner \in [Runner -> RunnerState]
    BY DEF IndInv, TypeOK
  <1>8. runner' \in [Runner -> RunnerState]
    BY <1>6, <1>7 DEF RunnerState, Env
  <1>9. Started' /\ RunningKeepsItsCapsule'
    BY <1>3, <1>4, <1>6, <1>7 DEF IndInv, Started, RunningKeepsItsCapsule, Whole
  <1> QED
    BY <1>5, <1>6, <1>8, <1>9, RolloutFrame

LEMMA StopRolloutKeeps == ASSUME IndInv, NEW r \in Runner, StopRollout(r) PROVE IndInv'
  <1>1. runner \in [Runner -> RunnerState] /\ rollouts \in Seq(Row)
    BY DEF IndInv, TypeOK
  <1>2. /\ UNCHANGED <<world, dirs, plans, rollouts, cleanups, lock, tampered, builder, cleaner>>
        /\ runner' = [runner EXCEPT ![r] = [pc |-> "over", env |-> "staging", recovers |-> NoRun, name |-> NoName]]
    BY DEF StopRollout, index
  <1>3. runner' \in [Runner -> RunnerState]
    BY <1>1, <1>2 DEF RunnerState, Env
  <1>4. Started' /\ RunningKeepsItsCapsule'
    BY <1>1, <1>2 DEF IndInv, Started, RunningKeepsItsCapsule, Whole
  <1> QED
    BY <1>1, <1>2, <1>3, <1>4, RolloutFrame

LEMMA RolloutKeeps == ASSUME IndInv, NEW r \in Runner, Rollout(r) PROVE IndInv'
  BY OpenKeeps, StartRolloutKeeps, AttemptKeeps, FinishKeeps, StopRolloutKeeps DEF Rollout, FinishVerified, FinishOtherwise

-----------------------------------------------------------------------------
(* Cleanup *)

\* What a cleanup at work may take away.
LEMMA InHand == ASSUME IndInv, NEW k \in Cleaner, Active(k)
                PROVE  /\ \A l \in Cleaner : Active(l) => l = k
                       /\ lock = k
                       /\ cleaner[k].row \in DOMAIN cleanups
                       /\ cleaner[k].targets \subseteq cleanups[cleaner[k].row].targets
                       /\ cleanups[cleaner[k].row].state = "removing"
  BY DEF IndInv, Removing

\* Cleanups leave the other parts of the system alone.
LEMMA CleanupFrame ==
    ASSUME IndInv, UNCHANGED <<world, rollouts, tampered, builder, runner>>,
           dirs' \in [Name -> {"absent", "torn", "whole"}], plans' \subseteq Plan, cleanups' \in Seq(CleanupRow),
           lock' \in Cleaner \cup {Free}, cleaner' \in [Cleaner -> CleanerState]
    PROVE  TypeOK' /\ Built' /\ Started'
  BY DEF IndInv, TypeOK, Built, Started, world

LEMMA BeginCleanupKeeps == ASSUME IndInv, NEW k \in Cleaner, NEW p \in Payload, BeginCleanup(k, p) PROVE IndInv'
  <1> DEFINE targets == CleanupTargets(p)
             row == [payload |-> p, state |-> "removing", targets |-> targets, removed |-> {}]
             last == Len(cleanups) + 1
  <1>1. /\ lock = Free /\ lock' = k /\ UNCHANGED <<world, dirs, plans, rollouts, tampered, builder, runner>>
        /\ cleanups' = Append(cleanups, row)
        /\ cleaner' = [cleaner EXCEPT ![k] = [pc |-> "arrive", targets |-> targets, current |-> NoName, row |-> last]]
    BY DEF BeginCleanup
  <1>2. targets \subseteq Target
    BY DEF CleanupTargets, Matching, Target, IndInv, TypeOK
  <1>3. row \in CleanupRow
    BY <1>2 DEF CleanupRow
  <1>4. \A n \in targets \cap Name : (\E i \in DOMAIN rollouts : LatestVerified(n, i)) /\ NoRunNeeds(PayloadOf(n))
    <2>1. ASSUME NEW n \in Name, n \in plans, n.payload = p PROVE FALSE
      <3>1. n \in Plan
        BY <2>1 DEF IndInv, TypeOK
      <3> QED
        BY <3>1 DEF Name, Plan
    <2> QED
      BY <2>1 DEF BeginCleanup, Eligible, CleanupTargets, Matching, Completed
  <1> HIDE DEF targets
  <1>5. cleanups \in Seq(CleanupRow) /\ Len(cleanups) \in Nat /\ DOMAIN cleanups = 1 .. Len(cleanups)
    BY LenProperties DEF IndInv, TypeOK
  <1>6. /\ cleanups' \in Seq(CleanupRow)
        /\ DOMAIN cleanups' = 1 .. last
        /\ \A j \in DOMAIN cleanups : cleanups'[j] = cleanups[j]
        /\ cleanups'[last] = row
    BY <1>1, <1>3, <1>5, AppendProperties, LenProperties
  <1>7. cleaner \in [Cleaner -> CleanerState]
    BY DEF IndInv, TypeOK
  <1>8. cleaner' \in [Cleaner -> CleanerState]
    BY <1>1, <1>2, <1>5, <1>7 DEF CleanerState
  <1>9. last \notin DOMAIN cleanups /\ DOMAIN cleanups' = DOMAIN cleanups \cup {last}
    BY <1>5, <1>6
  <1> HIDE DEF last
  <1>10. \A l \in Cleaner : Active(l)' => l = k
    BY <1>1, <1>7, FreeLock DEF Active
  <1>11. cleaner'[k] = [pc |-> "arrive", targets |-> targets, current |-> NoName, row |-> last]
    BY <1>1, <1>7
  <1>12. TypeOK' /\ Built' /\ Started'
    BY <1>1, <1>6, <1>8, CleanupFrame DEF IndInv, TypeOK
  <1>13. CapsuleIsCommitted' /\ RunningKeepsItsCapsule'
    BY <1>1 DEF IndInv, CapsuleIsCommitted, RunningKeepsItsCapsule, Occupied, Whole
  <1>14. Removing'
    <2>1. \A n \in targets \cap Name :
            (\E i \in DOMAIN rollouts' : LatestVerified(n, i)') /\ NoRunNeeds(PayloadOf(n))'
      BY <1>1, <1>4 DEF LatestVerified, Candidates, NoRunNeeds
    <2>2. /\ cleaner'[k].row = last /\ cleaner'[k].targets = targets /\ cleaner'[k].pc = "arrive"
          /\ cleanups'[last].state = "removing"
          /\ cleanups'[last].targets \ cleanups'[last].removed = targets
      BY <1>6, <1>11
    <2> QED
      BY <1>1, <1>9, <1>10, <2>1, <2>2 DEF Removing
  <1>15. TornIsAccounted'
    <2> SUFFICES ASSUME NEW n \in Name, Occupied(n), ~Whole(n), n \notin tampered
                 PROVE  \E j \in DOMAIN cleanups' :
                            /\ n \in cleanups'[j].targets /\ cleanups'[j].state # "complete"
                            /\ \A l \in Cleaner : Active(l)' => cleaner'[l].row # j
      BY <1>1 DEF TornIsAccounted, Occupied, Whole
    <2>1. \A l \in Cleaner : ~Active(l)
      BY <1>1, FreeLock
    <2>2. PICK j \in DOMAIN cleanups : n \in cleanups[j].targets /\ cleanups[j].state # "complete"
      BY <2>1 DEF IndInv, TornIsAccounted
    <2>3. j # last /\ j \in DOMAIN cleanups' /\ cleanups'[j] = cleanups[j]
      BY <1>6, <1>9
    <2>4. cleaner'[k].row = last
      BY <1>11
    <2> QED
      BY <1>10, <2>2, <2>3, <2>4
  <1>16. CompleteIsComplete'
    <2>1. cleanups'[last].state = "removing" /\ cleanups'[last].removed = {}
      BY <1>6
    <2> HIDE DEF row
    <2> QED
      BY <1>6, <1>9, <2>1 DEF IndInv, CompleteIsComplete
  <1>17. OneCleanupOpen'
    BY <1>6, <1>9 DEF IndInv, OneCleanupOpen, BeginCleanup, Eligible, NoRemovalOpen
  <1> QED
    BY <1>12, <1>13, <1>14, <1>15, <1>16, <1>17 DEF IndInv

LEMMA ArriveKeeps == ASSUME IndInv, NEW k \in Cleaner, Arrive(k) PROVE IndInv'
  <1>1. PICK t \in cleaner[k].targets : cleaner' = [cleaner EXCEPT ![k].pc = "removing", ![k].current = t]
    BY DEF Arrive
  <1>2. Active(k) /\ UNCHANGED <<world, dirs, plans, rollouts, cleanups, lock, tampered, builder, runner>>
    BY DEF Arrive, Active, index
  <1>3. cleaner \in [Cleaner -> CleanerState]
    BY DEF IndInv, TypeOK
  <1>4. cleaner' \in [Cleaner -> CleanerState]
    BY <1>1, <1>3 DEF CleanerState
  <1>5. \A l \in Cleaner : /\ Active(l)' = Active(l)
                           /\ cleaner'[l].targets = cleaner[l].targets /\ cleaner'[l].row = cleaner[l].row
                           /\ l # k => cleaner'[l] = cleaner[l]
    BY <1>1, <1>2, <1>3 DEF Active, CleanerState
  <1>6. cleaner'[k].current \in cleaner[k].targets
    BY <1>1, <1>3 DEF CleanerState
  <1>7. TypeOK' /\ Built' /\ Started'
    BY <1>2, <1>4, CleanupFrame DEF IndInv, TypeOK
  <1>8. CapsuleIsCommitted' /\ RunningKeepsItsCapsule' /\ CompleteIsComplete' /\ OneCleanupOpen'
    BY <1>2 DEF IndInv, CapsuleIsCommitted, RunningKeepsItsCapsule, CompleteIsComplete, OneCleanupOpen, Occupied, Whole
  <1>9. Removing'
    BY <1>2, <1>5, <1>6 DEF IndInv, Removing, LatestVerified, Candidates, NoRunNeeds
  <1>10. TornIsAccounted'
    BY <1>2, <1>5 DEF IndInv, TornIsAccounted, Occupied, Whole
  <1> QED
    BY <1>7, <1>8, <1>9, <1>10 DEF IndInv

LEMMA RemoveFileKeeps == ASSUME IndInv, NEW k \in Cleaner, RemoveFile(k) PROVE IndInv'
  <1> DEFINE t == Current(k)
  <1>1. Active(k) /\ UNCHANGED <<world, rollouts, cleanups, lock, tampered, builder, runner>>
    BY DEF RemoveFile, Active, index
  <1>2. t \in cleaner[k].targets
    BY <1>1 DEF RemoveFile, Current, IndInv, Removing
  <1>3. cleaner \in [Cleaner -> CleanerState] /\ dirs \in [Name -> {"absent", "torn", "whole"}] /\ plans \subseteq Plan
    BY DEF IndInv, TypeOK
  <1>4. cleaner' = cleaner \/ cleaner' = [cleaner EXCEPT ![k].pc = "removed"]
    BY DEF RemoveFile, Goto
  <1>5. \/ UNCHANGED dirs
        \/ t \in Name /\ Whole(t) /\ dirs' = [dirs EXCEPT ![t] = "torn"]
        \/ t \in Name /\ dirs' = [dirs EXCEPT ![t] = "absent"]
    BY DEF RemoveFile
  <1>6. plans' \subseteq plans
    BY DEF RemoveFile
  <1> HIDE DEF t
  <1>7. cleaner' \in [Cleaner -> CleanerState] /\ dirs' \in [Name -> {"absent", "torn", "whole"}] /\ plans' \subseteq Plan
    <2>1. cleaner' \in [Cleaner -> CleanerState]
      BY <1>3, <1>4 DEF CleanerState
    <2>2. dirs' \in [Name -> {"absent", "torn", "whole"}]
      BY <1>3, <1>5
    <2> QED
      BY <1>3, <1>6, <2>1, <2>2
  <1>8. \A l \in Cleaner : /\ Active(l)' = Active(l)
                           /\ cleaner'[l].targets = cleaner[l].targets /\ cleaner'[l].row = cleaner[l].row
                           /\ cleaner'[l].current = cleaner[l].current
                           /\ cleaner'[l].pc = "arrive" <=> cleaner[l].pc = "arrive"
    <2>1. cleaner[k].pc = "removing"
      BY DEF RemoveFile
    <2> QED
      BY <1>3, <1>4, <2>1 DEF Active, CleanerState
  <1>9. TypeOK' /\ Built' /\ Started'
    BY <1>1, <1>7, CleanupFrame DEF IndInv, TypeOK
  <1>10. \A n \in Name : n # t => dirs'[n] = dirs[n]
    BY <1>3, <1>5
  <1>11. \A n \in Name : Occupied(n)' => Occupied(n)
    BY <1>3, <1>5 DEF Occupied, Whole
  <1>12. CapsuleIsCommitted' /\ CompleteIsComplete' /\ OneCleanupOpen'
    BY <1>1, <1>11 DEF IndInv, CapsuleIsCommitted, CompleteIsComplete, OneCleanupOpen
  <1>13. RunningKeepsItsCapsule'
    <2> SUFFICES ASSUME NEW r \in Runner, runner[r].pc = "running"
                 PROVE  dirs'[runner[r].name] = "whole" \/ runner[r].name \in tampered
      BY <1>1 DEF RunningKeepsItsCapsule, Whole
    <2>1. PICK i \in DOMAIN rollouts : rollouts[i].name = runner[r].name /\ rollouts[i].state = "running"
      BY DEF IndInv, Started
    <2>2. t \in Name => NoRunNeeds(PayloadOf(t))
      BY <1>1, <1>2 DEF IndInv, Removing
    <2>3. t \in Name => runner[r].name # t
      BY <2>1, <2>2 DEF NoRunNeeds
    <2>4. runner[r].name \in Name /\ (dirs[runner[r].name] = "whole" \/ runner[r].name \in tampered)
      BY DEF IndInv, Started, RunningKeepsItsCapsule, Whole
    <2> QED
      BY <1>10, <2>3, <2>4
  <1>14. Removing'
    BY <1>1, <1>8 DEF IndInv, Removing, LatestVerified, Candidates, NoRunNeeds
  <1>15. TornIsAccounted'
    <2> SUFFICES ASSUME NEW n \in Name, Occupied(n)', ~Whole(n)', n \notin tampered
                 PROVE  \/ \E l \in Cleaner : Active(l) /\ n \in cleaner[l].targets
                        \/ \E j \in DOMAIN cleanups :
                               /\ n \in cleanups[j].targets /\ cleanups[j].state # "complete"
                               /\ \A l \in Cleaner : Active(l) => cleaner[l].row # j
      BY <1>1, <1>8 DEF TornIsAccounted
    <2>1. CASE n = t
      BY <1>1, <1>2, <2>1
    <2>2. CASE n # t
      BY <1>10, <2>2 DEF IndInv, TornIsAccounted, Occupied, Whole
    <2> QED
      BY <2>1, <2>2
  <1> QED
    BY <1>9, <1>12, <1>13, <1>14, <1>15 DEF IndInv

LEMMA RecordRemovedKeeps == ASSUME IndInv, NEW k \in Cleaner, RecordRemoved(k) PROVE IndInv'
  <1> DEFINE own == cleaner[k].row
             t == Current(k)
  <1>1. /\ Active(k) /\ ~Exists(t)
        /\ UNCHANGED <<world, dirs, plans, rollouts, lock, tampered, builder, runner>>
        /\ cleanups' = [cleanups EXCEPT ![own].removed = @ \cup {t}]
        /\ cleaner' = [cleaner EXCEPT ![k].pc = "arrive", ![k].targets = @ \ {t}, ![k].current = NoName]
    BY DEF RecordRemoved, Active
  <1>2. /\ own \in DOMAIN cleanups /\ cleanups[own].state = "removing"
        /\ cleaner[k].targets = cleanups[own].targets \ cleanups[own].removed
        /\ t \in cleaner[k].targets
    BY <1>1 DEF RecordRemoved, Current, IndInv, Removing
  <1> HIDE DEF own, t
  <1>3. cleaner \in [Cleaner -> CleanerState] /\ cleanups \in Seq(CleanupRow) /\ cleanups \in [DOMAIN cleanups -> CleanupRow]
    BY LenProperties DEF IndInv, TypeOK
  <1>4. cleaner' \in [Cleaner -> CleanerState]
    BY <1>1, <1>3 DEF CleanerState
  <1>5. cleanups' \in [DOMAIN cleanups -> CleanupRow]
    BY <1>1, <1>2, <1>3 DEF CleanupRow, CleanerState
  <1>6. cleanups' \in Seq(CleanupRow)
    BY <1>3, <1>5, RowsByRow
  <1>7. /\ \A j \in DOMAIN cleanups : /\ cleanups'[j].payload = cleanups[j].payload
                                      /\ cleanups'[j].state = cleanups[j].state
                                      /\ cleanups'[j].targets = cleanups[j].targets
                                      /\ j # own => cleanups'[j] = cleanups[j]
        /\ cleanups'[own].removed = cleanups[own].removed \cup {t}
        /\ DOMAIN cleanups' = DOMAIN cleanups
    BY <1>1, <1>2, <1>3 DEF CleanupRow
  <1>8. /\ \A l \in Cleaner : /\ Active(l)' = Active(l) /\ cleaner'[l].row = cleaner[l].row
                              /\ l # k => cleaner'[l] = cleaner[l]
        /\ cleaner'[k].targets = cleaner[k].targets \ {t} /\ cleaner'[k].pc = "arrive"
    BY <1>1, <1>3 DEF Active, CleanerState
  <1>9. TypeOK' /\ Built' /\ Started'
    BY <1>1, <1>4, <1>6, CleanupFrame DEF IndInv, TypeOK
  <1>10. CapsuleIsCommitted' /\ RunningKeepsItsCapsule'
    BY <1>1 DEF IndInv, CapsuleIsCommitted, RunningKeepsItsCapsule, Occupied, Whole
  <1>11. CompleteIsComplete'
    BY <1>2, <1>7 DEF IndInv, CompleteIsComplete
  <1>12. OneCleanupOpen'
    BY <1>7 DEF IndInv, OneCleanupOpen
  <1>13. Removing'
    <2> SUFFICES ASSUME NEW l \in Cleaner, Active(l)'
                 PROVE  /\ lock' = l
                        /\ cleaner'[l].row \in DOMAIN cleanups'
                        /\ cleanups'[cleaner'[l].row].state = "removing"
                        /\ cleaner'[l].targets = cleanups'[cleaner'[l].row].targets \ cleanups'[cleaner'[l].row].removed
                        /\ \A n \in cleaner'[l].targets \cap Name :
                               (\E i \in DOMAIN rollouts' : LatestVerified(n, i)') /\ NoRunNeeds(PayloadOf(n))'
                        /\ cleaner'[l].pc # "arrive" => cleaner'[l].current \in cleaner'[l].targets
      BY DEF Removing
    <2>1. l = k
      BY <1>1, <1>8, InHand
    <2>2. \A n \in cleaner[k].targets \cap Name :
               (\E i \in DOMAIN rollouts' : LatestVerified(n, i)') /\ NoRunNeeds(PayloadOf(n))'
      BY <1>1 DEF IndInv, Removing, LatestVerified, Candidates, NoRunNeeds
    <2>3. lock = k /\ cleaner'[k].row = own
      BY <1>1, <1>8, InHand DEF own
    <2> QED
      BY <1>1, <1>2, <1>7, <1>8, <2>1, <2>2, <2>3
  <1>14. TornIsAccounted'
    <2> SUFFICES ASSUME NEW n \in Name, Occupied(n), ~Whole(n), n \notin tampered
                 PROVE  \/ \E l \in Cleaner : Active(l)' /\ n \in cleaner'[l].targets
                        \/ \E j \in DOMAIN cleanups' :
                               /\ n \in cleanups'[j].targets /\ cleanups'[j].state # "complete"
                               /\ \A l \in Cleaner : Active(l)' => cleaner'[l].row # j
      BY <1>1 DEF TornIsAccounted, Occupied, Whole
    <2>1. n # t
      BY <1>1 DEF Exists
    <2> QED
      BY <1>7, <1>8, <2>1 DEF IndInv, TornIsAccounted
  <1> QED
    BY <1>9, <1>10, <1>11, <1>12, <1>13, <1>14 DEF IndInv

\* However a cleanup ends, the torn capsules it leaves stay on its row, which
\* is complete only when nothing was left.
LEMMA EndingKeeps ==
    ASSUME IndInv, NEW k \in Cleaner, Active(k),
           NEW place \in {"over", "killed"},
           cleaner' = [cleaner EXCEPT ![k] = [pc |-> place, targets |-> {}, current |-> NoName, row |-> 0]],
           lock' \in {lock, Free},
           UNCHANGED <<world, dirs, plans, rollouts, tampered, builder, runner>>,
           NEW row \in CleanupRow,
           cleanups' = [cleanups EXCEPT ![cleaner[k].row] = row],
           row.payload = cleanups[cleaner[k].row].payload, row.targets = cleanups[cleaner[k].row].targets,
           row.removed \subseteq row.targets,
           row.state = "complete" => cleaner[k].targets = {} /\ row.removed = row.targets
    PROVE  IndInv'
  <1> DEFINE own == cleaner[k].row
  <1>1. cleaner \in [Cleaner -> CleanerState] /\ cleanups \in Seq(CleanupRow) /\ cleanups \in [DOMAIN cleanups -> CleanupRow]
    BY LenProperties DEF IndInv, TypeOK
  <1>2. /\ own \in DOMAIN cleanups /\ cleanups[own].state = "removing"
        /\ cleaner[k].targets \subseteq cleanups[own].targets
        /\ \A l \in Cleaner : Active(l) => l = k
    BY InHand
  <1> HIDE DEF own
  <1>3. cleaner' \in [Cleaner -> CleanerState] /\ \A l \in Cleaner : ~Active(l)'
    BY <1>1, <1>2 DEF CleanerState, Active
  <1>4. cleanups' \in [DOMAIN cleanups -> CleanupRow]
    BY <1>1
  <1>5. cleanups' \in Seq(CleanupRow)
    BY <1>1, <1>4, RowsByRow
  <1>6. cleanups'[own] = row /\ \A j \in DOMAIN cleanups : j # own => cleanups'[j] = cleanups[j]
    BY <1>1, <1>2 DEF own
  <1>7. DOMAIN cleanups' = DOMAIN cleanups
    BY <1>4
  <1>8. TypeOK' /\ Built' /\ Started'
    BY <1>3, <1>5, CleanupFrame DEF IndInv, TypeOK
  <1>9. CapsuleIsCommitted' /\ RunningKeepsItsCapsule'
    BY DEF IndInv, CapsuleIsCommitted, RunningKeepsItsCapsule, Occupied, Whole
  <1>10. CompleteIsComplete'
    BY <1>6, <1>7 DEF IndInv, CompleteIsComplete
  <1>11. OneCleanupOpen'
    BY <1>2, <1>6, <1>7 DEF IndInv, OneCleanupOpen, own
  <1>12. Removing'
    BY <1>3 DEF Removing
  <1>13. TornIsAccounted'
    <2> SUFFICES ASSUME NEW n \in Name, Occupied(n), ~Whole(n), n \notin tampered
                 PROVE  \E j \in DOMAIN cleanups' : n \in cleanups'[j].targets /\ cleanups'[j].state # "complete"
      BY <1>3 DEF TornIsAccounted, Occupied, Whole
    <2>1. CASE n \in cleaner[k].targets
      BY <1>2, <1>6, <1>7, <2>1 DEF own
    <2>2. CASE n \notin cleaner[k].targets
      <3>1. PICK j \in DOMAIN cleanups : /\ n \in cleanups[j].targets /\ cleanups[j].state # "complete"
                                         /\ j # own
        BY <1>2, <2>2 DEF IndInv, TornIsAccounted, own
      <3> QED
        BY <1>6, <1>7, <3>1
    <2> QED
      BY <2>1, <2>2
  <1> QED
    BY <1>8, <1>9, <1>10, <1>11, <1>12, <1>13 DEF IndInv

LEMMA EndsKeep ==
    ASSUME IndInv, NEW k \in Cleaner, EndPartial(k) \/ Complete(k) \/ Raise(k) \/ KillCleaner(k)
    PROVE  IndInv'
  <1> DEFINE own == cleaner[k].row
             old == cleanups[own]
  <1>1. Active(k)
    BY DEF EndPartial, Complete, Raise, KillCleaner, Active, IndInv, TypeOK, CleanerState
  <1>2. /\ own \in DOMAIN cleanups /\ old.state = "removing" /\ old \in CleanupRow
        /\ cleaner[k].targets = old.targets \ old.removed /\ old.removed \subseteq old.targets
        /\ cleanups \in [DOMAIN cleanups -> CleanupRow] /\ cleaner \in [Cleaner -> CleanerState]
    BY <1>1, LenProperties DEF IndInv, TypeOK, Removing, CompleteIsComplete
  <1>3. UNCHANGED <<world, dirs, plans, rollouts, tampered, builder, runner>> /\ lock' \in {lock, Free}
    BY DEF EndPartial, Complete, Raise, KillCleaner, index
  <1>4. CASE EndPartial(k)
    <2> DEFINE row == [old EXCEPT !.state = "partial", !.removed = {t \in old.targets : ~Exists(t)}]
    <2>1. row \in CleanupRow /\ row.payload = old.payload /\ row.targets = old.targets /\ row.state = "partial"
          /\ row.removed \subseteq row.targets
      BY <1>2 DEF CleanupRow
    <2>2. cleanups' = [cleanups EXCEPT ![own] = row]
      BY <1>2, <1>4 DEF EndPartial
    <2>3. cleaner' = [cleaner EXCEPT ![k] = [pc |-> "over", targets |-> {}, current |-> NoName, row |-> 0]]
      BY <1>4 DEF EndPartial, Ended
    <2> HIDE DEF row
    <2> QED
      BY <1>1, <1>3, <2>1, <2>2, <2>3, EndingKeeps
  <1>5. CASE Complete(k)
    <2> DEFINE row == [old EXCEPT !.state = "complete"]
    <2>1. row \in CleanupRow /\ row.payload = old.payload /\ row.targets = old.targets /\ row.removed = old.removed
      BY <1>2 DEF CleanupRow
    <2>2. cleanups' = [cleanups EXCEPT ![own] = row]
      BY <1>2, <1>5 DEF Complete
    <2>3. /\ cleaner' = [cleaner EXCEPT ![k] = [pc |-> "over", targets |-> {}, current |-> NoName, row |-> 0]]
          /\ cleaner[k].targets = {}
      BY <1>5 DEF Complete, Ended
    <2>4. row.removed = row.targets
      BY <1>2, <2>1, <2>3
    <2> HIDE DEF row
    <2> QED
      BY <1>1, <1>2, <1>3, <2>1, <2>2, <2>3, <2>4, EndingKeeps
  <1>6. CASE Raise(k) \/ KillCleaner(k)
    <2>1. cleanups' = [cleanups EXCEPT ![own] = old]
      BY <1>2, <1>6 DEF Raise, KillCleaner, index
    <2>2. PICK place \in {"over", "killed"} :
             cleaner' = [cleaner EXCEPT ![k] = [pc |-> place, targets |-> {}, current |-> NoName, row |-> 0]]
      BY <1>2, <1>6 DEF Raise, KillCleaner, Ended, CleanerState
    <2>3. old.state # "complete"
      BY <1>2
    <2> QED
      BY <1>1, <1>2, <1>3, <2>1, <2>2, <2>3, EndingKeeps
  <1> QED
    BY <1>4, <1>5, <1>6

-----------------------------------------------------------------------------
LEMMA StepKeeps == IndInv /\ [Next]_vars => IndInv'
  <1> SUFFICES ASSUME IndInv, [Next]_vars PROVE IndInv'
    OBVIOUS
  <1>1. CASE UNCHANGED vars
    <2>1. TypeOK' /\ Built' /\ RunningKeepsItsCapsule'
      BY <1>1 DEF vars, world, index, IndInv, TypeOK, Built, RunningKeepsItsCapsule, Whole
    <2> QED
      BY <1>1, <2>1, IndexFrame, DirsFrame, RunnerFrame DEF vars, index, IndInv
  <1>2. ASSUME NEW k \in Cleaner, Cleanup(k) PROVE IndInv'
    BY <1>2, BeginCleanupKeeps, ArriveKeeps, RemoveFileKeeps, RecordRemovedKeeps, EndsKeep DEF Cleanup
  <1>3. CASE People
    BY <1>3, WorldKeeps, ReconcileKeeps, TamperKeeps, ChangeEvidenceKeeps DEF People
  <1> QED
    BY <1>1, <1>2, <1>3, FreezeKeeps, WorldKeeps, RolloutKeeps DEF Next

LEMMA Invariance == Spec => []IndInv
  BY Initially, StepKeeps, PTL DEF Spec

-----------------------------------------------------------------------------
\* Types are kept by every command.
THEOREM TypeCorrect == Spec => []TypeOK
  BY Invariance, PTL DEF IndInv

\* A running rollout has its capsule whole, a torn capsule is on record and an
\* installed one holds its commit's bytes (install_capsule, start_rollout).
THEOREM CapsulesSound == Spec => []CapsulesAreSound
  <1>1. IndInv => CapsulesAreSound
    BY DEF IndInv, CapsulesAreSound, TornIsAccounted, TornCapsuleIsOnRecord, Removing, Active
  <1> QED
    BY <1>1, Invariance, PTL

\* A cleanup that is open blocks every other one of its payload, and one that
\* is recorded as complete has removed all its targets (_cleanup_report).
THEOREM CleanupsAreOrderly == Spec => [](OneCleanupOpen /\ CompleteIsComplete)
  BY Invariance, PTL DEF IndInv

\* Tools take a capsule apart only after its own latest production run was
\* verified and while no run of the payload is open (cleanup_completed).
THEOREM RemovalProven == Spec => RemovalIsProven
  <1>1. IndInv /\ [Next]_vars => [ProvenRemoval]_vars
    <2> SUFFICES ASSUME IndInv, Next, NEW n \in Name, Damaged(n)
                 PROVE  (\E i \in DOMAIN rollouts : LatestVerified(n, i)) /\ NoRunNeeds(PayloadOf(n))
      BY DEF ProvenRemoval
    <2>1. PICK k \in Cleaner : RemoveFile(k)
      <3>1. dirs'[n] # dirs[n]
        BY DEF Damaged, Whole
      <3>2. ASSUME NEW m \in Name, Tamper(m) PROVE FALSE
        BY <3>1, <3>2 DEF Tamper, Damaged, IndInv, TypeOK
      <3>3. ASSUME NEW b \in Builder, Freeze(b) PROVE FALSE
        <4>1. Install(b)
          BY <3>1, <3>3 DEF Freeze, ReadInputs, Make, Reuse, OpenStage, WriteStage, StopFreeze
        <4>2. dirs' = [dirs EXCEPT ![builder[b].name] = "whole"]
          BY <3>1, <4>1 DEF Install
        <4> QED
          BY <4>2 DEF Damaged, Whole, IndInv, TypeOK
      <3>4. ASSUME NEW r \in Runner, Rollout(r) PROVE FALSE
        BY <3>1, <3>4 DEF Rollout, Open, StartRollout, Attempt, FinishVerified, FinishOtherwise, Finish, StopRollout
      <3>5. ASSUME NEW k \in Cleaner, Cleanup(k) PROVE RemoveFile(k)
        BY <3>1, <3>5 DEF Cleanup, BeginCleanup, Arrive, EndPartial, RecordRemoved, Complete, Raise, KillCleaner
      <3> QED
        BY <3>1, <3>2, <3>3, <3>4, <3>5
        DEF Next, People, Edit, Checkout, ChangeEngine, Reconcile, ChangeEvidence, Prepare
    <2>2. n = Current(k)
      BY <2>1 DEF RemoveFile, Damaged, Whole, IndInv, TypeOK
    <2>3. Active(k) /\ n \in cleaner[k].targets
      BY <2>1, <2>2 DEF RemoveFile, Active, Current, IndInv, Removing
    <2> QED
      BY <2>3 DEF IndInv, Removing
  <1> QED
    BY <1>1, Invariance, PTL DEF Spec, RemovalIsProven

=============================================================================
