------------------------ MODULE FeatureRolloutProofs ------------------------
(***************************************************************************)
(* Proofs about FeatureRollout for any runs, capsules, step lists, targets *)
(* and environments.  First its sessions: no two database operations       *)
(* overlap on a target, a rollout starts only on quiet targets, and a      *)
(* write in progress is on record.  Then its records: the index stays      *)
(* valid, a completion proof and a promotion are backed, and a target in   *)
(* doubt is frozen.                                                        *)
(*                                                                         *)
(* The argument of the first part: an operation that may still execute     *)
(* belongs to a run that nobody recovers, because a recovery is prepared   *)
(* only once the operation it recovers has ended; so that run occupies its *)
(* targets, through its unresolved attempt or through its row, and no      *)
(* other rollout is active on them.  Of the second: a run writes the       *)
(* records of the step it is at and of no other, a receipt follows the     *)
(* verification of its checkpoint, and a run that somebody recovers has    *)
(* left its steps, so that what a recovery once found of it stays so.      *)
(***************************************************************************)
EXTENDS FeatureRollout, TLAPS

\* Processes that will execute no further step.
Post == {"failing", "interrupted", "ended", "crashed"}

\* The row of a run follows its process.
RowFollowsProcess ==
    \A r \in Run :
      /\ pc[r] \in {"idle", "prepared", "confirmed"} => roll[r] = "none"
      /\ pc[r] \in Active \cup {"closing", "proved", "failing", "interrupted"}
           => roll[r] = "running"

\* Inside the lease, and what the step is that is executed there.
LeaseIsHeld ==
    \A r \in Run :
      /\ pc[r] \in Holding => lease[Here(r)] = r /\ HereKind(r) \in LeasedKind
      /\ pc[r] \in {"recorded", "ambiguous", "nowrite", "checking"}
           => HereKind(r) = "feature-migrate"
      /\ pc[r] = "recorded" => attempt[Mine(r)] = "attempting"

\* An uncertain attempt is the last one of its run.
UncertainIsLast ==
    \A a \in Attempt : attempt[a] \in Uncertain =>
      /\ a[2] = at[a[1]]
      /\ KindAt(a[1], a[2]) = "feature-migrate"
      /\ pc[a[1]] \in {"recorded", "applying", "checking", "ambiguous", "nowrite"} \cup Post

\* An operation that may still execute, and how its run shows it.
LiveIsShown ==
    \A r \in live :
      /\ pc[r] \in {"applying", "ambiguous"} \cup Post
      /\ HereKind(r) \in LeasedKind
      /\ HereKind(r) = "feature-migrate" => attempt[Mine(r)] \in Uncertain
      /\ HereKind(r) = "sql-script" =>
           /\ roll[r] \in {"running", "unknown"}
           /\ pc[r] = "failing" => db[r] = "unknown"

\* A run is recovered only after its operation has ended and its process
\* has left its steps.
RecoveredIsOver ==
    \A r \in Run :
      /\ pc[r] = "idle" => recovers[r] = NoAttempt
      /\ recovers[r] # NoAttempt =>
           recovers[r][1] \notin live /\ pc[recovers[r][1]] \in Post

\* What the index says of a recovery is what its plan says.
LinksFollowPlans ==
    /\ \A l \in recoveryLink : recovers[l[2][1]] = l[1]
    /\ \A a \in Attempt : recoveredBy[a] # NoAttempt => recovers[recoveredBy[a][1]] = a

\* Active rollouts have disjoint targets ...
ActiveAreDisjoint ==
    \A q, r \in Run :
      q # r /\ pc[q] \in Active /\ pc[r] \in Active => TargetScopes(q) \cap TargetScopes(r) = {}

\* ... on which nobody else's operation executes.
ActiveIsAlone ==
    \A r \in Run : \A q \in live :
      q # r /\ pc[r] \in Active => Here(q) \notin TargetScopes(r)

IndInv ==
    /\ TypeOK
    /\ RowFollowsProcess
    /\ LeaseIsHeld
    /\ UncertainIsLast
    /\ LiveIsShown
    /\ RecoveredIsOver
    /\ LinksFollowPlans
    /\ ActiveAreDisjoint
    /\ ActiveIsAlone
    /\ NoOverlappingWriters

-----------------------------------------------------------------------------
(* Type correctness *)

\* A step of run r.
StepOf(r) ==
    \/ \E a \in Attempt \cup {NoAttempt} : Prepare(r, a)
    \/ Confirm(r)
    \/ Advance(r)
    \/ Interrupt(r) \/ Crash(r) \/ OperationEnds(r)

\* The initial state has the right types.
LEMMA TypeInit == Init => TypeOK
<1> SUFFICES ASSUME Init PROVE TypeOK
  OBVIOUS
<1>1. at \in [Run -> Step] /\ \A r \in Run : at[r] \in Steps(r)
  BY ConstantsAssumption DEF ConstantsAssumption, Init, Step, Steps
<1>2. /\ attempt \in [Attempt -> Uncertain \cup {"none", "not-started", "verified"}]
      /\ recoveredBy \in [Attempt -> Attempt \cup {NoAttempt}]
  BY DEF Init
<1>3. pc \in [Run -> PC]
  BY DEF Init, PC
<1> QED
  BY <1>1, <1>2, <1>3 DEF Init, TypeOK

\* A step that ends its run's loop keeps the types.
LEMMA StepEndsTyped ==
  ASSUME TypeOK, NEW r \in Run,
         NEW o \in {"not-started", "verified", "failed", "unknown"},
         NEW d \in {"not-started", "verified", "unknown"},
         StepEnds(r, o, d), UNCHANGED <<index, files, live>>
  PROVE  TypeOK'
  BY DEF TypeOK, StepEnds, Released, Goto, PC, Updating, index, files, Steps

\* Every step keeps the types.
LEMMA TypeStep ==
  ASSUME TypeOK, NEW r \in Run, StepOf(r)
  PROVE  TypeOK'
<1> USE ConstantsAssumption
    DEF TypeOK, Attempt, Step, Steps, PC, Active, Holding, Updating, Uncertain, Goto,
        process, index, files, Finish
<1>1. CASE Confirm(r)
  BY <1>1 DEF Confirm
<1>2. CASE StartRollout(r)
  BY <1>2 DEF StartRollout
<1>3. CASE NotStarted(r)
  BY <1>3 DEF NotStarted
<1>4. CASE AcquireLease(r)
  BY <1>4 DEF AcquireLease
<1>5. CASE StepRefused(r)
  BY <1>5 DEF StepRefused, StepEnds, Released
<1>6. CASE StepNotReached(r)
  BY <1>6 DEF StepNotReached, StepEnds, Released
<1>7. CASE RecordAttempt(r)
  BY <1>7 DEF RecordAttempt
<1>8. CASE SkipWrite(r)
  BY <1>8 DEF SkipWrite
<1>9. CASE StartSession(r)
  BY <1>9 DEF StartSession
<1>10. CASE SessionSucceeds(r)
  BY <1>10 DEF SessionSucceeds
<1>11. CASE SessionFails(r)
  BY <1>11 DEF SessionFails
<1>12. CASE SessionRefused(r)
  BY <1>12 DEF SessionRefused
<1>13. CASE ChecksFail(r)
  <2>1. CASE Wrote(r)
    BY <1>13, <2>1 DEF ChecksFail
  <2>2. CASE ~Wrote(r)
    <3>1. StepEnds(r, "failed", "not-started") /\ UNCHANGED <<index, files, live>>
      BY <1>13, <2>2 DEF ChecksFail
    <3> QED
      BY <3>1, StepEndsTyped
  <2> QED
    BY <2>1, <2>2
<1>14. CASE RecordVerification(r)
  <2>1. Mine(r) \in Attempt /\ RecoveryOf(r, at[r]) \in Attempt \cup {NoAttempt}
    BY DEF Mine, RecoveryOf
  <2>2. /\ attempt' \in [Attempt -> Uncertain \cup {"none", "not-started", "verified"}]
        /\ recoveredBy' \in [Attempt -> Attempt \cup {NoAttempt}]
    BY <1>14, <2>1 DEF RecordVerification
  <2>3. verification' \subseteq Attempt /\ recoveryLink' \subseteq Attempt \X Attempt
    BY <1>14, <2>1 DEF RecordVerification
  <2> QED
    BY <1>14, <2>2, <2>3 DEF RecordVerification
<1>15. CASE VerificationNotRecorded(r)
  <2>1. CASE Wrote(r)
    BY <1>15, <2>1 DEF VerificationNotRecorded
  <2>2. CASE ~Wrote(r)
    <3>1. StepEnds(r, "failed", "verified") /\ UNCHANGED <<index, files, live>>
      BY <1>15, <2>2 DEF VerificationNotRecorded
    <3> QED
      BY <3>1, StepEndsTyped
  <2> QED
    BY <2>1, <2>2
<1>16. CASE FinishAttempt(r)
  <2>1. attempt' \in [Attempt -> Uncertain \cup {"none", "not-started", "verified"}]
    BY <1>16 DEF FinishAttempt
  <2> QED
    BY <1>16, <2>1 DEF FinishAttempt, StepEnds, Released
<1>17. CASE AttemptNotFinished(r)
  BY <1>17 DEF AttemptNotFinished, StepEnds, Released
<1>18. CASE AllowAuxiliary(r)
  BY <1>18 DEF AllowAuxiliary
<1>19. CASE AuxiliaryFails(r)
  BY <1>19 DEF AuxiliaryFails, StepEnds, Released
<1>20. CASE OtherStep(r)
  <2>1. CASE StepEnds(r, "failed", db[r])
    BY <1>20, <2>1 DEF OtherStep, StepEnds, Released
  <2>2. CASE Goto(r, "receipt") /\ UNCHANGED <<at, recovers, bound, outcome, db, lease>>
    BY <1>20, <2>2 DEF OtherStep
  <2> QED
    BY <1>20, <2>1, <2>2 DEF OtherStep
<1>21. CASE ReleaseLease(r)
  BY <1>21 DEF ReleaseLease, Released
<1>22. CASE InstallReceipt(r)
  <2>1. receipt' \subseteq Capsule \X Environment \X Step
    BY <1>22 DEF InstallReceipt, StepReceipt
  <2>2. CASE /\ at[r] < Length[CapsuleOf[r]]
             /\ at' = [at EXCEPT ![r] = @ + 1]
             /\ Goto(r, "step")
             /\ UNCHANGED <<recovers, bound, outcome, db, lease>>
    <3>1. at[r] + 1 \in Step /\ at[r] + 1 \in Steps(r) /\ Steps(r)' = Steps(r)
      BY <2>2 DEF ConstantsAssumption
    <3>2. at' \in [Run -> Step] /\ \A q \in Run : at'[q] \in 1..Length[CapsuleOf[q]]
      BY <2>2, <3>1
    <3> QED
      BY <1>22, <2>1, <2>2, <3>2 DEF InstallReceipt
  <2>3. CASE /\ outcome' = [outcome EXCEPT ![r] = "verified"]
             /\ Goto(r, "closing")
             /\ UNCHANGED <<at, recovers, bound, db, lease>>
    BY <1>22, <2>1, <2>3 DEF InstallReceipt
  <2>4. CASE StepEnds(r, "verified", "verified")
    BY <1>22, <2>1, <2>4 DEF InstallReceipt, StepEnds, Released
  <2> QED
    BY <1>22, <2>2, <2>3, <2>4 DEF InstallReceipt
<1>23. CASE ReceiptNotInstalled(r)
  BY <1>23 DEF ReceiptNotInstalled, StepEnds, Released
<1>24. CASE PublishProof(r)
  BY <1>24 DEF PublishProof
<1>25. CASE NotProved(r)
  BY <1>25 DEF NotProved
<1>26. CASE FinishVerified(r)
  BY <1>26 DEF FinishVerified
<1>27. CASE FinishFailed(r)
  BY <1>27 DEF FinishFailed
<1>28. CASE FinishInterrupted(r)
  BY <1>28 DEF FinishInterrupted
<1>29. CASE FinishLost(r)
  BY <1>29 DEF FinishLost
<1>30. CASE Interrupt(r)
  <2>1. outcome[r] \in {"not-started", "verified", "failed", "unknown"}
    OBVIOUS
  <2>2. PICK o \in {"not-started", "verified", "failed", "unknown"} :
               outcome' = [outcome EXCEPT ![r] = o]
    BY <1>30, <2>1 DEF Interrupt
  <2> QED
    BY <1>30, <2>2 DEF Interrupt, Released
<1>31. CASE Crash(r)
  BY <1>31 DEF Crash, Released
<1>32. CASE OperationEnds(r)
  BY <1>32 DEF OperationEnds
<1>33. ASSUME NEW a \in Attempt \cup {NoAttempt}, Prepare(r, a)
      PROVE  TypeOK'
  <2>1. /\ recovers' \in [Run -> Attempt \cup {NoAttempt}]
        /\ bound' \in [Run -> Uncertain \cup {"none"}]
    <3>1. CASE a = NoAttempt
      BY <1>33, <3>1 DEF Prepare
    <3>2. CASE a # NoAttempt
      <4>1. a \in Attempt /\ attempt[a] \in Uncertain
        BY <1>33, <3>2 DEF Prepare, RecoveryPlanValid, Unresolved
      <4>2. /\ recovers' = [recovers EXCEPT ![r] = a]
            /\ bound' = [bound EXCEPT ![r] = attempt[a]]
        BY <1>33, <3>2 DEF Prepare
      <4> HIDE DEF Attempt
      <4> QED
        BY <4>1, <4>2
    <3> QED
      BY <3>1, <3>2
  <2> QED
    BY <1>33, <2>1 DEF Prepare
<1> QED
  BY <1>1, <1>2, <1>3, <1>4, <1>5, <1>6, <1>7, <1>8, <1>9, <1>10, <1>11,
     <1>12, <1>13, <1>14, <1>15, <1>16, <1>17, <1>18, <1>19, <1>20,
     <1>21, <1>22, <1>23, <1>24, <1>25, <1>26, <1>27, <1>28, <1>29,
     <1>30, <1>31, <1>32, <1>33
  DEF StepOf, Advance

-----------------------------------------------------------------------------
(* Each process, its row and its attempts *)

LEMMA NoRunIsNoRun == NoRun \notin Run
  BY ConstantsAssumption DEF ConstantsAssumption

\* Every step preserves what is said of single processes.  Two steps need an
\* argument: a recovery finds the lease free, so the process it recovers is
\* outside its lease and therefore over; and a process advances to its next
\* step only when it has no uncertain attempt.
LEMMA LocalStep ==
  ASSUME IndInv, NEW r \in Run, StepOf(r)
  PROVE  /\ RowFollowsProcess' /\ LeaseIsHeld' /\ UncertainIsLast'
         /\ LiveIsShown' /\ RecoveredIsOver' /\ LinksFollowPlans'
<1> DEFINE Goal ==
         /\ RowFollowsProcess /\ LeaseIsHeld /\ UncertainIsLast
         /\ LiveIsShown /\ RecoveredIsOver /\ LinksFollowPlans
<1> SUFFICES Goal'
  OBVIOUS
<1> TypeOK /\ TypeOK' /\ Goal
  BY TypeStep DEF IndInv
<1>a. \A q \in Run : Here(q) \in Scope
  BY ConstantsAssumption DEF ConstantsAssumption, Here, ScopeAt, Step, Environment,
     TypeOK
<1>b. \A q \in Run \ {r} : pc[q] \in Holding => Released(r)[Here(q)] = q
  BY <1>a DEF Released, LeaseIsHeld
<1> USE DEF TypeOK, RowFollowsProcess, LeaseIsHeld, UncertainIsLast, LiveIsShown,
        RecoveredIsOver, LinksFollowPlans,
        Attempt, Active, Holding, Uncertain, Post, Goto, Here, HereKind, Mine,
        process, index, files, Finish, StepEnds, LeasedKind
<1>1. CASE Confirm(r)
  BY <1>1, <1>b DEF Confirm
<1>2. CASE StartRollout(r)
  BY <1>2, <1>b DEF StartRollout
<1>3. CASE NotStarted(r)
  BY <1>3, <1>b DEF NotStarted
<1>4. CASE AcquireLease(r)
  BY <1>4, <1>a, NoRunIsNoRun DEF AcquireLease
<1>5. CASE StepRefused(r)
  BY <1>5, <1>b DEF StepRefused
<1>6. CASE StepNotReached(r)
  BY <1>6, <1>b DEF StepNotReached
<1>7. CASE RecordAttempt(r)
  BY <1>7, <1>b DEF RecordAttempt
<1>8. CASE SkipWrite(r)
  BY <1>8, <1>b DEF SkipWrite
<1>9. CASE StartSession(r)
  BY <1>9, <1>b DEF StartSession
<1>10. CASE SessionSucceeds(r)
  BY <1>10, <1>b DEF SessionSucceeds
<1>11. CASE SessionFails(r)
  BY <1>11, <1>b DEF SessionFails
<1>12. CASE SessionRefused(r)
  BY <1>12, <1>b DEF SessionRefused
<1>13. CASE ChecksFail(r)
  BY <1>13, <1>b DEF ChecksFail
<1>14. CASE RecordVerification(r)
  <2>1. RowFollowsProcess' /\ LeaseIsHeld'
    BY <1>14 DEF RecordVerification
  <2>2. \A a \in Attempt : /\ attempt'[a] \in Uncertain => a[1] # r
                           /\ a[1] # r => attempt'[a] = attempt[a]
    <3>1. \A a \in Attempt : a = <<a[1], a[2]>>
      OBVIOUS
    <3>2. \A a \in Attempt : attempt[a] \in Uncertain /\ a[1] = r => a = Mine(r)
      BY <3>1
    <3> QED
      BY <1>14, <3>1, <3>2 DEF RecordVerification, Wrote
  <2>5. UncertainIsLast' /\ LiveIsShown'
    BY <1>14, <2>2 DEF RecordVerification
  <2>3. RecoveredIsOver'
    BY <1>14 DEF RecordVerification
  <2>4. LinksFollowPlans'
    BY <1>14 DEF RecordVerification, RecoveryOf
  <2> QED
    BY <2>1, <2>5, <2>3, <2>4
<1>15. CASE VerificationNotRecorded(r)
  BY <1>15, <1>b DEF VerificationNotRecorded
<1>16. CASE FinishAttempt(r)
  BY <1>16, <1>b DEF FinishAttempt
<1>17. CASE AttemptNotFinished(r)
  BY <1>17, <1>b DEF AttemptNotFinished
<1>18. CASE AllowAuxiliary(r)
  BY <1>18, <1>b DEF AllowAuxiliary
<1>19. CASE AuxiliaryFails(r)
  BY <1>19, <1>b DEF AuxiliaryFails
<1>20. CASE OtherStep(r)
  <2>1. CASE StepEnds(r, "failed", db[r])
    BY <1>20, <1>b, <2>1 DEF OtherStep
  <2>2. CASE Goto(r, "receipt") /\ UNCHANGED <<at, recovers, bound, outcome, db, lease>>
    BY <1>20, <2>2 DEF OtherStep
  <2> QED
    BY <1>20, <2>1, <2>2 DEF OtherStep
<1>21. CASE ReleaseLease(r)
  BY <1>21, <1>b DEF ReleaseLease
<1>22. CASE InstallReceipt(r)
  <2>1. CASE /\ at' = [at EXCEPT ![r] = @ + 1] /\ Goto(r, "step")
             /\ UNCHANGED <<recovers, bound, outcome, db, lease>>
    <3>3. pc[r] = "receipt" /\ UNCHANGED <<attempt, recoveredBy, recoveryLink, roll, live>>
      BY <1>22 DEF InstallReceipt
    <3>4. \A a \in Attempt : attempt[a] \in Uncertain => pc[a[1]] # "receipt"
      OBVIOUS
    <3>5. r \notin live
      BY <3>3
    <3>1. \A a \in Attempt : attempt[a] \in Uncertain => a[1] # r
      BY <3>3, <3>4
    <3>2. \A q \in Run \ {r} : at'[q] = at[q]
      BY <2>1
    <3> QED
      BY <2>1, <3>1, <3>2, <3>3, <3>5
  <2>2. CASE UNCHANGED <<at, recovers, bound, db, lease>> /\ Goto(r, "closing")
    BY <1>22, <2>2 DEF InstallReceipt
  <2>3. CASE StepEnds(r, "verified", "verified")
    BY <1>22, <1>b, <2>3 DEF InstallReceipt
  <2> QED
    BY <1>22, <2>1, <2>2, <2>3 DEF InstallReceipt
<1>23. CASE ReceiptNotInstalled(r)
  BY <1>23, <1>b DEF ReceiptNotInstalled
<1>24. CASE PublishProof(r)
  BY <1>24, <1>b DEF PublishProof
<1>25. CASE NotProved(r)
  BY <1>25, <1>b DEF NotProved
<1>26. CASE FinishVerified(r)
  BY <1>26, <1>b DEF FinishVerified
<1>27. CASE FinishFailed(r)
  BY <1>27, <1>b DEF FinishFailed
<1>28. CASE FinishInterrupted(r)
  BY <1>28, <1>b DEF FinishInterrupted
<1>29. CASE FinishLost(r)
  BY <1>29, <1>b DEF FinishLost
<1>30. CASE Interrupt(r)
  BY <1>30, <1>b DEF Interrupt
<1>31. CASE Crash(r)
  BY <1>31, <1>b DEF Crash
<1>32. CASE OperationEnds(r)
  BY <1>32, <1>b DEF OperationEnds
<1>33. ASSUME NEW a \in Attempt \cup {NoAttempt}, Prepare(r, a)
      PROVE  Goal'
  <2>1. CASE a = NoAttempt
    BY <1>33, <2>1 DEF Prepare
  <2>2. CASE a # NoAttempt
    <3>1. /\ a[1] \in Run /\ a[1] \notin live
          /\ a[2] = at[a[1]] /\ a = <<a[1], at[a[1]]>>
          /\ attempt[a] \in Uncertain
      BY <1>33, <2>2 DEF Prepare, RecoveryPlanValid, Unresolved
    <3>2. pc[a[1]] \notin Holding
      BY <1>33, <2>2, <3>1, NoRunIsNoRun DEF Prepare
    <3>3. pc[a[1]] \in Post
      BY <3>1, <3>2
    <3>4. /\ recovers' = [recovers EXCEPT ![r] = a]
          /\ pc' = [pc EXCEPT ![r] = "prepared"]
          /\ pc[r] = "idle"
          /\ UNCHANGED <<at, db, attempt, recoveredBy, recoveryLink, roll, lease, live>>
      BY <1>33, <2>2 DEF Prepare
    <3>5. RecoveredIsOver'
      BY <3>1, <3>3, <3>4
    <3>6. LinksFollowPlans'
      BY <3>4, ConstantsAssumption DEF ConstantsAssumption
    <3>7. RowFollowsProcess' /\ LeaseIsHeld' /\ UncertainIsLast' /\ LiveIsShown'
      BY <3>4
    <3> QED
      BY <3>5, <3>6, <3>7
  <2> QED
    BY <2>1, <2>2
<1> QED
  BY <1>1, <1>2, <1>3, <1>4, <1>5, <1>6, <1>7, <1>8, <1>9, <1>10, <1>11,
     <1>12, <1>13, <1>14, <1>15, <1>16, <1>17, <1>18, <1>19, <1>20,
     <1>21, <1>22, <1>23, <1>24, <1>25, <1>26, <1>27, <1>28, <1>29,
     <1>30, <1>31, <1>32, <1>33
  DEF StepOf, Advance

-----------------------------------------------------------------------------
(* Nobody shares a target with an active rollout *)

\* A run that counts as retired is over: someone was prepared to recover it.
LEMMA RetiredIsOver ==
  ASSUME IndInv, NEW q \in Run, NEW r \in Run, Retired(q, r)
  PROVE  q \notin live /\ pc[q] \in Post
<1>1. CASE Reconciled(q, CapsuleOf[r])
  <2>1. PICK a \in {q} \X Step : HasRecoveryVerification(a)
    BY <1>1 DEF Reconciled, UncertainOf
  <2>2. PICK v \in verification : <<a, v>> \in recoveryLink
    BY <2>1 DEF HasRecoveryVerification
  <2>3. recovers[v[1]] = a /\ v[1] \in Run /\ a[1] = q /\ a \in Attempt
    BY <2>2 DEF IndInv, TypeOK, LinksFollowPlans, Attempt
  <2> QED
    BY <2>3, ConstantsAssumption
    DEF IndInv, RecoveredIsOver, ConstantsAssumption, Attempt
<1>2. CASE RecoveryParent(q, CapsuleOf[r], recovers[r])
  BY <1>2, ConstantsAssumption
  DEF RecoveryParent, IndInv, RecoveredIsOver, ConstantsAssumption
<1> QED
  BY <1>1, <1>2 DEF Retired

\* The attempt of a checkpoint whose operation executes still occupies its
\* target, and nobody is prepared to recover it.
LEMMA LiveIsUnresolved ==
  ASSUME IndInv, NEW q \in live, HereKind(q) = "feature-migrate"
  PROVE  Unresolved(Mine(q)) /\ \A r \in Run : recovers[r] # Mine(q)
<1>1. q \in Run /\ Mine(q) \in Attempt /\ Mine(q)[1] = q /\ Mine(q) # NoAttempt
  BY ConstantsAssumption DEF IndInv, TypeOK, Mine, Attempt, ConstantsAssumption
<1>2. \A r \in Run : recovers[r] # Mine(q)
  BY <1>1 DEF IndInv, RecoveredIsOver
<1>3. recoveredBy[Mine(q)] = NoAttempt
  BY <1>1, <1>2 DEF IndInv, LinksFollowPlans, TypeOK, Attempt
<1>4. \A b \in Attempt : RecoveryOf(b[1], b[2]) # Mine(q)
  BY <1>1, <1>2 DEF RecoveryOf, Attempt
<1>5. \A v \in verification : <<Mine(q), v>> \notin recoveryLink
  BY <1>2 DEF IndInv, LinksFollowPlans, TypeOK, Attempt
<1> QED
  BY <1>1, <1>2, <1>3, <1>4, <1>5 DEF Unresolved, IndInv, LiveIsShown

\* The scope of a leased step is one of the targets of its rollout.
LEMMA HereIsATarget ==
  ASSUME TypeOK, NEW q \in Run, HereKind(q) \in LeasedKind
  PROVE  Here(q) \in TargetScopes(q)
  BY DEF TypeOK, Here, HereKind, TargetScopes

\* start_rollout finds no operation executing on its targets and no active
\* rollout that shares one.
LEMMA StartIsAlone ==
  ASSUME IndInv, NEW r \in Run, StartAllowed(r), NEW q \in Run \ {r}
  PROVE  /\ q \in live => Here(q) \notin TargetScopes(r)
         /\ pc[q] \in Active => TargetScopes(q) \cap TargetScopes(r) = {}
<1>1. ASSUME roll[q] \in {"running", "unknown"}, TargetScopes(q) \cap TargetScopes(r) # {}
      PROVE  q \notin live /\ pc[q] \in Post
  BY <1>1, RetiredIsOver DEF StartAllowed
<1>2. ASSUME q \in live PROVE Here(q) \notin TargetScopes(r)
  <2>1. CASE HereKind(q) = "feature-migrate"
    <3>1. Unresolved(Mine(q)) /\ Mine(q) # recovers[r] /\ Mine(q) \in Attempt
      BY <1>2, <2>1, LiveIsUnresolved DEF IndInv, TypeOK, Mine, Attempt
    <3> QED
      BY <3>1 DEF StartAllowed, Mine, Here
  <2>2. CASE HereKind(q) = "sql-script"
    <3>1. roll[q] \in {"running", "unknown"}
      BY <1>2, <2>2 DEF IndInv, LiveIsShown
    <3>2. Here(q) \in TargetScopes(q)
      BY <2>2, HereIsATarget DEF IndInv, LeasedKind
    <3> QED
      BY <1>1, <1>2, <3>1, <3>2
  <2> QED
    BY <1>2, <2>1, <2>2 DEF IndInv, LiveIsShown, LeasedKind
<1>3. ASSUME pc[q] \in Active PROVE TargetScopes(q) \cap TargetScopes(r) = {}
  <2>1. roll[q] = "running" /\ pc[q] \notin Post
    BY <1>3 DEF IndInv, RowFollowsProcess, Active, Holding, Post
  <2> QED
    BY <1>1, <2>1
<1> QED
  BY <1>2, <1>3

\* Only start_rollout makes a rollout active, and only the two steps that
\* begin a session add an operation.
LEMMA FewStepsGoFurther ==
  ASSUME TypeOK, LiveIsShown, RowFollowsProcess, NEW r \in Run, StepOf(r),
         ~StartRollout(r), ~StartSession(r), ~AllowAuxiliary(r)
  PROVE  /\ live' \subseteq live
         /\ \A q \in Run : roll[q] = "none" => roll'[q] = "none"
         /\ \A q \in Run : pc'[q] \in Active => pc[q] \in Active
         /\ \A q \in live : at'[q] = at[q]
<1> USE DEF TypeOK, LiveIsShown, RowFollowsProcess, Active, Holding, Post, Goto,
        process, index, files, StepEnds, Finish
<1> DEFINE Frame ==
         /\ live' \subseteq live
         /\ \A q \in Run : roll[q] = "none" => roll'[q] = "none"
         /\ \A q \in Run : pc'[q] \in Active => pc[q] \in Active
         /\ \A q \in live : at'[q] = at[q]
<1> SUFFICES Frame
  OBVIOUS
<1>1. ASSUME NEW a \in Attempt \cup {NoAttempt}, Prepare(r, a) PROVE Frame
  BY <1>1 DEF Prepare
<1>2. CASE \/ Confirm(r) \/ NotStarted(r) \/ AcquireLease(r)
           \/ StepRefused(r) \/ StepNotReached(r)
  BY <1>2 DEF Confirm, NotStarted, AcquireLease, StepRefused, StepNotReached
<1>3. CASE \/ RecordAttempt(r) \/ SkipWrite(r) \/ SessionSucceeds(r)
           \/ SessionFails(r) \/ SessionRefused(r)
  BY <1>3 DEF RecordAttempt, SkipWrite, SessionSucceeds, SessionFails, SessionRefused
<1>4. CASE \/ ChecksFail(r) \/ RecordVerification(r) \/ VerificationNotRecorded(r)
           \/ FinishAttempt(r) \/ AttemptNotFinished(r)
  BY <1>4 DEF ChecksFail, RecordVerification, VerificationNotRecorded,
     FinishAttempt, AttemptNotFinished
<1>5. CASE \/ AuxiliaryFails(r) \/ OtherStep(r) \/ ReleaseLease(r)
           \/ InstallReceipt(r) \/ ReceiptNotInstalled(r)
  BY <1>5 DEF AuxiliaryFails, OtherStep, ReleaseLease, InstallReceipt,
     ReceiptNotInstalled
<1>6. CASE \/ PublishProof(r) \/ NotProved(r) \/ FinishVerified(r)
           \/ FinishFailed(r) \/ FinishInterrupted(r) \/ FinishLost(r)
  BY <1>6 DEF PublishProof, NotProved, FinishVerified, FinishFailed,
     FinishInterrupted, FinishLost
<1>7. CASE Interrupt(r) \/ Crash(r) \/ OperationEnds(r)
  BY <1>7 DEF Interrupt, Crash, OperationEnds
<1> HIDE DEF Frame, TypeOK, LiveIsShown, RowFollowsProcess, Active, Holding, Post,
             Goto, process, index, files, StepEnds, Finish
<1> QED
  BY <1>1, <1>2, <1>3, <1>4, <1>5, <1>6, <1>7 DEF StepOf, Advance

\* Every step preserves the three facts about pairs of rollouts.
LEMMA GlobalStep ==
  ASSUME IndInv, NEW r \in Run, StepOf(r)
  PROVE  ActiveAreDisjoint' /\ ActiveIsAlone' /\ NoOverlappingWriters'
<1>1. TypeOK /\ LiveIsShown /\ RowFollowsProcess /\ ActiveAreDisjoint /\ ActiveIsAlone /\ NoOverlappingWriters
  BY DEF IndInv
<1>2. CASE StartRollout(r)
  <2>1. /\ pc' = [pc EXCEPT ![r] = "step"]
        /\ StartAllowed(r)
        /\ UNCHANGED <<at, live>>
    BY <1>2 DEF StartRollout, Goto
  <2>2. \A q \in Run : Here(q)' = Here(q)
    BY <2>1 DEF Here
  <2>3. \A q \in Run \ {r} :
          /\ q \in live => Here(q) \notin TargetScopes(r)
          /\ pc[q] \in Active => TargetScopes(q) \cap TargetScopes(r) = {}
    BY <2>1, StartIsAlone
  <2>4. \A q \in Run \ {r} : pc'[q] = pc[q]
    BY <2>1, <1>1 DEF TypeOK
  <2>5. ActiveAreDisjoint'
    BY <1>1, <2>3, <2>4 DEF ActiveAreDisjoint
  <2>6. ActiveIsAlone'
    BY <1>1, <2>1, <2>2, <2>3, <2>4 DEF ActiveIsAlone, TypeOK
  <2>7. NoOverlappingWriters'
    BY <1>1, <2>1, <2>2 DEF NoOverlappingWriters, TypeOK
  <2> QED
    BY <2>5, <2>6, <2>7
<1>3. CASE StartSession(r) \/ AllowAuxiliary(r)
  <2>1. /\ live' = live \cup {r}
        /\ pc' = [pc EXCEPT ![r] = "applying"]
        /\ UNCHANGED at
        /\ pc[r] \in Active
    BY <1>3 DEF StartSession, AllowAuxiliary, Goto, Active, Holding
  <2>2. \A q \in Run : Here(q)' = Here(q)
    BY <2>1 DEF Here
  <2>3. Here(r) \in TargetScopes(r)
    BY <1>1, <1>3, HereIsATarget
    DEF StartSession, AllowAuxiliary, IndInv, LeaseIsHeld, Holding
  <2>4. \A q \in Run : pc'[q] \in Active => pc[q] \in Active
    BY <1>1, <2>1 DEF TypeOK
  <2>5. ActiveAreDisjoint'
    BY <1>1, <2>4 DEF ActiveAreDisjoint
  <2>6. ActiveIsAlone'
    BY <1>1, <2>1, <2>2, <2>3, <2>4 DEF ActiveIsAlone, ActiveAreDisjoint, TypeOK
  <2>7. NoOverlappingWriters'
    BY <1>1, <2>1, <2>2, <2>3 DEF NoOverlappingWriters, ActiveIsAlone, TypeOK
  <2> QED
    BY <2>5, <2>6, <2>7
<1>4. CASE ~StartRollout(r) /\ ~StartSession(r) /\ ~AllowAuxiliary(r)
  <2>1. /\ live' \subseteq live
        /\ \A q \in Run : pc'[q] \in Active => pc[q] \in Active
        /\ \A q \in live : at'[q] = at[q]
    BY <1>1, <1>4, FewStepsGoFurther
  <2>2. \A q \in live : Here(q)' = Here(q)
    BY <2>1 DEF Here
  <2>3. ActiveAreDisjoint'
    BY <1>1, <2>1 DEF ActiveAreDisjoint
  <2>4. ActiveIsAlone'
    BY <1>1, <2>1, <2>2 DEF ActiveIsAlone, TypeOK
  <2>5. NoOverlappingWriters'
    BY <1>1, <2>1, <2>2 DEF NoOverlappingWriters
  <2> QED
    BY <2>3, <2>4, <2>5
<1> QED
  BY <1>2, <1>3, <1>4

-----------------------------------------------------------------------------
(* The theorems *)

\* The inductive invariant holds initially ...
LEMMA InitIndInv == Init => IndInv
<1> SUFFICES ASSUME Init PROVE IndInv
  OBVIOUS
<1>1. TypeOK
  BY TypeInit
<1>2. \A r \in Run : pc[r] = "idle" /\ recovers[r] = NoAttempt /\ roll[r] = "none"
  BY DEF Init
<1>3. \A a \in Attempt : attempt[a] = "none" /\ recoveredBy[a] = NoAttempt
  BY DEF Init
<1>4. live = {} /\ recoveryLink = {}
  BY DEF Init
<1> QED
  BY <1>1, <1>2, <1>3, <1>4
  DEF IndInv, RowFollowsProcess, LeaseIsHeld, UncertainIsLast, LiveIsShown,
      RecoveredIsOver, LinksFollowPlans, ActiveAreDisjoint, ActiveIsAlone,
      NoOverlappingWriters, Active, Holding, Uncertain

LEMMA StutterIndInv == IndInv /\ UNCHANGED vars => IndInv'
  BY DEF vars, process, index, files, IndInv, TypeOK, RowFollowsProcess, LeaseIsHeld,
         UncertainIsLast, LiveIsShown, RecoveredIsOver, LinksFollowPlans,
         ActiveAreDisjoint, ActiveIsAlone, NoOverlappingWriters, Here, HereKind, Mine

\* ... and every step preserves it.
LEMMA StepIndInv == IndInv /\ [Next]_vars => IndInv'
<1>1. ASSUME IndInv, NEW r \in Run, StepOf(r) PROVE IndInv'
  BY <1>1, TypeStep, LocalStep, GlobalStep DEF IndInv
<1> QED
  BY <1>1, StutterIndInv DEF Next, StepOf

LEMMA Invariance == Spec => []IndInv
  BY InitIndInv, StepIndInv, PTL DEF Spec

\* The variables keep their types.
THEOREM TypeCorrect == Spec => []TypeOK
  BY Invariance, PTL DEF IndInv

\* Two database operations never write the same target at the same time,
\* for any number of rollouts, capsules, steps and targets.
THEOREM NoOverlap == Spec => []NoOverlappingWriters
  BY Invariance, PTL DEF IndInv

\* A write in progress is on record: its target is occupied for the others.
THEOREM WriteOnRecord == Spec => []LiveWriteIsOnRecord
<1>1. IndInv => LiveWriteIsOnRecord
  BY DEF IndInv, LiveIsShown, LiveWriteIsOnRecord, LeasedKind
<1> QED
  BY <1>1, Invariance, PTL

\* A rollout starts only when no operation executes on any of its targets.
THEOREM StartsQuiet == Spec => StartsOnQuietTargets
<1>1. IndInv /\ [Next]_vars =>
        [\A r \in Run : roll[r] = "none" /\ roll'[r] = "running" =>
           \A q \in live : Here(q) \notin TargetScopes(r)]_vars
  <2> SUFFICES ASSUME IndInv, NEW s \in Run, StepOf(s),
                      NEW r \in Run, roll[r] = "none", roll'[r] = "running",
                      NEW q \in live
               PROVE  Here(q) \notin TargetScopes(r)
    BY DEF Next, StepOf
  <2>1. StartRollout(r)
    <3>1. CASE StartRollout(s)
      BY <3>1 DEF StartRollout, IndInv, TypeOK
    <3>2. CASE StartSession(s) \/ AllowAuxiliary(s)
      BY <3>2 DEF StartSession, AllowAuxiliary, index
    <3>3. CASE ~StartRollout(s) /\ ~StartSession(s) /\ ~AllowAuxiliary(s)
      BY <3>3, FewStepsGoFurther DEF IndInv
    <3> QED
      BY <3>1, <3>2, <3>3
  <2>2. pc[r] \notin {"applying", "ambiguous"} \cup Post
    BY <2>1 DEF StartRollout, Post
  <2> QED
    BY <2>1, <2>2, StartIsAlone DEF StartRollout, IndInv, LiveIsShown, TypeOK
<1> QED
  BY <1>1, Invariance, PTL DEF Spec, StartsOnQuietTargets

-----------------------------------------------------------------------------
(* What stays on record *)

\* Before the attempt of a step, and between it and its verification.
Early == {"idle", "prepared", "confirmed", "step", "leased"}
Writing == {"recorded", "applying", "checking", "ambiguous", "nowrite"}

\* The records of a run end at the step it is at.
Course(r) ==
    /\ \A i \in Step : i > at[r] \/ (i = at[r] /\ pc[r] \in Early) => attempt[<<r, i>>] = "none"
    /\ \A i \in Step : i > at[r] \/ (i = at[r] /\ pc[r] \in Early \cup Writing) => <<r, i>> \notin verification
    /\ pc[r] \in {"recorded", "ambiguous", "nowrite"} => attempt[<<r, at[r]>>] = "attempting"
    /\ pc[r] = "applying" /\ HereKind(r) = "feature-migrate" => attempt[<<r, at[r]>>] = "attempting"
    /\ pc[r] = "checking" => attempt[<<r, at[r]>>] \in {"none", "attempting"}
    /\ \A i \in Step : attempt[<<r, i>>] = "not-started" => i = at[r] /\ pc[r] \in Post
    /\ \A i \in Step : <<r, i>> \in verification => attempt[<<r, i>>] \in {"none", "verified"}
    /\ \A i \in Step : attempt[<<r, i>>] = "verified" => <<r, i>> \in verification
    /\ roll[r] = "none" => \A i \in Step : attempt[<<r, i>>] = "none" /\ <<r, i>> \notin verification

Verified(r, i) == KindAt(r, i) = "feature-migrate" => <<r, i>> \in verification
Backed(r, i) ==
    /\ <<CapsuleOf[r], EnvOf[r], i>> \in receipt
    /\ attempt[<<r, i>>] \in {"none", "verified"}
    /\ Verified(r, i)

Promoted(r) ==
    \E q \in Run : /\ EnvOf[q] = "staging" /\ CapsuleOf[q] = CapsuleOf[r]
                   /\ \A i \in Steps(q) : Verified(q, i)

\* The steps behind a run are receipted and verified; where it claims to be
\* complete, all its steps are.
Backing(r) ==
    /\ \A i \in Step : i < at[r] => <<CapsuleOf[r], EnvOf[r], i>> \in receipt /\ Verified(r, i)
    /\ pc[r] \in {"written", "receipt"} => Verified(r, at[r])
    /\ r \in proof => pc[r] \in {"proved", "ended", "crashed"}
    /\ r \in proof \/ roll[r] = "verified" \/ pc[r] \in {"closing", "proved"}
         => \A i \in Steps(r) : Backed(r, i)
    /\ EnvOf[r] = "prod" /\ (pc[r] = "confirmed" \/ roll[r] # "none") => Promoted(r)

\* What the index says of recoveries.
RecoverersFit ==
    \A b \in Attempt : attempt[b] # "none" /\ RecoveryOf(b[1], b[2]) # NoAttempt =>
      /\ attempt[RecoveryOf(b[1], b[2])] \in Uncertain
      /\ EnvOf[RecoveryOf(b[1], b[2])[1]] = EnvOf[b[1]]
      /\ CapsuleOf[RecoveryOf(b[1], b[2])[1]] = CapsuleOf[b[1]]
RecoveredFits ==
    \A a, b \in Attempt : recoveredBy[a] = b =>
      attempt[a] \in Uncertain /\ attempt[b] = "verified" /\ RecoveryOf(b[1], b[2]) = a
LinksFit ==
    \A l \in recoveryLink :
      attempt[l[1]] \in Uncertain /\ l[2] \in verification /\ RecoveryOf(l[2][1], l[2][2]) = l[1]
LinksAreUnique == \A k, l \in recoveryLink : k[1] = l[1] => k = l
RecoveriesAreLinked ==
    \A v \in verification : RecoveryOf(v[1], v[2]) # NoAttempt =>
      <<RecoveryOf(v[1], v[2]), v>> \in recoveryLink

Links == RecoverersFit /\ RecoveredFits /\ LinksFit /\ LinksAreUnique /\ RecoveriesAreLinked

\* Between its attempt's row and its session, a run's target has no doubt but
\* its own and the one it recovers.
Frozen(r) ==
    pc[r] = "recorded" =>
      \A a \in Attempt : ScopeAt(a[1], a[2]) = Here(r) /\ Unsettled(a)
                         => a \in {Mine(r), RecoveryOf(r, at[r])}

RecInv ==
    /\ \A r \in Run : Course(r) /\ Backing(r) /\ Frozen(r)
    /\ Links

-----------------------------------------------------------------------------
(* One step, seen from the other runs *)

\* What a step of r leaves of the other runs.
Aside(r) ==
    /\ \A q \in Run \ {r} : /\ pc'[q] = pc[q] /\ at'[q] = at[q] /\ roll'[q] = roll[q]
                            /\ recovers'[q] = recovers[q] /\ (q \in proof' <=> q \in proof)
    /\ \A a \in Attempt : a # Mine(r) => attempt'[a] = attempt[a]
    /\ verification \subseteq verification' /\ verification' \subseteq verification \cup {Mine(r)}
    /\ receipt \subseteq receipt'
    /\ recoveryLink \subseteq recoveryLink'

LEMMA StepsAside ==
  ASSUME TypeOK, NEW r \in Run, StepOf(r)
  PROVE  Aside(r)
<1> USE DEF TypeOK, Aside, Goto, Mine, process, index, files, StepEnds, Finish
<1>1. ASSUME NEW a \in Attempt \cup {NoAttempt}, Prepare(r, a) PROVE Aside(r)
  BY <1>1 DEF Prepare
<1>2. CASE \/ Confirm(r) \/ NotStarted(r) \/ AcquireLease(r) \/ StartRollout(r)
           \/ StepRefused(r) \/ StepNotReached(r)
  BY <1>2 DEF Confirm, NotStarted, AcquireLease, StartRollout, StepRefused, StepNotReached
<1>3. CASE \/ RecordAttempt(r) \/ SkipWrite(r) \/ StartSession(r) \/ SessionSucceeds(r)
           \/ SessionFails(r) \/ SessionRefused(r)
  BY <1>3 DEF RecordAttempt, SkipWrite, StartSession, SessionSucceeds, SessionFails, SessionRefused
<1>4. CASE \/ ChecksFail(r) \/ VerificationNotRecorded(r) \/ FinishAttempt(r) \/ AttemptNotFinished(r)
  BY <1>4 DEF ChecksFail, VerificationNotRecorded, FinishAttempt, AttemptNotFinished
<1>5. CASE RecordVerification(r)
  BY <1>5 DEF RecordVerification
<1>6. CASE \/ AuxiliaryFails(r) \/ OtherStep(r) \/ ReleaseLease(r) \/ AllowAuxiliary(r)
           \/ InstallReceipt(r) \/ ReceiptNotInstalled(r)
  BY <1>6 DEF AuxiliaryFails, OtherStep, ReleaseLease, AllowAuxiliary, InstallReceipt,
     ReceiptNotInstalled
<1>7. CASE \/ PublishProof(r) \/ NotProved(r) \/ FinishVerified(r)
           \/ FinishFailed(r) \/ FinishInterrupted(r) \/ FinishLost(r)
  BY <1>7 DEF PublishProof, NotProved, FinishVerified, FinishFailed,
     FinishInterrupted, FinishLost
<1>8. CASE Interrupt(r) \/ Crash(r) \/ OperationEnds(r)
  BY <1>8 DEF Interrupt, Crash, OperationEnds
<1> HIDE DEF TypeOK, Aside, Goto, Mine, process, index, files, StepEnds, Finish
<1> QED
  BY <1>1, <1>2, <1>3, <1>4, <1>5, <1>6, <1>7, <1>8 DEF StepOf, Advance

\* Once verified, always verified.
LEMMA VerifiedStays ==
  ASSUME NEW q \in Run, verification \subseteq verification'
  PROVE  /\ \A i \in Step : Verified(q, i) => Verified(q, i)'
         /\ Promoted(q) => Promoted(q)'
<1>1. \A p \in Run : \A i : Verified(p, i) => Verified(p, i)'
  BY DEF Verified
<1> QED
  BY <1>1 DEF Promoted

LEMMA OthersRecords ==
  ASSUME TypeOK, NEW r \in Run, Aside(r), NEW q \in Run \ {r}, Course(q), Backing(q)
  PROVE  Course(q)' /\ Backing(q)'
<1>1. /\ \A i \in Step : <<q, i>> \in Attempt /\ <<q, i>> # Mine(r)
      /\ Steps(q) \subseteq Step
  BY ConstantsAssumption DEF Attempt, Mine, Steps, Step, ConstantsAssumption
<1>2. \A i \in Step : /\ attempt'[<<q, i>>] = attempt[<<q, i>>]
                      /\ <<q, i>> \in verification' <=> <<q, i>> \in verification
  BY <1>1 DEF Aside
<1>3. at[q] \in Step /\ HereKind(q)' = HereKind(q)
  BY DEF TypeOK, Aside, HereKind
<1>4. Course(q)'
  BY <1>2, <1>3 DEF Aside, Course
<1>5. verification \subseteq verification' /\ receipt \subseteq receipt'
  BY DEF Aside
<1>6. \A i \in Step : Backed(q, i) => Backed(q, i)'
  BY <1>2, <1>5, VerifiedStays DEF Backed
<1>7. Backing(q)'
  BY <1>1, <1>3, <1>5, <1>6, VerifiedStays DEF Aside, Backing
<1> QED
  BY <1>4, <1>7

-----------------------------------------------------------------------------
(* The records of the run that takes the step *)

LEMMA OwnCourse ==
  ASSUME IndInv, NEW r \in Run, Course(r), StepOf(r)
  PROVE  Course(r)'
<1> DEFINE Goal == Course(r)'
<1> SUFFICES Goal
  OBVIOUS
<1>0. TypeOK /\ RowFollowsProcess /\ LeaseIsHeld /\ UncertainIsLast /\ at[r] \in Step
  BY DEF IndInv, TypeOK
<1>a. \A i \in Step : <<r, i>> \in Attempt /\ (<<r, i>> = <<r, at[r]>> <=> i = at[r])
  BY DEF Attempt
<1> USE <1>0, <1>a DEF TypeOK, RowFollowsProcess, Course, Early, Writing, Post, Active, Holding, Goto, Mine,
        HereKind, process, index, files, Finish, StepEnds, LeasedKind
<1>1. ASSUME NEW a \in Attempt \cup {NoAttempt}, Prepare(r, a) PROVE Goal
  BY <1>1 DEF Prepare
<1>2. CASE Confirm(r) \/ NotStarted(r) \/ StartRollout(r)
  BY <1>2 DEF Confirm, NotStarted, StartRollout
<1>3. CASE AcquireLease(r) \/ StepRefused(r) \/ StepNotReached(r)
  BY <1>3 DEF AcquireLease, StepRefused, StepNotReached
<1>4. CASE RecordAttempt(r)
  <2>1. /\ pc[r] = "leased" /\ pc'[r] = "recorded" /\ HereKind(r) = "feature-migrate"
        /\ UNCHANGED <<at, roll, verification>>
        /\ attempt' = [attempt EXCEPT ![<<r, at[r]>>] = "attempting"]
    BY <1>4 DEF RecordAttempt
  <2>2. \A i \in Step : i # at[r] => attempt'[<<r, i>>] = attempt[<<r, i>>]
    BY <2>1
  <2>3. attempt'[<<r, at[r]>>] = "attempting" /\ <<r, at[r]>> \notin verification /\ roll[r] = "running"
    BY <2>1
  <2>4. \A i \in Step : i > at[r] => i # at[r]
    BY DEF Step
  <2> HIDE DEF TypeOK, RowFollowsProcess
  <2> QED
    BY <2>1, <2>2, <2>3, <2>4
<1>5. CASE SkipWrite(r) \/ StartSession(r)
  BY <1>5 DEF SkipWrite, StartSession
<1>6. CASE SessionSucceeds(r) \/ SessionFails(r) \/ SessionRefused(r)
  BY <1>6 DEF SessionSucceeds, SessionFails, SessionRefused
<1>7. CASE ChecksFail(r)
  BY <1>7 DEF ChecksFail, Wrote
<1>8. CASE VerificationNotRecorded(r)
  BY <1>8 DEF VerificationNotRecorded, Wrote
<1>9. CASE RecordVerification(r)
  <2>1. pc[r] = "checking" /\ pc'[r] = "written" /\ UNCHANGED <<at, roll>> /\ roll[r] = "running"
    BY <1>9 DEF RecordVerification
  <2>2. \A i \in Step : i # at[r] => /\ attempt'[<<r, i>>] = attempt[<<r, i>>]
                                     /\ <<r, i>> \in verification' <=> <<r, i>> \in verification
    BY <1>9 DEF RecordVerification
  <2>3. attempt'[<<r, at[r]>>] \in {"none", "verified"} /\ <<r, at[r]>> \in verification'
    <3>1. attempt' = IF Wrote(r) THEN [attempt EXCEPT ![<<r, at[r]>>] = "verified"] ELSE attempt
      BY <1>9 DEF RecordVerification
    <3>2. verification' = verification \cup {<<r, at[r]>>}
      BY <1>9 DEF RecordVerification
    <3>3. CASE Wrote(r)
      BY <3>1, <3>2, <3>3
    <3>4. CASE ~Wrote(r)
      BY <3>1, <3>2, <3>4 DEF Wrote
    <3> QED
      BY <3>3, <3>4
  <2>4. /\ \A i \in Step : i > at[r] => i # at[r]
        /\ attempt[<<r, at[r]>>] # "not-started"
    BY <2>1 DEF Step
  <2>5. /\ \A i \in Step : i > at[r] => attempt'[<<r, i>>] = "none" /\ <<r, i>> \notin verification'
        /\ \A i \in Step : attempt'[<<r, i>>] # "not-started"
        /\ \A i \in Step : <<r, i>> \in verification' => attempt'[<<r, i>>] \in {"none", "verified"}
        /\ \A i \in Step : attempt'[<<r, i>>] = "verified" => <<r, i>> \in verification'
    <3> SUFFICES ASSUME NEW i \in Step
                 PROVE  /\ i > at[r] => attempt'[<<r, i>>] = "none" /\ <<r, i>> \notin verification'
                        /\ attempt'[<<r, i>>] # "not-started"
                        /\ <<r, i>> \in verification' => attempt'[<<r, i>>] \in {"none", "verified"}
                        /\ attempt'[<<r, i>>] = "verified" => <<r, i>> \in verification'
      OBVIOUS
    <3>0. /\ i > at[r] => attempt[<<r, i>>] = "none" /\ <<r, i>> \notin verification
          /\ attempt[<<r, i>>] # "not-started" \/ i = at[r]
          /\ <<r, i>> \in verification => attempt[<<r, i>>] \in {"none", "verified"}
          /\ attempt[<<r, i>>] = "verified" => <<r, i>> \in verification
      OBVIOUS
    <3> HIDE DEF Course, TypeOK, RowFollowsProcess
    <3>1. CASE i = at[r]
      BY <2>3, <2>4, <3>1
    <3>2. CASE i # at[r]
      BY <2>2, <3>0, <3>2
    <3> QED
      BY <3>1, <3>2
  <2> QED
    BY <2>1, <2>5
<1>10. CASE FinishAttempt(r)
  BY <1>10 DEF FinishAttempt
<1>11. CASE AttemptNotFinished(r) \/ AllowAuxiliary(r) \/ AuxiliaryFails(r)
  BY <1>11 DEF AttemptNotFinished, AllowAuxiliary, AuxiliaryFails
<1>12. CASE OtherStep(r) \/ ReleaseLease(r)
  BY <1>12 DEF OtherStep, ReleaseLease
<1>13. CASE InstallReceipt(r)
  <2>1. at[r] \in Nat /\ pc[r] = "receipt" /\ UNCHANGED <<attempt, verification, roll>>
    BY <1>13 DEF InstallReceipt, Step
  <2>2. CASE at' = [at EXCEPT ![r] = @ + 1] /\ Goto(r, "step")
    <3>1. \A i \in Step : i >= at[r] + 1 => i > at[r]
      BY <2>1 DEF Step
    <3>2. \A i \in Step : attempt[<<r, i>>] = "not-started" => FALSE
      BY <2>1
    <3>3. at'[r] = at[r] + 1 /\ pc'[r] = "step"
      BY <2>2
    <3>4. \A i \in Step : i > at[r] + 1 \/ i = at[r] + 1 => i > at[r]
      BY <2>1 DEF Step
    <3> QED
      BY <2>1, <3>2, <3>3, <3>4
  <2>3. CASE at' = at
    BY <1>13, <2>1, <2>3 DEF InstallReceipt
  <2> QED
    BY <1>13, <2>2, <2>3 DEF InstallReceipt
<1>14. CASE ReceiptNotInstalled(r) \/ PublishProof(r) \/ NotProved(r)
  BY <1>14 DEF ReceiptNotInstalled, PublishProof, NotProved
<1>15. CASE FinishVerified(r) \/ FinishFailed(r) \/ FinishInterrupted(r) \/ FinishLost(r)
  BY <1>15 DEF FinishVerified, FinishFailed, FinishInterrupted, FinishLost
<1>16. CASE Interrupt(r) \/ Crash(r) \/ OperationEnds(r)
  BY <1>16 DEF Interrupt, Crash, OperationEnds
<1> HIDE <1>0, <1>a DEF TypeOK, RowFollowsProcess, Course, Early, Writing, Post, Active, Holding, Goto, Mine,
        HereKind, process, index, files, Finish, StepEnds, LeasedKind, Goal
<1> QED
  BY <1>1, <1>2, <1>3, <1>4, <1>5, <1>6, <1>7, <1>8, <1>9, <1>10, <1>11,
     <1>12, <1>13, <1>14, <1>15, <1>16 DEF StepOf, Advance

\* An attempt that is neither uncertain nor given up, at a step that the run
\* has left or is about to leave.
LEMMA SettledBehind ==
  ASSUME IndInv, NEW r \in Run, Course(r), NEW i \in Step,
         i # at[r] \/ pc[r] \in {"receipt", "closing", "proved"}
  PROVE  attempt[<<r, i>>] \in {"none", "verified"}
<1>1. <<r, i>> \in Attempt
  BY DEF Attempt
<1>2. attempt[<<r, i>>] \notin Uncertain
  BY <1>1 DEF IndInv, UncertainIsLast, Post
<1>3. attempt[<<r, i>>] # "not-started"
  BY DEF Course, Post
<1> QED
  BY <1>1, <1>2, <1>3 DEF IndInv, TypeOK

LEMMA OwnBacking ==
  ASSUME IndInv, NEW r \in Run, Course(r), Backing(r), StepOf(r), \A q \in Run : Backing(q)
  PROVE  Backing(r)'
<1> DEFINE Goal == Backing(r)'
<1> SUFFICES Goal
  OBVIOUS
<1>0. TypeOK /\ RowFollowsProcess /\ LeaseIsHeld /\ at[r] \in Step /\ at[r] \in Nat
      /\ Steps(r) \subseteq Step /\ at[r] \in Steps(r) /\ Aside(r)
  BY StepsAside, ConstantsAssumption DEF IndInv, TypeOK, Step, Steps, ConstantsAssumption
\* Where a run makes no new claim it is enough that it changes no attempt of
\* a complete run and stays where it is, or goes where nothing is claimed.
<1>b. ASSUME at' = at, roll'[r] \in {roll[r], "running", "failed", "unknown"}, r \in proof' => r \in proof,
             attempt' = attempt,
             r \in proof' => pc'[r] \in {"proved", "ended", "crashed"},
             pc'[r] \in {"written", "receipt"} => HereKind(r) # "feature-migrate" \/ pc[r] \in {"written", "receipt"},
             pc'[r] \notin {"closing", "proved"} \/ pc'[r] = pc[r],
             pc'[r] = "confirmed" \/ roll'[r] # "none" => pc[r] = "confirmed" \/ roll[r] # "none"
      PROVE  Goal
  <2>1. verification \subseteq verification' /\ receipt \subseteq receipt'
    BY <1>0 DEF Aside
  <2>2. /\ \A i \in Step : Verified(r, i) => Verified(r, i)'
        /\ Promoted(r) => Promoted(r)'
    BY <2>1, VerifiedStays
  <2>3. \A i \in Step : Backed(r, i) => Backed(r, i)'
    BY <1>b, <2>1, <2>2 DEF Backed
  <2>4. HereKind(r) # "feature-migrate" => Verified(r, at[r])
    BY DEF Verified, HereKind
  <2> QED
    BY <1>0, <1>b, <2>1, <2>2, <2>3, <2>4 DEF Backing
<1>1. ASSUME NEW a \in Attempt \cup {NoAttempt}, Prepare(r, a) PROVE Goal
  <2>1. pc[r] = "idle" /\ pc' = [pc EXCEPT ![r] = "prepared"] /\ UNCHANGED <<at, roll, proof, attempt>>
    BY <1>1 DEF Prepare, index, files, Goto
  <2> QED
    BY <1>0, <1>b, <2>1 DEF TypeOK, RowFollowsProcess, Backing
<1>2. CASE Confirm(r)
  <2>1. /\ pc'[r] = "confirmed" /\ pc[r] = "prepared" /\ UNCHANGED <<at, roll, proof, attempt, verification, receipt>>
        /\ StageProven(r)
    BY <1>0, <1>2 DEF Confirm, index, files, Goto, TypeOK
  <2>2. EnvOf[r] = "prod" => Promoted(r)
    <3> SUFFICES ASSUME EnvOf[r] = "prod" PROVE Promoted(r)
      OBVIOUS
    <3>1. PICK q \in Run : q \in proof /\ EnvOf[q] = "staging" /\ CapsuleOf[q] = CapsuleOf[r]
      BY <2>1 DEF StageProven, CompletionProof
    <3>2. \A i \in Steps(q) : Verified(q, i)
      BY <3>1 DEF Backing, Backed
    <3> QED
      BY <3>1, <3>2 DEF Promoted
  <2>3. Promoted(r)' <=> Promoted(r)
    BY <2>1 DEF Promoted, Verified
  <2>4. r \notin proof /\ roll[r] = "none"
    BY <1>0, <2>1 DEF Backing, RowFollowsProcess
  <2> QED
    BY <1>0, <2>1, <2>2, <2>3, <2>4 DEF Backing, Verified
<1>3. CASE StartRollout(r)
  <2>1. pc[r] = "confirmed" /\ pc'[r] = "step" /\ UNCHANGED <<at, proof, attempt>> /\ roll'[r] = "running"
    BY <1>0, <1>3 DEF StartRollout, files, Goto, TypeOK
  <2> QED
    BY <1>0, <1>b, <2>1 DEF Backing
<1>4. CASE NotStarted(r) \/ AcquireLease(r) \/ StepRefused(r) \/ StepNotReached(r)
  <2>1. /\ pc[r] \in {"prepared", "confirmed", "step", "leased"} /\ pc'[r] \in {"ended", "leased", "failing"}
        /\ UNCHANGED <<at, roll, proof, attempt>>
    BY <1>0, <1>4 DEF NotStarted, AcquireLease, StepRefused, StepNotReached, StepEnds, index, files, Goto, TypeOK
  <2> QED
    BY <1>0, <1>b, <2>1 DEF Backing
<1>5. CASE RecordAttempt(r)
  <2>1. /\ pc[r] = "leased" /\ pc'[r] = "recorded" /\ UNCHANGED <<at, roll, proof, verification, receipt>>
    BY <1>0, <1>5 DEF RecordAttempt, files, Goto, TypeOK
  <2>2. r \notin proof /\ roll[r] = "running"
    BY <1>0, <2>1 DEF Backing, RowFollowsProcess, Active, Holding
  <2> QED
    BY <1>0, <2>1, <2>2 DEF Backing, Verified, Promoted
<1>6. CASE \/ SkipWrite(r) \/ StartSession(r) \/ SessionSucceeds(r) \/ SessionFails(r) \/ SessionRefused(r)
           \/ AllowAuxiliary(r)
  <2>1. /\ pc[r] \in {"leased", "recorded", "applying"}
        /\ pc'[r] \in {"checking", "applying", "written", "ambiguous", "nowrite"}
        /\ pc'[r] = "written" => HereKind(r) # "feature-migrate"
        /\ UNCHANGED <<at, roll, proof, attempt>>
    BY <1>0, <1>6 DEF SkipWrite, StartSession, SessionSucceeds, SessionFails, SessionRefused, AllowAuxiliary,
       index, files, Goto, TypeOK
  <2> QED
    BY <1>0, <1>b, <2>1 DEF Backing
<1>7. CASE ChecksFail(r) \/ VerificationNotRecorded(r) \/ AttemptNotFinished(r) \/ AuxiliaryFails(r)
  <2>1. /\ pc[r] \in {"checking", "ambiguous", "nowrite", "applying", "written"} /\ pc'[r] \in {"ambiguous", "failing"}
        /\ UNCHANGED <<at, roll, proof, attempt>>
    BY <1>0, <1>7 DEF ChecksFail, VerificationNotRecorded, AttemptNotFinished, AuxiliaryFails, StepEnds,
       index, files, Goto, TypeOK
  <2> QED
    BY <1>0, <1>b, <2>1 DEF Backing
<1>8. CASE RecordVerification(r) \/ FinishAttempt(r)
  <2>1. /\ pc[r] \in {"checking", "ambiguous", "nowrite"} /\ pc'[r] \in {"written", "failing"}
        /\ pc'[r] = "written" => Mine(r) \in verification'
        /\ UNCHANGED <<at, roll, proof, receipt>>
    BY <1>0, <1>8 DEF RecordVerification, FinishAttempt, StepEnds, files, Goto, TypeOK
  <2>2. r \notin proof /\ roll[r] = "running"
    BY <1>0, <2>1 DEF Backing, RowFollowsProcess, Active, Holding
  <2>3. /\ \A i \in Step : Verified(r, i) => Verified(r, i)'
        /\ Promoted(r) => Promoted(r)'
    BY <1>0, VerifiedStays DEF Aside
  <2>4. pc'[r] = "written" => Verified(r, at[r])'
    BY <2>1 DEF Verified, Mine
  <2> QED
    BY <1>0, <2>1, <2>2, <2>3, <2>4 DEF Backing
<1>9. CASE OtherStep(r) \/ ReleaseLease(r)
  <2>1. /\ pc[r] \in {"step", "written"} /\ pc'[r] \in {"receipt", "failing"}
        /\ pc'[r] = "receipt" => HereKind(r) # "feature-migrate" \/ pc[r] = "written"
        /\ UNCHANGED <<at, roll, proof, attempt>>
    BY <1>0, <1>9 DEF OtherStep, ReleaseLease, StepEnds, index, files, Goto, TypeOK, LeasedKind
  <2> QED
    BY <1>0, <1>b, <2>1 DEF Backing
<1>10. CASE InstallReceipt(r)
  <2>1. /\ pc[r] = "receipt" /\ UNCHANGED <<roll, proof, attempt, verification>>
        /\ receipt' = receipt \cup {<<CapsuleOf[r], EnvOf[r], at[r]>>}
    BY <1>10 DEF InstallReceipt, StepReceipt, index
  <2>2. r \notin proof /\ roll[r] = "running" /\ Verified(r, at[r])
    BY <1>0, <2>1 DEF Backing, RowFollowsProcess, Active
  <2>3. \A i \in Step : i <= at[r] => <<CapsuleOf[r], EnvOf[r], i>> \in receipt' /\ Verified(r, i)'
    <3>1. \A i \in Step : i <= at[r] => i < at[r] \/ i = at[r]
      BY <1>0 DEF Step
    <3> QED
      BY <2>1, <2>2, <3>1 DEF Backing, Verified
  <2>4. Promoted(r)' <=> Promoted(r)
    BY <2>1 DEF Promoted, Verified
  <2>5. CASE at' = [at EXCEPT ![r] = @ + 1] /\ Goto(r, "step")
    <3>1. at'[r] = at[r] + 1 /\ pc'[r] = "step"
      BY <1>0, <2>5 DEF Goto, TypeOK
    <3>2. \A i \in Step : i < at[r] + 1 => i <= at[r]
      BY <1>0 DEF Step
    <3> QED
      BY <2>1, <2>2, <2>3, <2>4, <3>1, <3>2 DEF Backing
  <2>6. CASE at[r] = Length[CapsuleOf[r]] /\ Goto(r, "closing") /\ at' = at
    <3>1. \A i \in Steps(r) : i \in Step /\ i <= at[r]
      BY <1>0, <2>6 DEF Steps, Step
    <3>2. \A i \in Steps(r) : attempt[<<r, i>>] \in {"none", "verified"}
      BY <2>1, <3>1, SettledBehind
    <3>3. \A i \in Steps(r) : Backed(r, i)'
      BY <2>1, <2>3, <3>1, <3>2 DEF Backed
    <3>4. pc'[r] = "closing"
      BY <1>0, <2>6 DEF Goto, TypeOK
    <3>5. \A i \in Step : i < at[r] => i <= at[r]
      BY <1>0 DEF Step
    <3> QED
      BY <2>1, <2>2, <2>3, <2>4, <2>6, <3>3, <3>4, <3>5 DEF Backing
  <2>7. CASE StepEnds(r, "verified", "verified")
    <3>1. at' = at /\ pc'[r] = "failing"
      BY <1>0, <2>7 DEF StepEnds, Goto, TypeOK
    <3>2. \A i \in Step : i < at[r] => i <= at[r]
      BY <1>0 DEF Step
    <3> QED
      BY <2>1, <2>2, <2>3, <2>4, <3>1, <3>2 DEF Backing
  <2> QED
    BY <1>10, <2>5, <2>6, <2>7 DEF InstallReceipt
<1>11. CASE ReceiptNotInstalled(r) \/ NotProved(r) \/ FinishFailed(r) \/ FinishInterrupted(r) \/ FinishLost(r)
  <2>1. /\ pc[r] \in {"receipt", "closing", "proved", "failing", "interrupted"} /\ pc'[r] \in {"failing", "ended"}
        /\ UNCHANGED <<at, attempt>> /\ roll'[r] \in {roll[r], "failed", "unknown"}
        /\ r \in proof' => r \in proof /\ pc'[r] = "ended"
    BY <1>0, <1>11 DEF ReceiptNotInstalled, NotProved, FinishFailed, FinishInterrupted, FinishLost, Finish,
       StepEnds, index, files, Goto, TypeOK, Backing
  <2>2. roll[r] # "none"
    BY <1>0, <2>1 DEF RowFollowsProcess, Active
  <2> QED
    BY <1>0, <1>b, <2>1, <2>2
<1>12. CASE PublishProof(r)
  <2>1. /\ pc[r] = "closing" /\ pc'[r] = "proved" /\ UNCHANGED <<at, attempt, roll, verification, receipt>>
    BY <1>0, <1>12 DEF PublishProof, index, Goto, TypeOK
  <2> QED
    BY <1>0, <2>1 DEF Backing, Backed, Verified, Promoted
<1>13. CASE FinishVerified(r)
  <2>1. /\ pc[r] = "proved" /\ pc'[r] = "ended" /\ UNCHANGED <<at, attempt, proof, verification, receipt>>
    BY <1>0, <1>13 DEF FinishVerified, Finish, files, Goto, TypeOK
  <2>2. roll[r] # "none"
    BY <1>0, <2>1 DEF RowFollowsProcess
  <2> QED
    BY <1>0, <2>1, <2>2 DEF Backing, Backed, Verified, Promoted
<1>14. CASE Interrupt(r) \/ Crash(r) \/ OperationEnds(r)
  <2>1. /\ UNCHANGED <<at, attempt, roll>>
        /\ \/ pc'[r] = "interrupted" /\ r \notin proof' /\ pc[r] \notin {"idle", "prepared", "confirmed"}
           \/ pc'[r] = "crashed" /\ proof' = proof /\ pc[r] \notin {"idle", "prepared"}
           \/ pc' = pc /\ proof' = proof
    BY <1>0, <1>14 DEF Interrupt, Crash, OperationEnds, process, index, files, Goto, TypeOK, Active, Holding
  <2> QED
    BY <1>0, <1>b, <2>1 DEF Backing
<1> HIDE DEF Goal
<1> QED
  BY <1>1, <1>2, <1>3, <1>4, <1>5, <1>6, <1>7, <1>8, <1>9, <1>10, <1>11,
     <1>12, <1>13, <1>14 DEF StepOf, Advance
-----------------------------------------------------------------------------
(* What the index says of recoveries *)

\* Four steps change a record or a plan.
LEMMA FewStepsRecord ==
  ASSUME TypeOK, NEW r \in Run, StepOf(r),
         \A a \in Attempt \cup {NoAttempt} : ~Prepare(r, a),
         ~RecordAttempt(r), ~FinishAttempt(r), ~RecordVerification(r)
  PROVE  /\ UNCHANGED <<attempt, recoveredBy, verification, recoveryLink, recovers>>
         /\ pc'[r] = "recorded" => pc[r] = "recorded" /\ at'[r] = at[r]
<1> USE DEF TypeOK, Goto, process, index, files, StepEnds, Finish
<1> DEFINE Frame ==
         /\ UNCHANGED <<attempt, recoveredBy, verification, recoveryLink, recovers>>
         /\ pc'[r] = "recorded" => pc[r] = "recorded" /\ at'[r] = at[r]
<1> SUFFICES Frame
  OBVIOUS
<1>2. CASE \/ Confirm(r) \/ NotStarted(r) \/ AcquireLease(r) \/ StartRollout(r)
           \/ StepRefused(r) \/ StepNotReached(r)
  BY <1>2 DEF Confirm, NotStarted, AcquireLease, StartRollout, StepRefused, StepNotReached
<1>3. CASE \/ SkipWrite(r) \/ StartSession(r) \/ SessionSucceeds(r)
           \/ SessionFails(r) \/ SessionRefused(r)
  BY <1>3 DEF SkipWrite, StartSession, SessionSucceeds, SessionFails, SessionRefused
<1>4. CASE \/ ChecksFail(r) \/ VerificationNotRecorded(r) \/ AttemptNotFinished(r)
  BY <1>4 DEF ChecksFail, VerificationNotRecorded, AttemptNotFinished
<1>5. CASE \/ AuxiliaryFails(r) \/ OtherStep(r) \/ ReleaseLease(r) \/ AllowAuxiliary(r)
           \/ InstallReceipt(r) \/ ReceiptNotInstalled(r)
  BY <1>5 DEF AuxiliaryFails, OtherStep, ReleaseLease, AllowAuxiliary, InstallReceipt,
     ReceiptNotInstalled
<1>6. CASE \/ PublishProof(r) \/ NotProved(r) \/ FinishVerified(r)
           \/ FinishFailed(r) \/ FinishInterrupted(r) \/ FinishLost(r)
  BY <1>6 DEF PublishProof, NotProved, FinishVerified, FinishFailed,
     FinishInterrupted, FinishLost
<1>7. CASE Interrupt(r) \/ Crash(r) \/ OperationEnds(r)
  BY <1>7 DEF Interrupt, Crash, OperationEnds
<1> HIDE DEF TypeOK, Goto, process, index, files, StepEnds, Finish, Frame
<1> QED
  BY <1>2, <1>3, <1>4, <1>5, <1>6, <1>7 DEF StepOf, Advance

\* A recovery names an attempt of a run that is over.
LEMMA RecoveryNames ==
  ASSUME IndInv, NEW q \in Run, NEW i, RecoveryOf(q, i) # NoAttempt
  PROVE  /\ RecoveryOf(q, i) = recovers[q] /\ RecoveryOf(q, i) \in Attempt
         /\ pc[RecoveryOf(q, i)[1]] \in Post
  BY DEF IndInv, TypeOK, RecoveryOf, RecoveredIsOver

LEMMA LinksStep ==
  ASSUME IndInv, NEW r \in Run, StepOf(r), Links, \A q \in Run : Course(q)
  PROVE  Links'
<1>0. /\ TypeOK /\ Mine(r) \in Attempt /\ Mine(r) = <<r, at[r]>>
      /\ \A b \in Attempt : b[1] \in Run /\ b = <<b[1], b[2]>> /\ b[2] \in Step
  BY DEF IndInv, TypeOK, Mine, Attempt
<1>a. /\ recoveryLink \subseteq Attempt \X Attempt /\ verification \subseteq Attempt
      /\ \A l \in recoveryLink : l = <<l[1], l[2]>> /\ l[1] \in Attempt /\ l[2] \in Attempt
      /\ \A b \in Attempt : recoveredBy[b] \in Attempt \cup {NoAttempt}
      /\ \A b \in Attempt : RecoveryOf(b[1], b[2]) \in Attempt \cup {NoAttempt}
      /\ NoAttempt \notin Attempt
  BY <1>0, RecoveryNames, ConstantsAssumption DEF TypeOK, ConstantsAssumption, Attempt
<1>b. ASSUME pc[r] \notin Post
      PROVE  \A b \in Attempt : RecoveryOf(b[1], b[2]) # Mine(r)
  BY <1>0, <1>a, <1>b, RecoveryNames
<1>c. ASSUME UNCHANGED recovers
      PROVE  \A b \in Attempt : RecoveryOf(b[1], b[2])' = RecoveryOf(b[1], b[2])
  BY <1>c DEF RecoveryOf
<1>1. ASSUME NEW a \in Attempt \cup {NoAttempt}, Prepare(r, a) PROVE Links'
  <2>1. /\ UNCHANGED <<attempt, recoveredBy, verification, recoveryLink>>
        /\ \A q \in Run \ {r} : recovers'[q] = recovers[q]
        /\ pc[r] = "idle"
    BY <1>0, <1>1 DEF Prepare, index, TypeOK
  <2>2. \A b \in Attempt : b[1] = r => attempt[b] = "none" /\ b \notin verification
    <3>1. roll[r] = "none"
      BY <2>1 DEF IndInv, RowFollowsProcess
    <3> QED
      BY <1>0, <3>1 DEF Course
  <2>3. \A b \in Attempt : b[1] # r => RecoveryOf(b[1], b[2])' = RecoveryOf(b[1], b[2])
    BY <1>0, <2>1 DEF RecoveryOf
  <2>4. \A b \in Attempt : attempt[b] # "none" \/ b \in verification
                           => RecoveryOf(b[1], b[2])' = RecoveryOf(b[1], b[2])
    BY <2>2, <2>3
  <2>5. RecoverersFit' /\ RecoveriesAreLinked'
    BY <1>a, <2>1, <2>4 DEF Links, RecoverersFit, RecoveriesAreLinked
  <2>6. RecoveredFits'
    BY <2>1, <2>4 DEF Links, RecoveredFits
  <2>7. LinksFit' /\ LinksAreUnique'
    BY <1>a, <2>1, <2>4 DEF Links, LinksFit, LinksAreUnique
  <2> QED
    BY <2>5, <2>6, <2>7 DEF Links
<1>2. CASE RecordAttempt(r)
  <2>1. /\ UNCHANGED <<recoveredBy, verification, recoveryLink, recovers>>
        /\ attempt' = [attempt EXCEPT ![Mine(r)] = "attempting"]
        /\ RecoveryPlanValid(r, recovers[r], bound[r])
        /\ pc[r] = "leased"
    BY <1>2 DEF RecordAttempt
  <2>2. attempt[Mine(r)] = "none"
    BY <1>0, <2>1 DEF Course, Mine, Early, TypeOK
  <2>3. \A b \in Attempt : attempt'[b] = IF b = Mine(r) THEN "attempting" ELSE attempt[b]
    BY <1>0, <2>1 DEF TypeOK
  <2>4. \A b \in Attempt : RecoveryOf(b[1], b[2])' = RecoveryOf(b[1], b[2])
    BY <1>c, <2>1
  <2>5. RecoveryOf(r, at[r]) # NoAttempt =>
          /\ attempt[RecoveryOf(r, at[r])] \in Uncertain
          /\ EnvOf[RecoveryOf(r, at[r])[1]] = EnvOf[r]
          /\ CapsuleOf[RecoveryOf(r, at[r])[1]] = CapsuleOf[r]
    BY <2>1, RecoveryNames DEF RecoveryPlanValid, Unresolved
  <2>6. \A b \in Attempt : attempt'[b] # "none" /\ RecoveryOf(b[1], b[2]) # NoAttempt =>
          /\ attempt[RecoveryOf(b[1], b[2])] \in Uncertain
          /\ EnvOf[RecoveryOf(b[1], b[2])[1]] = EnvOf[b[1]]
          /\ CapsuleOf[RecoveryOf(b[1], b[2])[1]] = CapsuleOf[b[1]]
    <3>1. Mine(r)[1] = r /\ Mine(r)[2] = at[r]
      BY <1>0
    <3> QED
      BY <2>3, <2>5, <3>1 DEF Links, RecoverersFit
  <2>7. \A b \in Attempt : /\ attempt[b] \in Uncertain => attempt'[b] \in Uncertain
                           /\ attempt[b] = "verified" => attempt'[b] = "verified"
    BY <2>2, <2>3 DEF Uncertain
  <2>8. RecoverersFit'
    BY <1>a, <2>4, <2>6, <2>7 DEF RecoverersFit
  <2>9. RecoveredFits'
    BY <2>1, <2>4, <2>7 DEF Links, RecoveredFits
  <2>10. LinksFit' /\ LinksAreUnique' /\ RecoveriesAreLinked'
    BY <1>a, <2>1, <2>4, <2>7 DEF Links, LinksFit, LinksAreUnique, RecoveriesAreLinked
  <2> QED
    BY <2>8, <2>9, <2>10 DEF Links
<1>3. CASE FinishAttempt(r)
  <2>1. /\ UNCHANGED <<recoveredBy, verification, recoveryLink, recovers>>
        /\ pc[r] \in {"ambiguous", "nowrite"}
        /\ \A b \in Attempt : b # Mine(r) => attempt'[b] = attempt[b]
    BY <1>0, <1>3 DEF FinishAttempt, StepEnds, TypeOK
  <2>2. attempt[Mine(r)] = "attempting"
    BY <2>1 DEF Course, Mine
  <2>3. \A b \in Attempt : RecoveryOf(b[1], b[2]) # Mine(r)
    BY <1>b, <2>1 DEF Post
  <2>4. \A b \in Attempt : RecoveryOf(b[1], b[2])' = RecoveryOf(b[1], b[2])
    BY <1>c, <2>1
  <2>6. \A b \in Attempt : /\ attempt'[b] # "none" => attempt[b] # "none"
                           /\ attempt[b] = "verified" => attempt'[b] = "verified"
    BY <2>1, <2>2
  <2>7. RecoverersFit'
    BY <1>a, <2>1, <2>3, <2>4, <2>6 DEF Links, RecoverersFit
  <2>8. RecoveredFits'
    BY <2>1, <2>3, <2>4, <2>6 DEF Links, RecoveredFits
  <2>9. LinksFit' /\ LinksAreUnique' /\ RecoveriesAreLinked'
    BY <1>a, <2>1, <2>3, <2>4 DEF Links, LinksFit, LinksAreUnique, RecoveriesAreLinked
  <2> QED
    BY <2>7, <2>8, <2>9 DEF Links
<1>4. CASE RecordVerification(r)
  <2> DEFINE old == RecoveryOf(r, at[r])
  <2>1. /\ pc[r] = "checking" /\ UNCHANGED recovers
        /\ old # NoAttempt => attempt[old] \in Uncertain /\ Unresolved(old)
        /\ attempt' = IF Wrote(r) THEN [attempt EXCEPT ![Mine(r)] = "verified"] ELSE attempt
        /\ recoveredBy' = IF Wrote(r) /\ old # NoAttempt /\ attempt[old] = "unknown"
                          THEN [recoveredBy EXCEPT ![old] = Mine(r)] ELSE recoveredBy
        /\ verification' = verification \cup {Mine(r)}
        /\ recoveryLink' = recoveryLink \cup ({old} \ {NoAttempt}) \X {Mine(r)}
    BY <1>4 DEF RecordVerification
  <2>2. \A b \in Attempt : RecoveryOf(b[1], b[2]) # Mine(r)
    BY <1>b, <2>1 DEF Post
  <2>3. \A b \in Attempt : RecoveryOf(b[1], b[2])' = RecoveryOf(b[1], b[2])
    BY <1>c, <2>1
  <2>4. /\ \A b \in Attempt : b = Mine(r) => RecoveryOf(b[1], b[2]) = old
        /\ old # Mine(r) /\ old \in Attempt \cup {NoAttempt}
    BY <1>0, <1>a, <2>2
  <2> HIDE DEF old
  <2>7. \A b \in Attempt : /\ b # Mine(r) => attempt'[b] = attempt[b]
                           /\ attempt'[b] # "none" => attempt[b] # "none"
                           /\ attempt[b] = "verified" => attempt'[b] = "verified"
    BY <1>0, <2>1 DEF Wrote, TypeOK
  <2>8. RecoverersFit'
    BY <1>a, <2>2, <2>3, <2>7 DEF Links, RecoverersFit
  <2>9. RecoveredFits'
    <3> SUFFICES ASSUME NEW a \in Attempt, NEW b \in Attempt, recoveredBy'[a] = b
                 PROVE  /\ attempt'[a] \in Uncertain /\ attempt'[b] = "verified"
                        /\ RecoveryOf(b[1], b[2])' = a
      BY DEF RecoveredFits
    <3>1. CASE recoveredBy[a] = b
      <4>1. attempt[a] \in Uncertain /\ attempt[b] = "verified" /\ RecoveryOf(b[1], b[2]) = a
        BY <3>1 DEF Links, RecoveredFits
      <4> QED
        BY <2>2, <2>3, <2>7, <4>1
    <3>2. CASE recoveredBy[a] # b
      <4>1. a = old /\ b = Mine(r) /\ Wrote(r) /\ attempt[old] \in Uncertain
        <5>1. recoveredBy \in [Attempt -> Attempt \cup {NoAttempt}]
          BY <1>0 DEF TypeOK
        <5> QED
          BY <2>1, <3>2, <5>1 DEF Uncertain
      <4>2. attempt'[Mine(r)] = "verified"
        BY <1>0, <2>1, <4>1 DEF TypeOK
      <4> QED
        BY <2>3, <2>4, <2>7, <4>1, <4>2
    <3> QED
      BY <3>1, <3>2
  <2>10. \A l \in recoveryLink' \ recoveryLink :
           l[1] = old /\ l[2] = Mine(r) /\ l = <<old, Mine(r)>> /\ old \in Attempt
    BY <2>1, <2>4
  <2>11. LinksFit'
    <3> SUFFICES ASSUME NEW l \in recoveryLink'
                 PROVE  /\ attempt'[l[1]] \in Uncertain
                        /\ l[2] \in verification' /\ RecoveryOf(l[2][1], l[2][2])' = l[1]
      BY DEF LinksFit
    <3>1. CASE l \in recoveryLink
      <4>1. /\ attempt[l[1]] \in Uncertain /\ l[1] \in Attempt /\ l[2] \in Attempt
            /\ l[2] \in verification /\ RecoveryOf(l[2][1], l[2][2]) = l[1]
        BY <1>a, <3>1 DEF Links, LinksFit
      <4> QED
        BY <2>1, <2>2, <2>3, <2>7, <4>1
    <3>2. CASE l \notin recoveryLink
      <4>1. l[1] = old /\ l[2] = Mine(r) /\ old \in Attempt
        BY <2>10, <3>2
      <4>2. attempt[old] \in Uncertain
        BY <1>a, <2>1, <4>1
      <4> QED
        BY <1>0, <2>1, <2>3, <2>4, <2>7, <4>1, <4>2
    <3> QED
      BY <3>1, <3>2
  <2>12. LinksAreUnique'
    <3>1. ASSUME old # NoAttempt, NEW l \in recoveryLink, l[1] = old PROVE FALSE
      <4>1. l[2] \in verification /\ l = <<old, l[2]>>
        BY <1>a, <3>1 DEF Links, LinksFit
      <4> QED
        BY <2>1, <3>1, <4>1 DEF Unresolved
    <3> QED
      BY <1>a, <2>10, <3>1 DEF Links, LinksAreUnique
  <2>13. RecoveriesAreLinked'
    <3> SUFFICES ASSUME NEW v \in verification', RecoveryOf(v[1], v[2])' # NoAttempt
                 PROVE  <<RecoveryOf(v[1], v[2])', v>> \in recoveryLink'
      BY DEF RecoveriesAreLinked
    <3>1. CASE v \in verification
      BY <1>a, <2>1, <2>3, <3>1 DEF Links, RecoveriesAreLinked
    <3>2. CASE v = Mine(r)
      <4>1. RecoveryOf(v[1], v[2])' = old
        BY <1>0, <2>3, <2>4, <3>2
      <4> QED
        BY <2>1, <3>2, <4>1
    <3> QED
      BY <2>1, <3>1, <3>2
  <2> QED
    BY <2>8, <2>9, <2>11, <2>12, <2>13 DEF Links
<1>5. CASE UNCHANGED <<attempt, recoveredBy, verification, recoveryLink, recovers>>
  BY <1>5 DEF Links, RecoverersFit, RecoveredFits, LinksFit, LinksAreUnique, RecoveriesAreLinked, RecoveryOf
<1> QED
  BY <1>0, <1>1, <1>2, <1>3, <1>4, <1>5, FewStepsRecord
-----------------------------------------------------------------------------
(* A target in doubt *)

\* An attempt in doubt still occupies its target.
LEMMA UnsettledIsUnresolved ==
  ASSUME IndInv, Links, \A q \in Run : Course(q), NEW a \in Attempt, Unsettled(a)
  PROVE  Unresolved(a)
<1>1. \A b \in Attempt : attempt[b] = "verified" => b \in verification
  <2> SUFFICES ASSUME NEW b \in Attempt, attempt[b] = "verified" PROVE b \in verification
    OBVIOUS
  <2>1. PICK q \in Run, i \in Step : b = <<q, i>>
    BY DEF Attempt
  <2>2. attempt[<<q, i>>] = "verified" => <<q, i>> \in verification
    BY DEF Course
  <2> QED
    BY <2>1, <2>2
<1>2. a # NoAttempt
  BY ConstantsAssumption DEF ConstantsAssumption, Attempt
<1>3. \A b \in Attempt : attempt[b] = "verified" => RecoveryOf(b[1], b[2]) # a
  BY <1>1, <1>2 DEF Links, RecoveriesAreLinked, Unsettled
<1>4. recoveredBy[a] = NoAttempt
  BY <1>3 DEF IndInv, TypeOK, Links, RecoveredFits
<1> QED
  BY <1>3, <1>4 DEF Unsettled, Unresolved, Uncertain

\* Doubt about an attempt begins with its row only.
LEMMA DoubtBegins ==
  ASSUME IndInv, NEW r \in Run, StepOf(r), Course(r), NEW a \in Attempt, Unsettled(a)'
  PROVE  Unsettled(a) \/ (RecordAttempt(r) /\ a = Mine(r))
<1>0. TypeOK /\ Aside(r) /\ Mine(r) \in Attempt
  BY StepsAside DEF IndInv, TypeOK, Mine, Attempt
<1>1. attempt'[a] \in Uncertain
  BY DEF Unsettled, Uncertain
<1>2. \A v \in verification : <<a, v>> \notin recoveryLink
  BY <1>0 DEF Unsettled, Aside
<1>3. ASSUME attempt[a] \notin Uncertain PROVE RecordAttempt(r) /\ a = Mine(r)
  <2>1. a = Mine(r)
    BY <1>0, <1>1, <1>3 DEF Aside
  <2>2. CASE FinishAttempt(r)
    BY <1>3, <2>1, <2>2 DEF FinishAttempt, Course, Mine, Uncertain
  <2>3. CASE RecordVerification(r)
    BY <1>0, <1>1, <1>3, <2>1, <2>3 DEF RecordVerification, TypeOK, Uncertain
  <2>4. ASSUME NEW b \in Attempt \cup {NoAttempt}, Prepare(r, b) PROVE FALSE
    BY <1>1, <1>3, <2>4 DEF Prepare, index
  <2> QED
    BY <1>0, <1>1, <1>3, <2>1, <2>2, <2>3, <2>4, FewStepsRecord
<1> QED
  BY <1>2, <1>3 DEF Unsettled, Uncertain

LEMMA FrozenStep ==
  ASSUME IndInv, NEW r \in Run, StepOf(r), RecInv, NEW q \in Run
  PROVE  Frozen(q)'
<1>0. /\ TypeOK /\ Aside(r) /\ LeaseIsHeld /\ at[r] \in Step
      /\ Course(r) /\ Course(q) /\ Frozen(q) /\ Links
  BY StepsAside DEF IndInv, TypeOK, RecInv
<1> SUFFICES ASSUME pc'[q] = "recorded", NEW a \in Attempt,
                    ScopeAt(a[1], a[2]) = Here(q)', Unsettled(a)'
             PROVE  a \in {Mine(q)', RecoveryOf(q, at[q])'}
  BY DEF Frozen
<1>1. CASE RecordAttempt(r)
  <2>1. /\ UNCHANGED <<at, recovers>> /\ \A p \in Run \ {r} : pc'[p] = pc[p]
        /\ pc[r] = "leased" /\ CheckpointAllowed(r, NoAttempt)
    BY <1>0, <1>1 DEF RecordAttempt, Aside
  <2>2. Here(q)' = Here(q) /\ Mine(q)' = Mine(q) /\ RecoveryOf(q, at[q])' = RecoveryOf(q, at[q])
    BY <2>1 DEF Here, Mine, RecoveryOf
  <2>3. Mine(r)[1] = r /\ Mine(r)[2] = at[r]
    BY DEF Mine
  <2>4. CASE q = r
    <3>1. CASE a = Mine(r)
      BY <2>2, <2>4, <3>1
    <3>2. CASE a # Mine(r)
      <4>1. Unsettled(a)
        BY <1>0, <3>2, DoubtBegins
      <4>2. Unresolved(a)
        BY <4>1, UnsettledIsUnresolved DEF RecInv
      <4> QED
        BY <2>1, <2>2, <2>4, <4>2, ConstantsAssumption
        DEF CheckpointAllowed, ConstantsAssumption, Attempt
    <3> QED
      BY <3>1, <3>2
  <2>5. CASE q # r
    <3>1. lease[Here(q)] = q /\ lease[Here(r)] = r
      BY <1>0, <2>1, <2>5 DEF LeaseIsHeld, Holding
    <3>2. a # Mine(r)
      BY <2>2, <2>3, <2>5, <3>1 DEF Here
    <3>3. Unsettled(a)
      BY <1>0, <3>2, DoubtBegins
    <3> QED
      BY <1>0, <2>1, <2>2, <2>5, <3>3 DEF Frozen
  <2> QED
    BY <2>4, <2>5
<1>2. CASE ~RecordAttempt(r)
  <2>1. Unsettled(a)
    BY <1>0, <1>2, DoubtBegins
  <2>2. CASE q # r
    <3>1. pc'[q] = pc[q] /\ at'[q] = at[q] /\ recovers'[q] = recovers[q]
      BY <1>0, <2>2 DEF Aside
    <3>2. Here(q)' = Here(q) /\ Mine(q)' = Mine(q) /\ RecoveryOf(q, at[q])' = RecoveryOf(q, at[q])
      BY <3>1 DEF Here, Mine, RecoveryOf
    <3> QED
      BY <1>0, <2>1, <3>1, <3>2 DEF Frozen
  <2>3. CASE q = r
    <3>1. /\ \A b \in Attempt \cup {NoAttempt} : ~Prepare(r, b)
          /\ ~FinishAttempt(r) /\ ~RecordVerification(r)
      BY <1>0, <2>3 DEF Prepare, FinishAttempt, RecordVerification, StepEnds, Goto, TypeOK
    <3>2. pc[r] = "recorded" /\ at'[r] = at[r] /\ recovers' = recovers
      BY <1>0, <1>2, <2>3, <3>1, FewStepsRecord
    <3>3. Here(q)' = Here(q) /\ Mine(q)' = Mine(q) /\ RecoveryOf(q, at[q])' = RecoveryOf(q, at[q])
      BY <2>3, <3>2 DEF Here, Mine, RecoveryOf
    <3> QED
      BY <1>0, <2>1, <2>3, <3>2, <3>3 DEF Frozen
  <2> QED
    BY <2>2, <2>3
<1> QED
  BY <1>1, <1>2

-----------------------------------------------------------------------------
(* The theorems *)

LEMMA RecInit == Init => RecInv
<1> SUFFICES ASSUME Init PROVE RecInv
  OBVIOUS
<1>1. /\ \A r \in Run : /\ pc[r] = "idle" /\ at[r] = 1 /\ roll[r] = "none"
                        /\ recovers[r] = NoAttempt
      /\ \A a \in Attempt : attempt[a] = "none" /\ recoveredBy[a] = NoAttempt
      /\ verification = {} /\ recoveryLink = {} /\ proof = {}
      /\ \A r \in Run : \A i \in Step : <<r, i>> \in Attempt
  BY DEF Init, Attempt
<1>2. \A r \in Run : Course(r)
  BY <1>1 DEF Course
<1>3. \A r \in Run : Backing(r)
  BY <1>1 DEF Backing, Step
<1>4. \A r \in Run : Frozen(r)
  BY <1>1 DEF Frozen
<1>5. Links
  BY <1>1, ConstantsAssumption
  DEF Links, RecoverersFit, RecoveredFits, LinksFit, LinksAreUnique, RecoveriesAreLinked,
      ConstantsAssumption, Attempt
<1> QED
  BY <1>2, <1>3, <1>4, <1>5 DEF RecInv

LEMMA RecStutter == RecInv /\ UNCHANGED vars => RecInv'
<1> SUFFICES ASSUME RecInv, UNCHANGED vars PROVE RecInv'
  OBVIOUS
<1>1. UNCHANGED <<pc, at, recovers, attempt, recoveredBy, verification, recoveryLink, roll, receipt, proof>>
  BY DEF vars, process, index, files
<1>2. \A r \in Run : Course(r)'
  BY <1>1 DEF RecInv, Course, HereKind
<1>3. \A r \in Run : Backing(r)'
  BY <1>1 DEF RecInv, Backing, Backed, Verified, Promoted
<1>4. \A r \in Run : Frozen(r)'
  BY <1>1 DEF RecInv, Frozen, Here, Mine, RecoveryOf, Unsettled
<1>5. Links'
  BY <1>1 DEF RecInv, Links, RecoverersFit, RecoveredFits, LinksFit, LinksAreUnique,
     RecoveriesAreLinked, RecoveryOf
<1> QED
  BY <1>2, <1>3, <1>4, <1>5 DEF RecInv

LEMMA RecStep == IndInv /\ RecInv /\ [Next]_vars => RecInv'
<1>1. ASSUME IndInv, RecInv, NEW r \in Run, StepOf(r) PROVE RecInv'
  <2>1. Aside(r)
    BY <1>1, StepsAside DEF IndInv
  <2>2. \A q \in Run : Course(q)' /\ Backing(q)'
    <3> SUFFICES ASSUME NEW q \in Run PROVE Course(q)' /\ Backing(q)'
      OBVIOUS
    <3>1. CASE q = r
      BY <1>1, <3>1, OwnCourse, OwnBacking DEF RecInv
    <3>2. CASE q # r
      BY <1>1, <2>1, <3>2, OthersRecords DEF IndInv, RecInv
    <3> QED
      BY <3>1, <3>2
  <2>3. \A q \in Run : Frozen(q)'
    BY <1>1, FrozenStep
  <2>4. Links'
    BY <1>1, LinksStep DEF RecInv
  <2> QED
    BY <2>2, <2>3, <2>4 DEF RecInv
<1> QED
  BY <1>1, RecStutter DEF Next, StepOf

LEMMA RecordInvariance == Spec => [](IndInv /\ RecInv)
<1>1. Init => RecInv
  BY RecInit
<1> QED
  BY <1>1, RecStep, InitIndInv, StepIndInv, PTL DEF Spec

\* A completion proof, and a run recorded as verified, stand for a receipt
\* of every step and a settled write at every checkpoint.
THEOREM ProofBacked == Spec => []ProofIsBacked
<1>1. RecInv => ProofIsBacked
  BY DEF RecInv, Backing, Backed, Verified, ProofIsBacked
<1> QED
  BY <1>1, RecordInvariance, PTL

\* Production starts only when some staging run of the same capsule has
\* verified every checkpoint.
THEOREM PromotionsBacked == Spec => []PromotionBacked
<1>1. RecInv => PromotionBacked
  BY DEF RecInv, Backing, Promoted, Verified, PromotionBacked
<1> QED
  BY <1>1, RecordInvariance, PTL

\* No sequence of updates reaches an index that the next command refuses.
THEOREM IndexStaysValid == Spec => []IndexValid
<1>1. IndInv /\ RecInv => IndexValid
  <2> SUFFICES ASSUME IndInv, RecInv PROVE IndexValid
    OBVIOUS
  <2>1. \A v \in verification : roll[v[1]] # "none" /\ attempt[v] \in {"none", "verified"}
    <3> SUFFICES ASSUME NEW v \in verification
                 PROVE  roll[v[1]] # "none" /\ attempt[v] \in {"none", "verified"}
      OBVIOUS
    <3>1. PICK q \in Run, i \in Step : v = <<q, i>>
      BY DEF IndInv, TypeOK, Attempt
    <3>2. Course(q)
      BY DEF RecInv
    <3>3. /\ <<q, i>> \in verification => roll[q] # "none"
          /\ <<q, i>> \in verification => attempt[<<q, i>>] \in {"none", "verified"}
      BY <3>2 DEF Course
    <3> QED
      BY <3>1, <3>3
  <2>2. \A r \in Run : roll[r] = "verified" =>
          \A i \in Steps(r) : KindAt(r, i) = "feature-migrate" => <<r, i>> \in verification
    BY DEF RecInv, Backing, Backed, Verified
  <2>3. \A a \in Attempt : recoveredBy[a] \in Attempt \cup {NoAttempt}
    BY DEF IndInv, TypeOK
  <2>4. /\ RecoverersFit /\ RecoveredFits /\ LinksFit /\ LinksAreUnique /\ RecoveriesAreLinked
    BY DEF RecInv, Links
  <2> QED
    BY <2>1, <2>2, <2>3, <2>4
    DEF IndexValid, RecoverersFit, RecoveredFits, LinksFit, LinksAreUnique, RecoveriesAreLinked
<1> QED
  BY <1>1, RecordInvariance, PTL

\* An operation begins on a scope only when every attempt in doubt there is
\* its own or the one it was prepared to recover.
THEOREM TargetFrozen == Spec => UncertainTargetIsFrozen
<1>1. IndInv /\ RecInv /\ [Next]_vars =>
        [\A r \in live' \ live : \A a \in Attempt :
           ScopeAt(a[1], a[2]) = Here(r) /\ Unsettled(a)
           => a \in {Mine(r), RecoveryOf(r, at[r])}]_vars
  <2> SUFFICES ASSUME IndInv, RecInv, NEW s \in Run, StepOf(s),
                      NEW r \in live' \ live, NEW a \in Attempt,
                      ScopeAt(a[1], a[2]) = Here(r), Unsettled(a)
               PROVE  a \in {Mine(r), RecoveryOf(r, at[r])}
    BY DEF Next, StepOf
  <2>1. CASE StartSession(s)
    BY <2>1 DEF StartSession, RecInv, Frozen
  <2>2. CASE AllowAuxiliary(s)
    <3>1. Unresolved(a)
      BY UnsettledIsUnresolved DEF RecInv
    <3> QED
      BY <2>2, <3>1 DEF AllowAuxiliary
  <2>3. CASE StartRollout(s)
    BY <2>3 DEF StartRollout
  <2>4. CASE ~StartRollout(s) /\ ~StartSession(s) /\ ~AllowAuxiliary(s)
    BY <2>4, FewStepsGoFurther DEF IndInv
  <2> QED
    BY <2>1, <2>2, <2>3, <2>4
<1> QED
  BY <1>1, RecordInvariance, PTL DEF Spec, UncertainTargetIsFrozen
=============================================================================
