----------------------- MODULE LocalStateIndexProofs -----------------------
(***************************************************************************)
(* Proofs about LocalStateIndex for any set of processes: the lock file    *)
(* excludes, the schema-1 original is kept, and the protocol implements    *)
(* AtomicIndex.                                                            *)
(***************************************************************************)
EXTENDS LocalStateIndex, TLAPS

\* The copy in memory is the index of this moment, with or without the
\* update of its owner.
CopyIsCurrent ==
    \A p \in Process :
      /\ pc[p] = "loaded" => copy[p] = index
      /\ pc[p] \in {"updated", "retaining", "ready"} => copy[p] = index \cup {p}

\* What each control point says about the update of its process.
AnswersAreTrue ==
    \A p \in Process :
      /\ pc[p] \in {"replaced", "done"} => p \in index
      /\ pc[p] \in {"idle", "refused", "created", "locked", "loaded", "checking", "checked",
                    "updated", "retaining", "ready"} => p \notin index

\* The index is about to be replaced only when the original is kept.
KeptBeforeReady ==
    \A p \in Process : pc[p] = "ready" /\ legacy => retained = "complete"

IndInv ==
    TypeOK /\ LockNamesItsHolder /\ CopyIsCurrent /\ AnswersAreTrue /\ KeptBeforeReady

LEMMA InitIndInv == Init => IndInv
  BY NoProcessAssumption
  DEF Init, IndInv, TypeOK, LockNamesItsHolder, CopyIsCurrent, AnswersAreTrue,
      KeptBeforeReady, Inside, Answered, Stopped

\* Every step of every process preserves the inductive invariant.  A step
\* that changes the index, the lock or the retained copy is one of the
\* process that the lock file names, so no other process is inside.
LEMMA StepIndInv == IndInv /\ [Next]_vars => IndInv'
<1> SUFFICES ASSUME IndInv, [Next]_vars PROVE IndInv'
  OBVIOUS
<1> USE NoProcessAssumption
    DEF IndInv, TypeOK, LockNamesItsHolder, CopyIsCurrent, AnswersAreTrue,
        KeptBeforeReady, Inside, Answered, Stopped, Goto
<1>1. CASE UNCHANGED vars
  BY <1>1 DEF vars
<1>2. CASE Reconcile
  BY <1>2 DEF Reconcile
<1>3. ASSUME NEW p \in Process, Step(p) \/ Crash(p)
      PROVE  IndInv'
  <2>1. CASE Acquire(p)
    BY <2>1 DEF Acquire
  <2>2. CASE Refuse(p)
    BY <2>2 DEF Refuse
  <2>3. CASE Load(p)
    BY <2>3 DEF Load
  <2>4. CASE Check(p)
    BY <2>4 DEF Check
  <2>5. CASE Update(p)
    BY <2>5 DEF Update
  <2>6. CASE BeginRetaining(p)
    BY <2>6 DEF BeginRetaining
  <2>7. CASE FinishRetaining(p)
    BY <2>7 DEF FinishRetaining
  <2>8. CASE FoundRetained(p)
    BY <2>8 DEF FoundRetained
  <2>9. CASE Replace(p)
    <3>1. index' = index \cup {p} /\ pc' = [pc EXCEPT ![p] = "replaced"]
      BY <2>9 DEF Replace
    <3>2. \A q \in Process : q # p => pc[q] \notin Inside
      BY <2>9 DEF Replace
    <3>3. TypeOK' /\ LockNamesItsHolder' /\ KeptBeforeReady'
      BY <2>9, <3>1, <3>2 DEF Replace
    <3>4. CopyIsCurrent'
      BY <2>9, <3>1, <3>2 DEF Replace
    <3>5. AnswersAreTrue'
      BY <2>9, <3>1 DEF Replace
    <3> QED
      BY <3>3, <3>4, <3>5
  <2>10. CASE Fail(p)
    BY <2>10 DEF Fail
  <2>11. CASE Unlock(p)
    BY <2>11 DEF Unlock
  <2>12. CASE Crash(p)
    BY <2>12 DEF Crash
  <2>13. CASE WriteToken(p)
    BY <2>13 DEF WriteToken
  <2> QED
    BY <1>3, <2>1, <2>2, <2>3, <2>4, <2>5, <2>6, <2>7, <2>8, <2>9, <2>10, <2>11, <2>12,
       <2>13
    DEF Step
<1> QED
  BY <1>1, <1>2, <1>3 DEF Next

LEMMA Invariance == Spec => []IndInv
  BY InitIndInv, StepIndInv, PTL DEF Spec

\* The variables keep their types.
THEOREM TypeCorrect == Spec => []TypeOK
  BY Invariance, PTL DEF IndInv

\* At most one process is inside the lock, and the lock file names it.
THEOREM LockExcludes == Spec => []LockNamesItsHolder
  BY Invariance, PTL DEF IndInv

\* The schema-1 original is whole on disk when the index stops being it.
THEOREM OriginalKept == Spec => OriginalIsKept
<1>1. IndInv /\ [Next]_vars => [legacy /\ ~legacy' => retained = "complete"]_vars
  <2> SUFFICES ASSUME IndInv, Next, legacy, ~legacy'
               PROVE  retained = "complete"
    OBVIOUS
  <2>1. PICK p \in Process : Replace(p)
    BY DEF Next, Step, Crash, Reconcile, Acquire, Refuse, WriteToken, Load, Check, Update,
           BeginRetaining, FinishRetaining, FoundRetained, Fail, Unlock
  <2> QED
    BY <2>1 DEF Replace, IndInv, KeptBeforeReady
<1> QED
  BY <1>1, Invariance, PTL DEF Spec, OriginalIsKept

\* The protocol implements AtomicIndex: the replacement of the index is the
\* commit, every answer is the abstract answer, the rest stutters.
THEOREM Implements == Spec => IsAtomic
<1> DEFINE told == [p \in Process |-> Told(p)]
<1>1. Init => Abstract!Init
  BY DEF Init, Abstract!Init, Told, Answered, Stopped
<1>2. IndInv /\ [Next]_vars => [Abstract!Next]_<<index, told>>
  <2> SUFFICES ASSUME IndInv, [Next]_vars
               PROVE  Abstract!Next \/ UNCHANGED <<index, told>>
    BY DEF Abstract!Next
  <2> USE DEF IndInv, TypeOK, Told, Answered, Stopped, Goto
  <2>1. CASE UNCHANGED vars \/ Reconcile
    BY <2>1 DEF vars, Reconcile
  <2>2. ASSUME NEW p \in Process, Replace(p)
        PROVE  Abstract!Commit(p)
    BY <2>2 DEF Replace, CopyIsCurrent, Abstract!Commit
  <2>3. ASSUME NEW p \in Process, Refuse(p)
        PROVE  Abstract!Answer(p, "refused")
    BY <2>3 DEF Refuse, AnswersAreTrue, Abstract!Answer
  <2>4. ASSUME NEW p \in Process, Crash(p)
        PROVE  Abstract!Answer(p, "dead")
    BY <2>4 DEF Crash, Inside, Abstract!Answer
  <2>5. ASSUME NEW p \in Process, Unlock(p)
        PROVE  \E a \in {"done", "checked", "failed"} : Abstract!Answer(p, a)
    BY <2>5 DEF Unlock, AnswersAreTrue, Abstract!Answer
  <2>7. ASSUME NEW p \in Process, WriteToken(p)
        PROVE  Abstract!Answer(p, "failed") \/ UNCHANGED <<index, told>>
    BY <2>7 DEF WriteToken, AnswersAreTrue, Abstract!Answer
  <2>6. ASSUME NEW p \in Process, Acquire(p) \/ Load(p) \/ Check(p) \/ Update(p)
                 \/ BeginRetaining(p) \/ FinishRetaining(p) \/ FoundRetained(p) \/ Fail(p)
        PROVE  UNCHANGED <<index, told>>
    BY <2>6 DEF Acquire, Load, Check, Update, BeginRetaining, FinishRetaining,
                FoundRetained, Fail
  <2> QED
    BY <2>1, <2>2, <2>3, <2>4, <2>5, <2>6, <2>7 DEF Next, Step, Abstract!Next, Abstract!Result
<1> QED
  BY <1>1, <1>2, Invariance, PTL DEF Spec, IsAtomic, Abstract!Spec
=============================================================================
