------------------------- MODULE ApplicationPublishProofs -------------------------
(***************************************************************************)
(* The properties of ApplicationPublish for any number of publishes,       *)
(* checkouts, accounts and pages: imports of different accounts exclude    *)
(* each other, what a publish leaves behind is on its record, no work is   *)
(* replaced unseen and what is called verified is live.                    *)
(***************************************************************************)
EXTENDS ApplicationPublish, TLAPS

Importing == {"connected", "checked", "asserted", "written", "tagged"}
BeforeImport == {"idle", "acquire", "confirm", "drift", "stamp", "snapshot", "checkStage", "connect"}
AfterImport == {"importing", "export1", "export2", "check", "release", "releasing"}
Held == [status |-> "held", proof |-> TRUE]
Taken == {"acquisition-unknown", "held", "release-unknown"}

Shape ==
    /\ lock \in [owner : Account \cup {NoAccount}, by : Command \cup {NoCommand}]
    /\ reentered \in BOOLEAN
    /\ pc \in [Command -> PC]
    /\ sess \in [Command -> SessionState]
    /\ held \in [Command -> BOOLEAN]
    /\ attempted \in [Command -> BOOLEAN]
    /\ verified \in [Command -> BOOLEAN]
    /\ wrote \in [Command -> {"nothing", "pages", "all"}]
    /\ rec \in [Command -> Record]

\* An import that has asserted the lock still has it, unless an account raced
\* with itself.
Asserted == reentered \/ \A p \in Command : InImport(p) => LockIsMine(p)

\* Where a command is tells what its session can have done to the application.
Place(p) ==
    /\ pc[p] \in BeforeImport => wrote[p] = "nothing" /\ ~attempted[p] /\ sess[p] \notin Importing
    /\ pc[p] \in AfterImport => attempted[p]
    /\ pc[p] \in {"release", "releasing", "baseline"} => verified[p]
    /\ pc[p] = "baseline" => ~held[p]
    /\ pc[p] = "cleanup" /\ held[p] /\ ~attempted[p] => wrote[p] = "nothing" /\ sess[p] \notin Importing
    /\ pc[p] = "cleanupRelease" => wrote[p] = "nothing" /\ sess[p] \notin Importing
    /\ sess[p] \in {"connected", "checked", "asserted"} => wrote[p] = "nothing"

\* What the record says while a session may take the lock, holds it, imports
\* or has imported.
Recorded(p) ==
    /\ pc[p] \in (BeforeImport \cup AfterImport) \ {"idle", "acquire", "confirm", "release", "releasing"} => rec[p] = Held
    /\ sess[p] \in Importing => rec[p] = Held
    /\ wrote[p] # "nothing" /\ ~verified[p] => rec[p] = Held
    /\ sess[p] \in {"acquiring", "readFree"} => rec[p].status \in Taken
    /\ lock.by = p => rec[p].status \in Taken
    /\ sess[p] = "released" => lock.by # p

IndInv ==
    /\ Shape
    /\ Asserted
    /\ \A p \in Command : Place(p) /\ Recorded(p)

-----------------------------------------------------------------------------
LEMMA Initially == Init => IndInv
  <1> SUFFICES ASSUME Init PROVE IndInv
    OBVIOUS
  <1>1. Shape
    BY DEF Init, Shape, Free, NoRecord, Record, PC, SessionState
  <1>2. Asserted
    BY DEF Init, Asserted, InImport
  <1>3. ASSUME NEW p \in Command PROVE Place(p) /\ Recorded(p)
    BY ConstantsAssumption
    DEF Init, Place, Recorded, Importing, BeforeImport, AfterImport, Free, NoRecord
  <1> QED
    BY <1>1, <1>2, <1>3 DEF IndInv

LEMMA BeginKeeps == ASSUME IndInv, NEW q \in Command, Begin(q) PROVE IndInv'
  <1> USE DEF Begin, Goto, Session, SaveRecord, dbVars, checkoutVars, flagVars, runVars
  <1>1. Shape'
    BY DEF IndInv, Shape, Record, PC, SessionState
  <1>2. Asserted'
    BY ConstantsAssumption DEF IndInv, Shape, Asserted, InImport, LockIsMine, OwnAccount, Recorded
  <1>3. ASSUME NEW p \in Command PROVE Place(p)'
    BY DEF IndInv, Shape, Place, Recorded, Importing, BeforeImport, AfterImport
  <1>4. ASSUME NEW p \in Command PROVE Recorded(p)'
    <2>1. CASE p = q
      BY <2>1, ConstantsAssumption DEF IndInv, Shape, Place, Recorded, Importing, BeforeImport, AfterImport, Held, Taken, LockIsMine
    <2>2. CASE p # q
      BY <2>2, ConstantsAssumption DEF IndInv, Shape, Recorded, Importing, BeforeImport, AfterImport, Held, Taken, LockIsMine
    <2> QED
      BY <2>1, <2>2
  <1> QED
    BY <1>1, <1>2, <1>3, <1>4 DEF IndInv

LEMMA AcquireReturnsKeeps == ASSUME IndInv, NEW q \in Command, AcquireReturns(q) PROVE IndInv'
  <1> USE DEF AcquireReturns, Goto, SaveRecord, dbVars, checkoutVars, flagVars, runVars
  <1>1. Shape'
    BY DEF IndInv, Shape, Record, PC, SessionState
  <1>2. Asserted'
    BY ConstantsAssumption DEF IndInv, Shape, Asserted, InImport, LockIsMine, OwnAccount, Recorded
  <1>3. ASSUME NEW p \in Command PROVE Place(p)'
    BY DEF IndInv, Shape, Place, Recorded, Importing, BeforeImport, AfterImport
  <1>4. ASSUME NEW p \in Command PROVE Recorded(p)'
    <2>1. CASE p = q
      BY <2>1, ConstantsAssumption DEF IndInv, Shape, Place, Recorded, Importing, BeforeImport, AfterImport, Held, Taken, LockIsMine
    <2>2. CASE p # q
      BY <2>2, ConstantsAssumption DEF IndInv, Shape, Recorded, Importing, BeforeImport, AfterImport, Held, Taken, LockIsMine
    <2> QED
      BY <2>1, <2>2
  <1> QED
    BY <1>1, <1>2, <1>3, <1>4 DEF IndInv

LEMMA ConfirmHeldKeeps == ASSUME IndInv, NEW q \in Command, ConfirmHeld(q) PROVE IndInv'
  <1> USE DEF ConfirmHeld, Goto, SaveRecord, FirstCheck, dbVars, checkoutVars, flagVars, runVars
  <1>0. FirstCheck(q) \in {"drift", "stamp", "snapshot"}
    BY ConstantsAssumption DEF FirstCheck
  <1> HIDE DEF FirstCheck
  <1>1. Shape'
    BY <1>0 DEF IndInv, Shape, Record, PC, SessionState
  <1>2. Asserted'
    BY ConstantsAssumption DEF IndInv, Shape, Asserted, InImport, LockIsMine, OwnAccount, Recorded
  <1>3. ASSUME NEW p \in Command PROVE Place(p)'
    BY <1>0 DEF IndInv, Shape, Place, Recorded, Importing, BeforeImport, AfterImport
  <1>4. ASSUME NEW p \in Command PROVE Recorded(p)'
    <2>1. CASE p = q
      BY <2>1, ConstantsAssumption DEF IndInv, Shape, Place, Recorded, Importing, BeforeImport, AfterImport, Held, Taken, LockIsMine
    <2>2. CASE p # q
      BY <2>2, ConstantsAssumption DEF IndInv, Shape, Recorded, Importing, BeforeImport, AfterImport, Held, Taken, LockIsMine
    <2> QED
      BY <2>1, <2>2
  <1> QED
    BY <1>1, <1>2, <1>3, <1>4 DEF IndInv

LEMMA SendReleaseKeeps == ASSUME IndInv, NEW q \in Command, SendRelease(q) PROVE IndInv'
  <1> USE DEF SendRelease, Goto, Session, SaveRecord, dbVars, checkoutVars, flagVars, runVars
  <1>1. Shape'
    BY DEF IndInv, Shape, Record, PC, SessionState
  <1>2. Asserted'
    BY ConstantsAssumption DEF IndInv, Shape, Asserted, InImport, LockIsMine, OwnAccount, Recorded
  <1>3. ASSUME NEW p \in Command PROVE Place(p)'
    BY DEF IndInv, Shape, Place, Recorded, Importing, BeforeImport, AfterImport
  <1>4. ASSUME NEW p \in Command PROVE Recorded(p)'
    <2>1. CASE p = q
      BY <2>1, ConstantsAssumption DEF IndInv, Shape, Place, Recorded, Importing, BeforeImport, AfterImport, Held, Taken, LockIsMine
    <2>2. CASE p # q
      BY <2>2, ConstantsAssumption DEF IndInv, Shape, Recorded, Importing, BeforeImport, AfterImport, Held, Taken, LockIsMine
    <2> QED
      BY <2>1, <2>2
  <1> QED
    BY <1>1, <1>2, <1>3, <1>4 DEF IndInv

LEMMA ReleaseReturnsKeeps == ASSUME IndInv, NEW q \in Command, ReleaseReturns(q) PROVE IndInv'
  <1> USE DEF ReleaseReturns, Goto, SaveRecord, dbVars, checkoutVars, flagVars, runVars
  <1>1. Shape'
    BY DEF IndInv, Shape, Record, PC, SessionState
  <1>2. Asserted'
    BY ConstantsAssumption DEF IndInv, Shape, Asserted, InImport, LockIsMine, OwnAccount, Recorded
  <1>3. ASSUME NEW p \in Command PROVE Place(p)'
    BY DEF IndInv, Shape, Place, Recorded, Importing, BeforeImport, AfterImport
  <1>4. ASSUME NEW p \in Command PROVE Recorded(p)'
    <2>1. CASE p = q
      BY <2>1, ConstantsAssumption DEF IndInv, Shape, Place, Recorded, Importing, BeforeImport, AfterImport, Held, Taken, LockIsMine
    <2>2. CASE p # q
      BY <2>2, ConstantsAssumption DEF IndInv, Shape, Recorded, Importing, BeforeImport, AfterImport, Held, Taken, LockIsMine
    <2> QED
      BY <2>1, <2>2
  <1> QED
    BY <1>1, <1>2, <1>3, <1>4 DEF IndInv

LEMMA CleanupReleasesKeeps == ASSUME IndInv, NEW q \in Command, CleanupReleases(q) PROVE IndInv'
  <1> USE DEF CleanupReleases, Goto, Session, SaveRecord, dbVars, checkoutVars, flagVars, runVars
  <1>1. Shape'
    BY DEF IndInv, Shape, Record, PC, SessionState
  <1>2. Asserted'
    BY ConstantsAssumption DEF IndInv, Shape, Asserted, InImport, LockIsMine, OwnAccount, Recorded
  <1>3. ASSUME NEW p \in Command PROVE Place(p)'
    BY DEF IndInv, Shape, Place, Recorded, Importing, BeforeImport, AfterImport
  <1>4. ASSUME NEW p \in Command PROVE Recorded(p)'
    <2>1. CASE p = q
      BY <2>1, ConstantsAssumption DEF IndInv, Shape, Place, Recorded, Importing, BeforeImport, AfterImport, Held, Taken, LockIsMine
    <2>2. CASE p # q
      BY <2>2, ConstantsAssumption DEF IndInv, Shape, Recorded, Importing, BeforeImport, AfterImport, Held, Taken, LockIsMine
    <2> QED
      BY <2>1, <2>2
  <1> QED
    BY <1>1, <1>2, <1>3, <1>4 DEF IndInv

LEMMA CleanupReleasedKeeps == ASSUME IndInv, NEW q \in Command, CleanupReleased(q) PROVE IndInv'
  <1> USE DEF CleanupReleased, Ends, Goto, SaveRecord, dbVars, checkoutVars, flagVars, runVars
  <1>0. rec' \in [Command -> Record]
    <2>1. CASE sess[q] = "released"
      <3>1. rec' = [rec EXCEPT ![q] = [status |-> "released", proof |-> TRUE]]
        BY <2>1
      <3> QED
        BY <3>1 DEF IndInv, Shape, Record
    <2>2. CASE sess[q] # "released"
      BY <2>2 DEF IndInv, Shape
    <2> QED
      BY <2>1, <2>2
  <1>1. Shape'
    BY <1>0 DEF IndInv, Shape, PC, SessionState
  <1>2. Asserted'
    BY ConstantsAssumption DEF IndInv, Shape, Asserted, InImport, LockIsMine, OwnAccount, Recorded
  <1>3. ASSUME NEW p \in Command PROVE Place(p)'
    BY DEF IndInv, Shape, Place, Recorded, Importing, BeforeImport, AfterImport
  <1>4. ASSUME NEW p \in Command PROVE Recorded(p)'
    <2>1. CASE p = q
      BY <2>1, ConstantsAssumption DEF IndInv, Shape, Place, Recorded, Importing, BeforeImport, AfterImport, Held, Taken, LockIsMine
    <2>2. CASE p # q
      BY <2>2, ConstantsAssumption DEF IndInv, Shape, Recorded, Importing, BeforeImport, AfterImport, Held, Taken, LockIsMine
    <2> QED
      BY <2>1, <2>2
  <1> QED
    BY <1>1, <1>2, <1>3, <1>4 DEF IndInv

LEMMA AcquireLocksKeeps == ASSUME IndInv, NEW q \in Command, AcquireLocks(q) PROVE IndInv'
  <1> USE DEF AcquireLocks, Session, Free, OwnAccount, dbVars, checkoutVars, flagVars, runVars
  <1>0. \A p \in Command : OwnAccount(p) \in Account
    BY ConstantsAssumption DEF OwnAccount
  <1> USE DEF LockIsMine
  <1> HIDE DEF OwnAccount
  <1>1. Shape'
    <2>1. CASE lock.owner \in {NoAccount, OwnAccount(q)}
      <3>1. lock' \in [owner : Account \cup {NoAccount}, by : Command \cup {NoCommand}]
        BY <2>1, <1>0
      <3>2. reentered' \in BOOLEAN
        BY <2>1
      <3>3. sess' \in [Command -> SessionState]
        BY <2>1 DEF IndInv, Shape, SessionState
      <3> QED
        BY <3>1, <3>2, <3>3 DEF IndInv, Shape
    <2>2. CASE lock.owner \notin {NoAccount, OwnAccount(q)}
      BY <2>2 DEF IndInv, Shape, SessionState
    <2> QED
      BY <2>1, <2>2
  <1>2. Asserted'
    <2>1. CASE lock.owner \in {NoAccount, OwnAccount(q)} /\ lock # Free
      <3>1. reentered'
        BY <2>1
      <3> QED
        BY <3>1 DEF Asserted
    <2>2. CASE lock = Free
      <3>1. lock.owner = NoAccount
        BY <2>2
      <3>2. reentered \/ \A p \in Command : ~InImport(p)
        BY <3>1, <1>0, ConstantsAssumption DEF IndInv, Asserted
      <3>3. \A p \in Command : ~InImport(p) => ~InImport(p)'
        BY <3>1 DEF IndInv, Shape, InImport
      <3>4. reentered => reentered'
        BY <3>1
      <3> QED
        BY <3>2, <3>3, <3>4 DEF Asserted
    <2>3. CASE lock.owner \notin {NoAccount, OwnAccount(q)}
      BY <2>3 DEF IndInv, Shape, Asserted, InImport
    <2> QED
      BY <2>1, <2>2, <2>3
  <1>3. ASSUME NEW p \in Command PROVE Place(p)'
    BY DEF IndInv, Shape, Place, Recorded, Importing, BeforeImport, AfterImport
  <1>4. ASSUME NEW p \in Command PROVE Recorded(p)'
    <2>1. CASE p = q
      BY <2>1, ConstantsAssumption DEF IndInv, Shape, Place, Recorded, Importing, BeforeImport, AfterImport, Held, Taken, LockIsMine
    <2>2. CASE p # q
      BY <2>2, ConstantsAssumption DEF IndInv, Shape, Recorded, Importing, BeforeImport, AfterImport, Held, Taken, LockIsMine
    <2> QED
      BY <2>1, <2>2
  <1> QED
    BY <1>1, <1>2, <1>3, <1>4 DEF IndInv

LEMMA ReleaseRunsKeeps == ASSUME IndInv, NEW q \in Command, ReleaseRuns(q) PROVE IndInv'
  <1> USE DEF ReleaseRuns, Session, Free, dbVars, checkoutVars, flagVars, runVars
  <1>1. Shape'
    BY DEF IndInv, Shape, Record, PC, SessionState
  <1>2. Asserted'
    BY ConstantsAssumption DEF IndInv, Shape, Asserted, InImport, LockIsMine, OwnAccount, Recorded
  <1>3. ASSUME NEW p \in Command PROVE Place(p)'
    BY DEF IndInv, Shape, Place, Recorded, Importing, BeforeImport, AfterImport
  <1>4. ASSUME NEW p \in Command PROVE Recorded(p)'
    <2>1. CASE p = q
      BY <2>1, ConstantsAssumption DEF IndInv, Shape, Place, Recorded, Importing, BeforeImport, AfterImport, Held, Taken, LockIsMine
    <2>2. CASE p # q
      BY <2>2, ConstantsAssumption DEF IndInv, Shape, Recorded, Importing, BeforeImport, AfterImport, Held, Taken, LockIsMine
    <2> QED
      BY <2>1, <2>2
  <1> QED
    BY <1>1, <1>2, <1>3, <1>4 DEF IndInv

-----------------------------------------------------------------------------
\* No step of anybody disturbs the invariant.
LEMMA StepKeeps == IndInv /\ [Next]_vars => IndInv'
  <1> SUFFICES ASSUME IndInv, [Next]_vars PROVE IndInv'
    OBVIOUS
  <1> USE DEF IndInv, Shape, Asserted, Place, Recorded, InImport, LockIsMine, Importing, BeforeImport, AfterImport,
              Held, Taken, PC, SessionState, dbVars, checkoutVars, flagVars, runVars
  <1>1. ASSUME NEW q \in Command, Proceed(q) PROVE IndInv'
    <2>1. CASE DriftApproves(q)
      BY <2>1 DEF DriftApproves, Goto
    <2>2. CASE Stamp(q)
      BY <2>2 DEF Stamp, Goto
    <2>3. CASE Snapshot(q)
      BY <2>3 DEF Snapshot, Goto
    <2>4. CASE CheckStage(q)
      BY <2>4 DEF CheckStage, Goto
    <2>5. CASE Connect(q)
      BY <2>5 DEF Connect, Goto, Session
    <2>6. CASE ImportReturns(q)
      BY <2>6 DEF ImportReturns, Goto
    <2>7. CASE ImportFails(q)
      BY <2>7 DEF ImportFails, Goto
    <2>8. CASE FirstExport(q)
      BY <2>8 DEF FirstExport, Goto, Full
    <2>9. CASE SecondExport(q)
      BY <2>9 DEF SecondExport, Goto
    <2>10. CASE CheckLock(q)
      BY <2>10 DEF CheckLock, Goto
    <2>11. CASE RecordBaseline(q)
      BY <2>11 DEF RecordBaseline, Ends, Goto
    <2>12. CASE StepFails(q)
      BY <2>12 DEF StepFails, Goto, Running
    <2>13. CASE CleanupKeeps(q)
      BY <2>13 DEF CleanupKeeps, Ends, Goto
    <2> HIDE DEF IndInv
    <2> QED
      BY <1>1, <2>1, <2>2, <2>3, <2>4, <2>5, <2>6, <2>7, <2>8, <2>9, <2>10, <2>11, <2>12, <2>13,
         AcquireReturnsKeeps, ConfirmHeldKeeps, SendReleaseKeeps, ReleaseReturnsKeeps, CleanupReleasesKeeps, CleanupReleasedKeeps DEF Proceed
  <1>2. ASSUME NEW q \in Command, SessionMoves(q) PROVE IndInv'
    <2>1. CASE AcquireReads(q)
      BY <2>1 DEF AcquireReads, Session
    <2>2. CASE ImportChecks(q)
      BY <2>2 DEF ImportChecks, Session
    <2>3. CASE ImportAsserts(q)
      BY <2>3 DEF ImportAsserts, Session
    <2>4. CASE ImportWrites(q)
      BY <2>4 DEF ImportWrites, Session, Full, MakeLive
    <2>5. CASE ImportTags(q)
      BY <2>5 DEF ImportTags, Session, MakeLive
    <2>6. CASE ImportConcludes(q)
      BY <2>6 DEF ImportConcludes, Session
    <2>7. CASE SessionBreaks(q)
      BY <2>7 DEF SessionBreaks, Session, SessionOpen
    <2> HIDE DEF IndInv
    <2> QED
      BY <1>2, <2>1, <2>2, <2>3, <2>4, <2>5, <2>6, <2>7,
         AcquireLocksKeeps, ReleaseRunsKeeps DEF SessionMoves
  <1>3. ASSUME NEW q \in Command, Kill(q) PROVE IndInv'
    BY <1>3 DEF Kill, Ends, Goto, Running
  <1>4. ASSUME NEW a \in Account, BuilderSave(a) PROVE IndInv'
    BY <1>4 DEF BuilderSave
  <1>5. ASSUME NEW a \in Account, ManualUnlock(a) PROVE IndInv'
    BY <1>5, ConstantsAssumption DEF ManualUnlock, Free, OwnAccount
  <1>6. ASSUME NEW c \in Checkout, Export(c) \/ CheckoutOlder(c) PROVE IndInv'
    <2>1. UNCHANGED <<lock, reentered, pc, sess, flagVars>>
      BY <1>6 DEF Export, CheckoutOlder
    <2> QED
      BY <2>1
  <1>7. CASE UNCHANGED vars
    BY <1>7 DEF vars
  <1> HIDE DEF IndInv
  <1> QED
    BY <1>1, <1>2, <1>3, <1>4, <1>5, <1>6, <1>7, BeginKeeps DEF Next

LEMMA Invariance == Spec => []IndInv
  BY Initially, StepKeeps, PTL DEF Spec

-----------------------------------------------------------------------------
(* What the next part of the file proves: the contents of the application.   *)

\* What a checkout may overwrite: pages it has seen, the saves of its own
\* account and, the exception, half a partial import.
Mine(p, x) == Unseen(p, x) => HalfImported(x)

\* An import of which the tag is not live yet, or never will be.
Unfinished(x) == wrote[x] = "pages"

\* What a page can hold that was not there at the date "at" under the same tag.
Later(x, at) ==
    \/ x \in Command /\ Unfinished(x)
    \/ x \in Save /\ at < x.at /\ x.at <= live.at

\* The pages now, seen from an earlier state of the application and the
\* contents it had.
Since(state, pages) ==
    /\ state.tag \in tagsSeen
    /\ state.at <= clock
    /\ \A g \in Page : state.page[g] \in pages
    /\ ~repeated /\ state.tag = live.tag =>
           \A g \in Page : live.page[g] \in pages \/ Later(live.page[g], state.at)

PagesOf(state) == {state.page[g] : g \in Page}

\* A command that will import what it has compared, and its session.
Cleared(p) == pc[p] \in {"stamp", "checkStage", "connect"} \/ sess[p] \in {"connected", "checked", "asserted"}

\* Where a command is tells what its session does.
Course(p) ==
    /\ sess[p] \in {"acquiring", "readFree"} => pc[p] \in {"acquire", "cleanup", "over"}
    /\ pc[p] \in {"confirm", "drift", "stamp", "snapshot", "checkStage", "connect"} => sess[p] = "locked"
    /\ pc[p] \in {"export1", "export2", "check", "release"} => sess[p] = "done"
    /\ verified[p] =>
           /\ pc[p] \in {"release", "releasing", "baseline", "cleanup", "cleanupRelease", "over"}
           /\ sess[p] \in {"done", "releasing", "released", "refused", "broken"}

\* Under its lock, what a command is about to replace is its own to replace.
Covered(p) ==
    ~reentered /\ ~repeated /\ Mode[p] # "forced" /\ Cleared(p) /\ LockIsMine(p) =>
        \A g \in Selected[p] : Mine(p, live.page[g])

\* Under its lock, what a command has seen live stays live.
Shown(p) ==
    ~reentered /\ pc[p] \in {"export2", "check"} /\ LockIsMine(p) =>
        \A g \in Selected[p] : SameAccount(p, live.page[g])

LiveInv ==
    /\ TypeOK
    /\ live.at <= clock
    /\ live.tag \in tagsSeen
    /\ \A p \in Command : Course(p) /\ Covered(p) /\ Shown(p) /\ Since(approved[p], PagesOf(approved[p]))
    /\ \A c \in Checkout : Since(marker[c], seen[c])
    /\ ~reentered /\ ~repeated => \A x \in lost : HalfImported(x)

-----------------------------------------------------------------------------
LEMMA SomeTag == InitialTag \in Tag
  BY ConstantsAssumption DEF InitialTag, Tag

LEMMA SomeNextTag == ASSUME NEW line \in Tag, NEW c \in Checkout PROVE NextTag(line, c) \in Tag
  BY ConstantsAssumption DEF NextTag, Tag

LEMMA TypesInitially == Init => TypeOK
  <1> SUFFICES ASSUME Init PROVE TypeOK
    OBVIOUS
  <1>1. live \in Live
    BY SomeTag DEF Init, Live, Content, Initial, NULL
  <1>2. lock \in [owner : Account \cup {NoAccount}, by : Command \cup {NoCommand}]
    BY DEF Init, Free
  <1>3. rec \in [Command -> Record]
    BY DEF Init, NoRecord, Record
  <1> QED
    BY <1>1, <1>2, <1>3, SomeTag DEF Init, TypeOK, PC, SessionState, Content, Initial

LEMMA TypesOfCommands ==
  ASSUME TypeOK, NEW p \in Command, Begin(p) \/ Proceed(p) \/ Kill(p)
  PROVE  TypeOK'
  <1> USE DEF Goto, Session, SaveRecord, Ends, dbVars, checkoutVars, flagVars, runVars
  <1>0. CheckoutOf[p] \in Checkout
    BY ConstantsAssumption
  <1>1. CASE Begin(p)
    BY <1>1 DEF Begin, TypeOK, PC, SessionState, Record
  <1>2. CASE AcquireReturns(p)
    BY <1>2 DEF AcquireReturns, TypeOK, PC, Record
  <1>13. CASE SendRelease(p)
    BY <1>13 DEF SendRelease, TypeOK, PC, SessionState, Record
  <1>14. CASE ReleaseReturns(p)
    BY <1>14 DEF ReleaseReturns, TypeOK, PC, Record
  <1>15. CASE CleanupReleases(p)
    BY <1>15 DEF CleanupReleases, TypeOK, PC, SessionState, Record
  <1>3. CASE ConfirmHeld(p)
    <2>1. FirstCheck(p) \in PC
      BY ConstantsAssumption DEF FirstCheck, PC
    <2> QED
      BY <1>3, <2>1 DEF ConfirmHeld, TypeOK, Record
  <1>4. CASE CheckStage(p) \/ ImportFails(p) \/ SecondExport(p) \/ StepFails(p)
    BY <1>4 DEF CheckStage, ImportFails, SecondExport, StepFails, TypeOK, PC
  <1>16. CASE DriftApproves(p)
    BY <1>16 DEF DriftApproves, TypeOK, PC
  <1>17. CASE CheckLock(p)
    BY <1>17 DEF CheckLock, TypeOK, PC
  <1>5. CASE Stamp(p)
    <2>1. fileTag[CheckoutOf[p]] \in Tag /\ NextTag(fileTag[CheckoutOf[p]], CheckoutOf[p]) \in Tag
      BY <1>0, SomeNextTag DEF TypeOK
    <2> QED
      BY <1>5, <2>1 DEF Stamp, TypeOK, PC
  <1>6. CASE Snapshot(p)
    <2>1. NextTag(live.tag, CheckoutOf[p]) \in Tag
      BY <1>0, SomeNextTag DEF TypeOK, Live
    <2> QED
      BY <1>6, <2>1 DEF Snapshot, TypeOK, PC
  <1>7. CASE Connect(p) \/ ImportReturns(p)
    BY <1>7 DEF Connect, ImportReturns, TypeOK, PC, SessionState
  <1>8. CASE FirstExport(p)
    BY <1>8 DEF FirstExport, Full, TypeOK, PC
  <1>9. CASE RecordBaseline(p)
    <2>1. marker' \in [Checkout -> Live]
      BY <1>9, <1>0 DEF RecordBaseline, TypeOK
    <2>2. {approved[p].page[g] : g \in Page} \subseteq Content
      BY DEF TypeOK, Live
    <2>3. seen' \in [Checkout -> SUBSET Content]
      BY <1>9, <1>0, <2>2 DEF RecordBaseline, TypeOK
    <2>4. fileTag' \in [Checkout -> Tag]
      BY <1>9, <1>0 DEF RecordBaseline, TypeOK, Full
    <2> QED
      BY <1>9, <2>1, <2>3, <2>4, SomeTag DEF RecordBaseline, TypeOK, PC
  <1>10. CASE CleanupReleased(p)
    <2>1. rec' \in [Command -> Record]
      <3>1. CASE sess[p] = "released"
        <4>1. rec' = [rec EXCEPT ![p] = [status |-> "released", proof |-> TRUE]]
          BY <1>10, <3>1 DEF CleanupReleased
        <4> QED
          BY <4>1 DEF TypeOK, Record
      <3>2. CASE sess[p] # "released"
        BY <1>10, <3>2 DEF CleanupReleased, TypeOK
      <3> QED
        BY <3>1, <3>2
    <2>2. fileTag' \in [Checkout -> Tag]
      BY <1>10, <1>0 DEF CleanupReleased, UndoStamp, TypeOK
    <2> QED
      BY <1>10, <2>1, <2>2, SomeTag DEF CleanupReleased, TypeOK, PC
  <1>11. CASE CleanupKeeps(p)
    <2>1. fileTag' \in [Checkout -> Tag]
      BY <1>11, <1>0 DEF CleanupKeeps, UndoStamp, TypeOK
    <2> QED
      BY <1>11, <2>1, SomeTag DEF CleanupKeeps, TypeOK, PC
  <1>12. CASE Kill(p)
    BY <1>12, SomeTag DEF Kill, TypeOK, PC
  <1> QED
    BY <1>1, <1>2, <1>3, <1>4, <1>5, <1>6, <1>7, <1>8, <1>9, <1>10, <1>11, <1>12,
       <1>13, <1>14, <1>15, <1>16, <1>17 DEF Proceed

LEMMA TypesOfSessions ==
  ASSUME TypeOK, NEW p \in Command, SessionMoves(p)
  PROVE  TypeOK'
  <1> USE DEF Session, dbVars, checkoutVars, flagVars, runVars
  <1>1. CASE AcquireReads(p) \/ ImportChecks(p) \/ ImportAsserts(p) \/ ImportConcludes(p) \/ SessionBreaks(p)
    BY <1>1 DEF AcquireReads, ImportChecks, ImportAsserts, ImportConcludes, SessionBreaks, TypeOK, SessionState
  <1>2. CASE AcquireLocks(p)
    <2>1. OwnAccount(p) \in Account
      BY ConstantsAssumption DEF OwnAccount
    <2>2. lock' \in [owner : Account \cup {NoAccount}, by : Command \cup {NoCommand}]
      BY <1>2, <2>1 DEF AcquireLocks, TypeOK
    <2>4. reentered' \in BOOLEAN
      BY <1>2 DEF AcquireLocks, TypeOK
    <2>3. sess' \in [Command -> SessionState]
      BY <1>2 DEF AcquireLocks, TypeOK, SessionState
    <2> QED
      BY <1>2, <2>2, <2>3, <2>4 DEF AcquireLocks, TypeOK
  <1>3. CASE ReleaseRuns(p)
    <2>1. lock' \in [owner : Account \cup {NoAccount}, by : Command \cup {NoCommand}]
      BY <1>3 DEF ReleaseRuns, TypeOK, Free
    <2>2. sess' \in [Command -> SessionState]
      BY <1>3 DEF ReleaseRuns, TypeOK, SessionState
    <2> QED
      BY <1>3, <2>1, <2>2 DEF ReleaseRuns, TypeOK
  <1>4. CASE ImportWrites(p)
    <2>1. tag[p] \in Tag /\ p \in Content
      BY DEF TypeOK, Content
    <2>2. live' \in Live
      <3>1. CASE Full(p)
        BY <1>4, <3>1, <2>1 DEF ImportWrites, Live, NULL
      <3>2. CASE ~Full(p)
        <4>1. [g \in Page |-> IF g \in Selected[p] THEN p ELSE live.page[g]] \in [Page -> Content]
          BY <2>1 DEF TypeOK, Live
        <4>2. live' = [live EXCEPT !.page = [g \in Page |-> IF g \in Selected[p] THEN p ELSE live.page[g]]]
          BY <1>4, <3>2 DEF ImportWrites
        <4> QED
          BY <4>1, <4>2 DEF TypeOK, Live
      <3> QED
        BY <3>1, <3>2
    <2>3. lost' \subseteq Content
      BY <1>4, ConstantsAssumption DEF ImportWrites, Replaced, TypeOK, Live
    <2>4. tagsSeen' \subseteq Tag /\ repeated' \in BOOLEAN
      BY <1>4, <2>1 DEF ImportWrites, MakeLive, TypeOK
    <2>5. sess' \in [Command -> SessionState] /\ wrote' \in [Command -> {"nothing", "pages", "all"}]
      BY <1>4 DEF ImportWrites, TypeOK, SessionState
    <2> QED
      BY <1>4, <2>2, <2>3, <2>4, <2>5 DEF ImportWrites, TypeOK
  <1>5. CASE ImportTags(p)
    <2>1. tag[p] \in Tag
      BY DEF TypeOK
    <2>2. live' \in Live /\ clock' \in Nat
      <3>1. CASE LockIsMine(p) /\ live.tag = approved[p].tag
        <4>1. clock + 1 \in Nat
          BY DEF TypeOK
        <4>2. live' = [live EXCEPT !.tag = tag[p], !.at = clock + 1] /\ clock' = clock + 1
          BY <1>5, <3>1 DEF ImportTags
        <4> QED
          BY <4>1, <4>2, <2>1 DEF TypeOK, Live
      <3>2. CASE ~(LockIsMine(p) /\ live.tag = approved[p].tag)
        BY <1>5, <3>2 DEF ImportTags, TypeOK
      <3> QED
        BY <3>1, <3>2
    <2>3. tagsSeen' \subseteq Tag
      BY <1>5, <2>1 DEF ImportTags, MakeLive, TypeOK
    <2>5. repeated' \in BOOLEAN
      BY <1>5 DEF ImportTags, MakeLive, TypeOK
    <2>4. sess' \in [Command -> SessionState] /\ wrote' \in [Command -> {"nothing", "pages", "all"}]
      BY <1>5 DEF ImportTags, TypeOK, SessionState
    <2> QED
      BY <1>5, <2>2, <2>3, <2>4, <2>5 DEF ImportTags, TypeOK
  <1> QED
    BY <1>1, <1>2, <1>3, <1>4, <1>5 DEF SessionMoves

LEMMA TypesOfPeople ==
  ASSUME TypeOK,
         \/ \E a \in Account : BuilderSave(a) \/ ManualUnlock(a)
         \/ \E c \in Checkout : Export(c) \/ CheckoutOlder(c)
  PROVE  TypeOK'
  <1> USE DEF dbVars, checkoutVars, flagVars, runVars
  <1>1. ASSUME NEW a \in Account, BuilderSave(a) PROVE TypeOK'
    <2>1. PICK g \in Page : live' = [live EXCEPT !.at = clock + 1, !.page[g] = [by |-> a, at |-> clock + 1]]
      BY <1>1 DEF BuilderSave
    <2>2. [by |-> a, at |-> clock + 1] \in Content /\ clock + 1 \in Nat
      BY DEF TypeOK, Content, Save
    <2>3. live' \in Live
      BY <2>1, <2>2 DEF TypeOK, Live
    <2> QED
      BY <1>1, <2>2, <2>3 DEF BuilderSave, TypeOK
  <1>2. ASSUME NEW a \in Account, ManualUnlock(a) PROVE TypeOK'
    BY <1>2 DEF ManualUnlock, Free, TypeOK
  <1>3. ASSUME NEW c \in Checkout, Export(c) PROVE TypeOK'
    <2>1. {live.page[g] : g \in Page} \subseteq Content
      BY DEF TypeOK, Live
    <2>2. marker' \in [Checkout -> Live] /\ fileTag' \in [Checkout -> Tag]
      BY <1>3 DEF Export, TypeOK, Live
    <2>3. seen' \in [Checkout -> SUBSET Content]
      BY <1>3, <2>1 DEF Export, TypeOK
    <2> QED
      BY <1>3, <2>2, <2>3 DEF Export, TypeOK
  <1>4. ASSUME NEW c \in Checkout, CheckoutOlder(c) PROVE TypeOK'
    BY <1>4, SomeTag DEF CheckoutOlder, TypeOK
  <1> QED
    BY <1>1, <1>2, <1>3, <1>4

LEMMA TypesKept == TypeOK /\ [Next]_vars => TypeOK'
  <1>1. CASE UNCHANGED vars
    BY <1>1 DEF vars, dbVars, checkoutVars, flagVars, runVars, TypeOK
  <1> QED
    BY <1>1, TypesOfCommands, TypesOfSessions, TypesOfPeople DEF Next

-----------------------------------------------------------------------------
(* Which steps change what: the frames of the proofs below.                  *)

LEMMA WorldFrame ==
  ASSUME [Next]_vars
  PROVE  \/ UNCHANGED <<live, clock, tagsSeen, repeated, lost>>
         \/ \E q \in Command : ImportWrites(q) \/ ImportTags(q)
         \/ \E a \in Account : BuilderSave(a)
  <1> USE DEF dbVars, checkoutVars, flagVars, runVars
  <1>1. ASSUME NEW q \in Command, Begin(q) \/ Proceed(q) \/ Kill(q)
        PROVE  UNCHANGED <<live, clock, tagsSeen, repeated, lost>>
    BY <1>1 DEF Begin, Proceed, Kill, AcquireReturns, ConfirmHeld, DriftApproves, Stamp, Snapshot, CheckStage, Connect,
       ImportReturns, ImportFails, FirstExport, SecondExport, CheckLock, SendRelease, ReleaseReturns, RecordBaseline,
       StepFails, CleanupReleases, CleanupReleased, CleanupKeeps
  <1>2. ASSUME NEW q \in Command, SessionMoves(q), ~ImportWrites(q), ~ImportTags(q)
        PROVE  UNCHANGED <<live, clock, tagsSeen, repeated, lost>>
    BY <1>2 DEF SessionMoves, AcquireReads, AcquireLocks, ImportChecks, ImportAsserts, ImportConcludes, ReleaseRuns,
       SessionBreaks
  <1>3. ASSUME NEW a \in Account, ManualUnlock(a) PROVE UNCHANGED <<live, clock, tagsSeen, repeated, lost>>
    BY <1>3 DEF ManualUnlock
  <1>4. ASSUME NEW c \in Checkout, Export(c) \/ CheckoutOlder(c)
        PROVE  UNCHANGED <<live, clock, tagsSeen, repeated, lost>>
    BY <1>4 DEF Export, CheckoutOlder
  <1>5. CASE UNCHANGED vars
    BY <1>5 DEF vars
  <1> QED
    BY <1>1, <1>2, <1>3, <1>4, <1>5 DEF Next

LEMMA VerifiedFrame ==
  ASSUME TypeOK, [Next]_vars, NEW p \in Command, verified'[p] # verified[p]
  PROVE  CheckLock(p)
  <1> USE DEF dbVars, checkoutVars, flagVars, runVars
  <1>1. ASSUME NEW q \in Command, Begin(q) \/ Proceed(q) \/ Kill(q), ~CheckLock(q) PROVE verified' = verified
    BY <1>1 DEF Begin, Proceed, Kill, AcquireReturns, ConfirmHeld, DriftApproves, Stamp, Snapshot, CheckStage, Connect,
       ImportReturns, ImportFails, FirstExport, SecondExport, SendRelease, ReleaseReturns, RecordBaseline,
       StepFails, CleanupReleases, CleanupReleased, CleanupKeeps
  <1>2. ASSUME NEW q \in Command, SessionMoves(q) PROVE verified' = verified
    BY <1>2 DEF SessionMoves, AcquireReads, AcquireLocks, ImportChecks, ImportAsserts, ImportWrites, ImportTags,
       ImportConcludes, ReleaseRuns, SessionBreaks
  <1>3. ASSUME NEW a \in Account, BuilderSave(a) \/ ManualUnlock(a) PROVE verified' = verified
    BY <1>3 DEF BuilderSave, ManualUnlock
  <1>4. ASSUME NEW c \in Checkout, Export(c) \/ CheckoutOlder(c) PROVE verified' = verified
    BY <1>4 DEF Export, CheckoutOlder
  <1>5. ASSUME NEW q \in Command, CheckLock(q) PROVE CheckLock(p)
    <2>1. p = q
      BY <1>5 DEF CheckLock, TypeOK
    <2> QED
      BY <1>5, <2>1
  <1> QED
    BY <1>1, <1>2, <1>3, <1>4, <1>5 DEF Next, vars

\* Nothing but its import says what a command has written.
LEMMA WroteFrame ==
  ASSUME TypeOK, [Next]_vars, NEW p \in Command, wrote'[p] # wrote[p]
  PROVE  ImportWrites(p) \/ ImportTags(p)
  <1> USE DEF dbVars, checkoutVars, flagVars, runVars
  <1>1. ASSUME NEW q \in Command, Begin(q) \/ Proceed(q) \/ Kill(q) PROVE wrote' = wrote
    BY <1>1 DEF Begin, Proceed, Kill, AcquireReturns, ConfirmHeld, DriftApproves, Stamp, Snapshot, CheckStage, Connect,
       ImportReturns, ImportFails, FirstExport, SecondExport, CheckLock, SendRelease, ReleaseReturns, RecordBaseline,
       StepFails, CleanupReleases, CleanupReleased, CleanupKeeps
  <1>2. ASSUME NEW q \in Command, SessionMoves(q), ~ImportWrites(q), ~ImportTags(q) PROVE wrote' = wrote
    BY <1>2 DEF SessionMoves, AcquireReads, AcquireLocks, ImportChecks, ImportAsserts, ImportConcludes, ReleaseRuns,
       SessionBreaks
  <1>3. ASSUME NEW q \in Command, ImportWrites(q) \/ ImportTags(q) PROVE ImportWrites(p) \/ ImportTags(p)
    <2>1. p = q
      BY <1>3 DEF ImportWrites, ImportTags, TypeOK
    <2> QED
      BY <1>3, <2>1
  <1>4. ASSUME NEW a \in Account, BuilderSave(a) \/ ManualUnlock(a) PROVE wrote' = wrote
    BY <1>4 DEF BuilderSave, ManualUnlock
  <1>5. ASSUME NEW c \in Checkout, Export(c) \/ CheckoutOlder(c) PROVE wrote' = wrote
    BY <1>5 DEF Export, CheckoutOlder
  <1> QED
    BY <1>1, <1>2, <1>3, <1>4, <1>5 DEF Next, vars

\* A session comes to its import only by the assertion of the lock.
LEMMA ImportFrame ==
  ASSUME TypeOK, [Next]_vars, NEW p \in Command, InImport(p)', ~InImport(p)
  PROVE  sess[p] = "checked"
  <1> USE DEF dbVars, checkoutVars, flagVars, runVars, Session, TypeOK, InImport
  <1>1. ASSUME NEW q \in Command, Begin(q) \/ Proceed(q) \/ Kill(q) PROVE FALSE
    <2>1. CASE Begin(q)
      BY <2>1 DEF Begin
    <2>2. CASE SendRelease(q)
      BY <2>2 DEF SendRelease
    <2>3. CASE CleanupReleases(q)
      BY <2>3 DEF CleanupReleases
    <2>4. CASE Connect(q)
      BY <2>4 DEF Connect
    <2>5. CASE ~Begin(q) /\ ~SendRelease(q) /\ ~CleanupReleases(q) /\ ~Connect(q)
      <3>1. sess' = sess
        BY <1>1, <2>5 DEF Proceed, Kill, AcquireReturns, ConfirmHeld, DriftApproves, Stamp, Snapshot, CheckStage,
           ImportReturns, ImportFails, FirstExport, SecondExport, CheckLock, ReleaseReturns, RecordBaseline,
           StepFails, CleanupReleased, CleanupKeeps
      <3> QED
        BY <3>1
    <2> QED
      BY <2>1, <2>2, <2>3, <2>4, <2>5
  <1>2. ASSUME NEW q \in Command, SessionMoves(q) PROVE sess[p] = "checked"
    <2>1. CASE AcquireReads(q) \/ ImportChecks(q) \/ SessionBreaks(q)
      BY <2>1 DEF AcquireReads, ImportChecks, SessionBreaks
    <2>2. CASE AcquireLocks(q)
      BY <2>2 DEF AcquireLocks
    <2>3. CASE ReleaseRuns(q)
      BY <2>3 DEF ReleaseRuns
    <2>4. CASE ImportConcludes(q)
      BY <2>4 DEF ImportConcludes
    <2>5. CASE ImportAsserts(q)
      BY <2>5 DEF ImportAsserts
    <2>6. CASE ImportWrites(q) \/ ImportTags(q)
      BY <2>6 DEF ImportWrites, ImportTags
    <2> QED
      BY <1>2, <2>1, <2>2, <2>3, <2>4, <2>5, <2>6 DEF SessionMoves
  <1>3. ASSUME NEW a \in Account, BuilderSave(a) \/ ManualUnlock(a) PROVE FALSE
    BY <1>3 DEF BuilderSave, ManualUnlock
  <1>4. ASSUME NEW c \in Checkout, Export(c) \/ CheckoutOlder(c) PROVE FALSE
    BY <1>4 DEF Export, CheckoutOlder
  <1>5. ~UNCHANGED vars
    BY DEF vars
  <1> QED
    BY <1>1, <1>2, <1>3, <1>4, <1>5 DEF Next

\* A lock becomes a command's own only when its session takes it.
LEMMA LockFrame ==
  ASSUME [Next]_vars, NEW p \in Command, LockIsMine(p)', ~LockIsMine(p)
  PROVE  AcquireLocks(p)
  <1> USE DEF dbVars, checkoutVars, flagVars, runVars
  <1>1. ASSUME NEW q \in Command, Begin(q) \/ Proceed(q) \/ Kill(q) PROVE lock' = lock
    BY <1>1 DEF Begin, Proceed, Kill, AcquireReturns, ConfirmHeld, DriftApproves, Stamp, Snapshot, CheckStage, Connect,
       ImportReturns, ImportFails, FirstExport, SecondExport, CheckLock, SendRelease, ReleaseReturns, RecordBaseline,
       StepFails, CleanupReleases, CleanupReleased, CleanupKeeps
  <1>2. ASSUME NEW q \in Command, SessionMoves(q), ~AcquireLocks(q), ~ReleaseRuns(q) PROVE lock' = lock
    BY <1>2 DEF SessionMoves, AcquireReads, ImportChecks, ImportAsserts, ImportWrites, ImportTags,
       ImportConcludes, SessionBreaks
  <1>3. ASSUME NEW q \in Command, ReleaseRuns(q) PROVE lock' \in {lock, Free}
    BY <1>3 DEF ReleaseRuns
  <1>4. ASSUME NEW q \in Command, AcquireLocks(q), q # p PROVE lock' = lock \/ lock'.by = q
    BY <1>4 DEF AcquireLocks
  <1>5. ASSUME NEW a \in Account, BuilderSave(a) \/ ManualUnlock(a) PROVE lock' \in {lock, Free}
    BY <1>5 DEF BuilderSave, ManualUnlock
  <1>6. ASSUME NEW c \in Checkout, Export(c) \/ CheckoutOlder(c) PROVE lock' = lock
    BY <1>6 DEF Export, CheckoutOlder
  <1>7. lock' # lock /\ lock' # Free
    BY ConstantsAssumption DEF LockIsMine, OwnAccount, Free
  <1>8. \A q \in Command : lock'.by = q => q = p
    BY DEF LockIsMine
  <1> QED
    BY <1>1, <1>2, <1>3, <1>4, <1>5, <1>6, <1>7, <1>8 DEF Next, vars

LEMMA ReenteredFrame ==
  ASSUME [Next]_vars, reentered
  PROVE  reentered'
  <1> USE DEF dbVars, checkoutVars, flagVars, runVars
  <1>1. ASSUME NEW q \in Command, Begin(q) \/ Proceed(q) \/ Kill(q) PROVE reentered' = reentered
    BY <1>1 DEF Begin, Proceed, Kill, AcquireReturns, ConfirmHeld, DriftApproves, Stamp, Snapshot, CheckStage, Connect,
       ImportReturns, ImportFails, FirstExport, SecondExport, CheckLock, SendRelease, ReleaseReturns, RecordBaseline,
       StepFails, CleanupReleases, CleanupReleased, CleanupKeeps
  <1>2. ASSUME NEW q \in Command, SessionMoves(q) PROVE reentered'
    BY <1>2 DEF SessionMoves, AcquireReads, AcquireLocks, ImportChecks, ImportAsserts, ImportWrites, ImportTags,
       ImportConcludes, ReleaseRuns, SessionBreaks
  <1>3. ASSUME NEW a \in Account, BuilderSave(a) \/ ManualUnlock(a) PROVE reentered'
    BY <1>3 DEF BuilderSave, ManualUnlock
  <1>4. ASSUME NEW c \in Checkout, Export(c) \/ CheckoutOlder(c) PROVE reentered'
    BY <1>4 DEF Export, CheckoutOlder
  <1> QED
    BY <1>1, <1>2, <1>3, <1>4 DEF Next, vars

LEMMA RepeatedFrame ==
  ASSUME [Next]_vars, repeated
  PROVE  repeated'
  <1>1. ASSUME NEW q \in Command, ImportWrites(q) \/ ImportTags(q) PROVE repeated'
    BY <1>1 DEF ImportWrites, ImportTags, MakeLive
  <1>2. ASSUME NEW a \in Account, BuilderSave(a) PROVE repeated'
    BY <1>2 DEF BuilderSave
  <1> QED
    BY <1>1, <1>2, WorldFrame

\* A checkout forgets nothing it has seen, and takes its baseline from what is
\* live or from what a publish of it has read back.
LEMMA CheckoutFrame ==
  ASSUME TypeOK, [Next]_vars, NEW c \in Checkout
  PROVE  \/ marker'[c] = marker[c] /\ seen'[c] = seen[c]
         \/ marker'[c] = live /\ seen'[c] = seen[c] \cup PagesOf(live)
         \/ \E p \in Command : marker'[c] = approved[p] /\ seen'[c] = seen[c] \cup PagesOf(approved[p])
  <1> USE DEF dbVars, checkoutVars, flagVars, runVars
  <1>1. ASSUME NEW q \in Command, Begin(q) \/ Proceed(q) \/ Kill(q), ~RecordBaseline(q)
        PROVE  marker' = marker /\ seen' = seen
    BY <1>1 DEF Begin, Proceed, Kill, AcquireReturns, ConfirmHeld, DriftApproves, Stamp, Snapshot, CheckStage, Connect,
       ImportReturns, ImportFails, FirstExport, SecondExport, CheckLock, SendRelease, ReleaseReturns,
       StepFails, CleanupReleases, CleanupReleased, CleanupKeeps
  <1>2. ASSUME NEW q \in Command, SessionMoves(q) PROVE marker' = marker /\ seen' = seen
    BY <1>2 DEF SessionMoves, AcquireReads, AcquireLocks, ImportChecks, ImportAsserts, ImportWrites, ImportTags,
       ImportConcludes, ReleaseRuns, SessionBreaks
  <1>3. ASSUME NEW a \in Account, BuilderSave(a) \/ ManualUnlock(a) PROVE marker' = marker /\ seen' = seen
    BY <1>3 DEF BuilderSave, ManualUnlock
  <1>4. ASSUME NEW d \in Checkout, CheckoutOlder(d) PROVE marker' = marker /\ seen' = seen
    BY <1>4 DEF CheckoutOlder
  <1>5. ASSUME NEW d \in Checkout, Export(d)
        PROVE  \/ marker'[c] = marker[c] /\ seen'[c] = seen[c]
               \/ marker'[c] = live /\ seen'[c] = seen[c] \cup PagesOf(live)
    BY <1>5 DEF Export, TypeOK, PagesOf
  <1>6. ASSUME NEW q \in Command, RecordBaseline(q)
        PROVE  \/ marker'[c] = marker[c] /\ seen'[c] = seen[c]
               \/ marker'[c] = approved[q] /\ seen'[c] = seen[c] \cup PagesOf(approved[q])
    BY <1>6 DEF RecordBaseline, TypeOK, PagesOf
  <1> QED
    BY <1>1, <1>2, <1>3, <1>4, <1>5, <1>6 DEF Next, vars

\* What a command has approved is what it has seen live.
LEMMA ApprovedFrame ==
  ASSUME TypeOK, [Next]_vars, NEW p \in Command
  PROVE  approved'[p] \in {approved[p], live}
  <1> USE DEF dbVars, checkoutVars, flagVars, runVars
  <1>1. ASSUME NEW q \in Command, DriftApproves(q) \/ Snapshot(q) \/ FirstExport(q) PROVE approved'[p] \in {approved[p], live}
    BY <1>1 DEF DriftApproves, Snapshot, FirstExport, TypeOK
  <1>2. ASSUME NEW q \in Command, Begin(q) \/ Proceed(q) \/ Kill(q), ~DriftApproves(q), ~Snapshot(q), ~FirstExport(q)
        PROVE  approved' = approved
    BY <1>2 DEF Begin, Proceed, Kill, AcquireReturns, ConfirmHeld, Stamp, CheckStage, Connect,
       ImportReturns, ImportFails, SecondExport, CheckLock, SendRelease, ReleaseReturns, RecordBaseline,
       StepFails, CleanupReleases, CleanupReleased, CleanupKeeps
  <1>3. ASSUME NEW q \in Command, SessionMoves(q) PROVE approved' = approved
    BY <1>3 DEF SessionMoves, AcquireReads, AcquireLocks, ImportChecks, ImportAsserts, ImportWrites, ImportTags,
       ImportConcludes, ReleaseRuns, SessionBreaks
  <1>4. ASSUME NEW a \in Account, BuilderSave(a) \/ ManualUnlock(a) PROVE approved' = approved
    BY <1>4 DEF BuilderSave, ManualUnlock
  <1>5. ASSUME NEW d \in Checkout, Export(d) \/ CheckoutOlder(d) PROVE approved' = approved
    BY <1>5 DEF Export, CheckoutOlder
  <1> QED
    BY <1>1, <1>2, <1>3, <1>4, <1>5 DEF Next, vars

-----------------------------------------------------------------------------
LEMMA CourseKept ==
  ASSUME TypeOK, [Next]_vars, \A p \in Command : Course(p)
  PROVE  \A p \in Command : Course(p)'
  <1> SUFFICES ASSUME NEW p \in Command PROVE Course(p)'
    OBVIOUS
  <1> USE DEF dbVars, checkoutVars, flagVars, runVars, Goto, Session, TypeOK, Course
  <1>1. ASSUME NEW q \in Command, Begin(q) PROVE Course(p)'
    BY <1>1 DEF Begin
  <1>7. ASSUME NEW q \in Command, pc' = [pc EXCEPT ![q] = "over"], UNCHANGED <<sess, verified>> PROVE Course(p)'
    BY <1>7
  <1>8. ASSUME NEW q \in Command, Kill(q) PROVE Course(p)'
    BY <1>8, <1>7 DEF Kill, Ends
  <1>2. ASSUME NEW q \in Command, Proceed(q) PROVE Course(p)'
    <2>1. CASE ConfirmHeld(q)
      <3>1. FirstCheck(q) \in {"drift", "stamp", "snapshot"}
        BY ConstantsAssumption DEF FirstCheck
      <3> QED
        BY <2>1, <3>1 DEF ConfirmHeld
    <2>2. CASE AcquireReturns(q) \/ DriftApproves(q) \/ Stamp(q) \/ Snapshot(q) \/ CheckStage(q)
      BY <2>2 DEF AcquireReturns, DriftApproves, Stamp, Snapshot, CheckStage
    <2>3. CASE Connect(q) \/ ImportReturns(q) \/ ImportFails(q)
      BY <2>3 DEF Connect, ImportReturns, ImportFails
    <2>4. CASE FirstExport(q)
      BY <2>4 DEF FirstExport
    <2>5. CASE SecondExport(q)
      BY <2>5 DEF SecondExport
    <2>6. CASE CheckLock(q)
      BY <2>6 DEF CheckLock
    <2>7. CASE SendRelease(q)
      BY <2>7 DEF SendRelease
    <2>10. CASE ReleaseReturns(q)
      BY <2>10 DEF ReleaseReturns
    <2>8. CASE StepFails(q)
      BY <2>8 DEF StepFails, Running
    <2>11. CASE CleanupReleases(q)
      BY <2>11 DEF CleanupReleases
    <2>9. CASE RecordBaseline(q) \/ CleanupReleased(q) \/ CleanupKeeps(q)
      BY <2>9, <1>7 DEF RecordBaseline, CleanupReleased, CleanupKeeps, Ends
    <2> QED
      BY <1>2, <2>1, <2>2, <2>3, <2>4, <2>5, <2>6, <2>7, <2>8, <2>9, <2>10, <2>11 DEF Proceed
  <1>3. ASSUME NEW q \in Command, SessionMoves(q) PROVE Course(p)'
    <2>1. CASE AcquireReads(q) \/ ImportChecks(q) \/ ImportAsserts(q) \/ ImportConcludes(q)
      BY <2>1 DEF AcquireReads, ImportChecks, ImportAsserts, ImportConcludes
    <2>2. CASE AcquireLocks(q)
      BY <2>2 DEF AcquireLocks
    <2>3. CASE ImportWrites(q)
      BY <2>3 DEF ImportWrites
    <2>4. CASE ImportTags(q)
      BY <2>4 DEF ImportTags
    <2>5. CASE ReleaseRuns(q)
      BY <2>5 DEF ReleaseRuns
    <2>6. CASE SessionBreaks(q)
      BY <2>6 DEF SessionBreaks, SessionOpen
    <2> QED
      BY <1>3, <2>1, <2>2, <2>3, <2>4, <2>5, <2>6 DEF SessionMoves
  <1>4. ASSUME NEW a \in Account, BuilderSave(a) \/ ManualUnlock(a) PROVE Course(p)'
    BY <1>4 DEF BuilderSave, ManualUnlock
  <1>5. ASSUME NEW c \in Checkout, Export(c) \/ CheckoutOlder(c) PROVE Course(p)'
    BY <1>5 DEF Export, CheckoutOlder
  <1>6. CASE UNCHANGED vars
    BY <1>6 DEF vars
  <1> QED
    BY <1>1, <1>2, <1>3, <1>4, <1>5, <1>6, <1>8 DEF Next

-----------------------------------------------------------------------------
(* A state seen earlier, after a step that leaves it alone.                  *)
StillLater(x, at) ==
    \/ x \in Command /\ wrote'[x] = "pages"
    \/ x \in Save /\ at < x.at /\ x.at <= live'.at

StillSince(state, pages) ==
    /\ state.tag \in tagsSeen'
    /\ state.at <= clock'
    /\ \A g \in Page : state.page[g] \in pages
    /\ ~repeated' /\ state.tag = live'.tag =>
           \A g \in Page : live'.page[g] \in pages \/ StillLater(live'.page[g], state.at)

\* Only its own import takes a command on from its pages.
LEMMA UnfinishedKept ==
  ASSUME TypeOK, [Next]_vars, NEW x \in Command, Unfinished(x), ~ImportWrites(x), ~ImportTags(x)
  PROVE  wrote'[x] = "pages"
  BY WroteFrame DEF Unfinished

\* Half an import stays half: its session does not come back.
LEMMA HalfKept ==
  ASSUME IndInv, TypeOK, [Next]_vars, NEW x, HalfImported(x)
  PROVE  HalfImported(x)'
  <1>1. x \in Command /\ ~InImport(x) /\ wrote[x] = "pages"
    BY DEF HalfImported
  <1>2. ~ImportWrites(x) /\ ~ImportTags(x)
    BY <1>1 DEF ImportWrites, ImportTags, InImport
  <1>3. sess[x] # "checked"
    BY <1>1 DEF IndInv, Place
  <1> QED
    BY <1>1, <1>2, <1>3, WroteFrame, ImportFrame DEF HalfImported

\* A tag that becomes live is new, or has been live twice.
LEMMA EraEnds ==
  ASSUME LiveInv, NEW q \in Command, NEW state, NEW pages, Since(state, pages), tagsSeen' = tagsSeen \cup {tag[q]},
         repeated' = (repeated \/ tag[q] \in tagsSeen), live'.tag = tag[q], state.at <= clock'
  PROVE  StillSince(state, pages)
  BY DEF StillSince, Since

LEMMA SinceAfterWrite ==
  ASSUME LiveInv, [Next]_vars, NEW q \in Command, ImportWrites(q), NEW state, state.at \in Nat, NEW pages, Since(state, pages)
  PROVE  StillSince(state, pages)
  <1> USE DEF LiveInv, dbVars
  <1>1. clock' = clock
    BY DEF ImportWrites
  <1>2. CASE Full(q)
    BY <1>1, <1>2, EraEnds DEF ImportWrites, MakeLive, Since
  <1>3. CASE ~Full(q)
    <2>1. live' = [live EXCEPT !.page = [g \in Page |-> IF g \in Selected[q] THEN q ELSE live.page[g]]]
      BY <1>3 DEF ImportWrites
    <2>2. live'.tag = live.tag /\ live'.at = live.at
          /\ \A g \in Page : live'.page[g] \in {q, live.page[g]}
      BY <2>1 DEF TypeOK, Live
    <2>3. tagsSeen' = tagsSeen /\ repeated' = repeated
      BY <1>3 DEF ImportWrites
    <2>4. wrote'[q] = "pages"
      BY <1>3 DEF ImportWrites, TypeOK
    <2>5. ASSUME NEW x \in Command, Unfinished(x) PROVE wrote'[x] = "pages"
      BY <1>3, <2>5 DEF ImportWrites, TypeOK, Unfinished
    <2>6. ASSUME NEW x, Later(x, state.at) PROVE StillLater(x, state.at)
      BY <2>2, <2>5, <2>6 DEF Later, StillLater
    <2>7. StillLater(q, state.at)
      BY <2>4 DEF StillLater
    <2> QED
      BY <1>1, <2>2, <2>3, <2>6, <2>7 DEF Since, StillSince
  <1> QED
    BY <1>2, <1>3

LEMMA SinceAfterTag ==
  ASSUME LiveInv, [Next]_vars, NEW q \in Command, ImportTags(q), NEW state, state.at \in Nat, NEW pages, Since(state, pages)
  PROVE  StillSince(state, pages)
  <1> USE DEF LiveInv
  <1>1. CASE LockIsMine(q) /\ live.tag = approved[q].tag
    <2>1. live' = [live EXCEPT !.tag = tag[q], !.at = clock + 1] /\ clock' = clock + 1
      BY <1>1 DEF ImportTags
    <2>2. live'.tag = tag[q]
      BY <2>1 DEF TypeOK, Live
    <2>3. state.at <= clock'
      BY <2>1 DEF Since, TypeOK
    <2> QED
      BY <1>1, <2>2, <2>3, EraEnds DEF ImportTags, MakeLive
  <1>2. CASE ~(LockIsMine(q) /\ live.tag = approved[q].tag)
    <2>1. UNCHANGED <<live, clock, tagsSeen, repeated, wrote>>
      BY <1>2 DEF ImportTags
    <2>2. ASSUME NEW x, Later(x, state.at) PROVE StillLater(x, state.at)
      BY <2>1, <2>2 DEF Later, StillLater, Unfinished, TypeOK
    <2> QED
      BY <2>1, <2>2 DEF Since, StillSince
  <1> QED
    BY <1>1, <1>2

LEMMA SinceAfterSave ==
  ASSUME LiveInv, [Next]_vars, NEW a \in Account, BuilderSave(a), NEW state, state.at \in Nat, NEW pages, Since(state, pages)
  PROVE  StillSince(state, pages)
  <1> USE DEF LiveInv
  <1>1. PICK h \in Page : live' = [live EXCEPT !.at = clock + 1, !.page[h] = [by |-> a, at |-> clock + 1]]
    BY DEF BuilderSave
  <1>2. clock \in Nat /\ live.at \in Nat /\ live.at <= clock /\ clock' = clock + 1
    BY DEF BuilderSave, TypeOK, Live
  <1>3. /\ live'.tag = live.tag /\ live'.at = clock + 1
        /\ \A g \in Page : g # h => live'.page[g] = live.page[g]
        /\ live'.page[h] = [by |-> a, at |-> clock + 1]
    BY <1>1 DEF TypeOK, Live
  <1>4. UNCHANGED <<tagsSeen, repeated, wrote>>
    BY DEF BuilderSave, flagVars
  <1>5. ASSUME NEW x, Later(x, state.at) PROVE StillLater(x, state.at)
    <2>1. CASE x \in Command /\ Unfinished(x)
      BY <2>1, <1>4 DEF StillLater, Unfinished
    <2>2. CASE x \in Save /\ state.at < x.at /\ x.at <= live.at
      <3>1. x.at \in Nat
        BY <2>2 DEF Save
      <3> QED
        BY <2>2, <3>1, <1>2, <1>3 DEF StillLater
    <2> QED
      BY <1>5, <2>1, <2>2 DEF Later
  <1>6. StillLater(live'.page[h], state.at)
    <2>1. live'.page[h] \in Save /\ live'.page[h].at = clock + 1
      BY <1>2, <1>3 DEF Save
    <2>2. state.at < clock + 1 /\ clock + 1 <= live'.at
      BY <1>2, <1>3 DEF Since
    <2> QED
      BY <2>1, <2>2 DEF StillLater
  <1> QED
    BY <1>2, <1>3, <1>4, <1>5, <1>6 DEF Since, StillSince

LEMMA SinceKept ==
  ASSUME LiveInv, [Next]_vars, NEW state, state.at \in Nat, NEW pages, Since(state, pages)
  PROVE  StillSince(state, pages)
  <1>1. CASE UNCHANGED <<live, clock, tagsSeen, repeated, lost>>
    <2>1. CASE \E q \in Command : ImportWrites(q) \/ ImportTags(q)
      BY <2>1, SinceAfterWrite, SinceAfterTag
    <2>2. CASE ~ \E q \in Command : ImportWrites(q) \/ ImportTags(q)
      <3>1. ASSUME NEW x, Later(x, state.at) PROVE StillLater(x, state.at)
        BY <1>1, <2>2, <3>1, UnfinishedKept DEF Later, StillLater, LiveInv
      <3> QED
        BY <1>1, <3>1 DEF Since, StillSince
    <2> QED
      BY <2>1, <2>2
  <1> QED
    BY <1>1, WorldFrame, SinceAfterWrite, SinceAfterTag, SinceAfterSave

-----------------------------------------------------------------------------
(* What a command is about to replace, and what it has seen live.            *)

\* The drift guard: under the tag and the date of the baseline there is nothing
\* what the checkout has seen and halves of imports that have ended: an import
\* that goes on has the lock.
LEMMA GuardSees ==
  ASSUME IndInv, LiveInv, NEW p \in Command, ~repeated, ~reentered, LockIsMine(p), pc[p] = "drift",
         NoDrift(CheckoutOf[p]), NEW g \in Page
  PROVE  Mine(p, live.page[g])
  <1> DEFINE c == CheckoutOf[p]
             x == live.page[g]
  <1>1. c \in Checkout /\ marker[c].at \in Nat /\ live.at \in Nat
    BY ConstantsAssumption DEF LiveInv, TypeOK, Live
  <1>2. x \in seen[c] \/ Later(x, marker[c].at)
    BY <1>1 DEF LiveInv, Since, NoDrift
  <1>3. CASE x \in seen[c]
    BY <1>3 DEF Mine, Unseen
  <1>4. CASE x \in Command /\ Unfinished(x)
    <2>1. ~InImport(p)
      BY DEF IndInv, Place, BeforeImport, Importing, InImport
    <2>2. ~InImport(x)
      BY <1>4, <2>1 DEF IndInv, Asserted, LockIsMine
    <2> QED
      BY <1>4, <2>2 DEF Mine, HalfImported, Unfinished
  <1>5. CASE x \in Save /\ marker[c].at < x.at /\ x.at <= live.at
    <2>1. x.at \in Nat
      BY <1>5 DEF Save
    <2>2. live.at # NULL /\ ~(live.at <= marker[c].at)
      BY <2>1, <1>1, <1>5 DEF NULL
    <2> QED
      BY <2>2 DEF NoDrift
  <1> QED
    BY <1>2, <1>3, <1>4, <1>5 DEF Later

\* A command that is on its way to its import was so before, or has just made
\* its comparison.
LEMMA ClearedFrame ==
  ASSUME TypeOK, [Next]_vars, NEW p \in Command, Cleared(p)', Mode[p] # "forced", ~DriftApproves(p), ~Snapshot(p)
  PROVE  Cleared(p)
  <1> USE DEF dbVars, checkoutVars, flagVars, runVars, Goto, Session, TypeOK, Cleared
  <1>1. ASSUME NEW q \in Command, Begin(q) \/ Kill(q) PROVE Cleared(p)
    BY <1>1 DEF Begin, Kill, Ends
  <1>2. ASSUME NEW q \in Command, Proceed(q) PROVE Cleared(p)
    <2>1. CASE ConfirmHeld(q)
      <3>1. FirstCheck(q) = "stamp" => Mode[q] = "forced"
        BY ConstantsAssumption DEF FirstCheck
      <3>2. FirstCheck(q) \in {"drift", "stamp", "snapshot"}
        BY ConstantsAssumption DEF FirstCheck
      <3> QED
        BY <2>1, <3>1, <3>2 DEF ConfirmHeld
    <2>2. CASE AcquireReturns(q) \/ Stamp(q) \/ CheckStage(q)
      BY <2>2 DEF AcquireReturns, Stamp, CheckStage
    <2>3. CASE DriftApproves(q) \/ Snapshot(q)
      <3>1. q # p
        BY <2>3
      <3> QED
        BY <2>3, <3>1 DEF DriftApproves, Snapshot
    <2>4. CASE Connect(q) \/ ImportReturns(q) \/ ImportFails(q)
      BY <2>4 DEF Connect, ImportReturns, ImportFails
    <2>5. CASE FirstExport(q) \/ SecondExport(q) \/ CheckLock(q)
      BY <2>5 DEF FirstExport, SecondExport, CheckLock
    <2>6. CASE SendRelease(q) \/ ReleaseReturns(q)
      BY <2>6 DEF SendRelease, ReleaseReturns
    <2>7. CASE StepFails(q) \/ CleanupReleases(q)
      BY <2>7 DEF StepFails, CleanupReleases
    <2>8. CASE RecordBaseline(q) \/ CleanupReleased(q) \/ CleanupKeeps(q)
      BY <2>8 DEF RecordBaseline, CleanupReleased, CleanupKeeps, Ends
    <2> QED
      BY <1>2, <2>1, <2>2, <2>3, <2>4, <2>5, <2>6, <2>7, <2>8 DEF Proceed
  <1>3. ASSUME NEW q \in Command, SessionMoves(q) PROVE Cleared(p)
    <2>1. CASE AcquireReads(q) \/ ImportChecks(q) \/ ImportAsserts(q) \/ ImportConcludes(q)
      BY <2>1 DEF AcquireReads, ImportChecks, ImportAsserts, ImportConcludes
    <2>2. CASE AcquireLocks(q)
      BY <2>2 DEF AcquireLocks
    <2>3. CASE ImportWrites(q)
      BY <2>3 DEF ImportWrites
    <2>4. CASE ImportTags(q)
      BY <2>4 DEF ImportTags
    <2>5. CASE ReleaseRuns(q)
      BY <2>5 DEF ReleaseRuns
    <2>6. CASE SessionBreaks(q)
      BY <2>6 DEF SessionBreaks
    <2> QED
      BY <1>3, <2>1, <2>2, <2>3, <2>4, <2>5, <2>6 DEF SessionMoves
  <1>4. ASSUME NEW a \in Account, BuilderSave(a) \/ ManualUnlock(a) PROVE Cleared(p)
    BY <1>4 DEF BuilderSave, ManualUnlock
  <1>5. ASSUME NEW c \in Checkout, Export(c) \/ CheckoutOlder(c) PROVE Cleared(p)
    BY <1>5 DEF Export, CheckoutOlder
  <1>6. CASE UNCHANGED vars
    BY <1>6 DEF vars
  <1> QED
    BY <1>1, <1>2, <1>3, <1>4, <1>5, <1>6 DEF Next

\* Nobody gets to the second look but by the first.
LEMMA ShownFrame ==
  ASSUME TypeOK, [Next]_vars, NEW p \in Command, pc'[p] \in {"export2", "check"}, ~FirstExport(p)
  PROVE  pc[p] \in {"export2", "check"}
  <1> USE DEF dbVars, checkoutVars, flagVars, runVars, Goto, TypeOK
  <1>1. ASSUME NEW q \in Command, Begin(q) \/ Kill(q) PROVE pc[p] \in {"export2", "check"}
    BY <1>1 DEF Begin, Kill, Ends
  <1>2. ASSUME NEW q \in Command, Proceed(q) PROVE pc[p] \in {"export2", "check"}
    <2>1. CASE ConfirmHeld(q)
      <3>1. FirstCheck(q) \in {"drift", "stamp", "snapshot"}
        BY ConstantsAssumption DEF FirstCheck
      <3> QED
        BY <2>1, <3>1 DEF ConfirmHeld
    <2>2. CASE AcquireReturns(q) \/ Stamp(q) \/ CheckStage(q) \/ DriftApproves(q) \/ Snapshot(q)
      BY <2>2 DEF AcquireReturns, Stamp, CheckStage, DriftApproves, Snapshot
    <2>3. CASE FirstExport(q)
      <3>1. q # p
        BY <2>3
      <3> QED
        BY <2>3, <3>1 DEF FirstExport
    <2>4. CASE Connect(q) \/ ImportReturns(q) \/ ImportFails(q)
      BY <2>4 DEF Connect, ImportReturns, ImportFails
    <2>5. CASE SecondExport(q) \/ CheckLock(q)
      BY <2>5 DEF SecondExport, CheckLock
    <2>6. CASE SendRelease(q) \/ ReleaseReturns(q)
      BY <2>6 DEF SendRelease, ReleaseReturns
    <2>7. CASE StepFails(q) \/ CleanupReleases(q)
      BY <2>7 DEF StepFails, CleanupReleases
    <2>8. CASE RecordBaseline(q) \/ CleanupReleased(q) \/ CleanupKeeps(q)
      BY <2>8 DEF RecordBaseline, CleanupReleased, CleanupKeeps, Ends
    <2> QED
      BY <1>2, <2>1, <2>2, <2>3, <2>4, <2>5, <2>6, <2>7, <2>8 DEF Proceed
  <1>3. ASSUME NEW q \in Command, SessionMoves(q) PROVE pc' = pc
    BY <1>3 DEF SessionMoves, AcquireReads, AcquireLocks, ImportChecks, ImportAsserts, ImportWrites, ImportTags,
       ImportConcludes, ReleaseRuns, SessionBreaks
  <1>4. ASSUME NEW a \in Account, BuilderSave(a) \/ ManualUnlock(a) PROVE pc' = pc
    BY <1>4 DEF BuilderSave, ManualUnlock
  <1>5. ASSUME NEW c \in Checkout, Export(c) \/ CheckoutOlder(c) PROVE pc' = pc
    BY <1>5 DEF Export, CheckoutOlder
  <1> QED
    BY <1>1, <1>2, <1>3, <1>4, <1>5 DEF Next, vars

\* While a command has the lock, nobody else writes the application but
\* its own account in Builder.
LEMMA WritesUnderLock ==
  ASSUME IndInv, LiveInv, [Next]_vars, ~reentered, NEW p \in Command, LockIsMine(p), ~ImportWrites(p), NEW g \in Page
  PROVE  \/ live'.page[g] = live.page[g]
         \/ live'.page[g] \in Save /\ live'.page[g] \notin Command /\ live'.page[g].by = OwnAccount(p)
  <1>1. ASSUME NEW q \in Command, ImportWrites(q) PROVE FALSE
    <2>1. LockIsMine(q)
      BY <1>1 DEF IndInv, Asserted, InImport, ImportWrites
    <2> QED
      BY <1>1, <2>1 DEF LockIsMine
  <1>2. ASSUME NEW q \in Command, ImportTags(q) PROVE live'.page[g] = live.page[g]
    BY <1>2 DEF ImportTags, LiveInv, TypeOK, Live
  <1>3. ASSUME NEW a \in Account, BuilderSave(a)
        PROVE  \/ live'.page[g] = live.page[g]
               \/ live'.page[g] \in Save /\ live'.page[g] \notin Command /\ live'.page[g].by = OwnAccount(p)
    <2>1. a = OwnAccount(p)
      BY <1>3, ConstantsAssumption DEF BuilderSave, LockIsMine, OwnAccount
    <2>2. PICK h \in Page : live' = [live EXCEPT !.at = clock + 1, !.page[h] = [by |-> a, at |-> clock + 1]]
      BY <1>3 DEF BuilderSave
    <2>3. CASE g = h
      <3>1. live'.page[g] = [by |-> a, at |-> clock + 1]
        BY <2>2, <2>3 DEF LiveInv, TypeOK, Live
      <3>2. live'.page[g] \in Save
        BY <3>1 DEF LiveInv, TypeOK, Save
      <3> QED
        BY <2>1, <3>1, <3>2, SaveAssumption
    <2>4. CASE g # h
      BY <2>2, <2>4 DEF LiveInv, TypeOK, Live
    <2> QED
      BY <2>3, <2>4
  <1>4. CASE UNCHANGED <<live, clock, tagsSeen, repeated, lost>>
    BY <1>4
  <1> QED
    BY <1>1, <1>2, <1>3, <1>4, WorldFrame

LEMMA CoveredKept ==
  ASSUME IndInv, LiveInv, [Next]_vars, NEW p \in Command
  PROVE  Covered(p)'
  <1> SUFFICES ASSUME ~reentered', ~repeated', Mode[p] # "forced", Cleared(p)', LockIsMine(p)', NEW g \in Selected[p]
               PROVE  Mine(p, live.page[g])'
    BY DEF Covered
  <1> DEFINE c == CheckoutOf[p]
  <1>1. ~reentered /\ ~repeated
    BY ReenteredFrame, RepeatedFrame
  <1>2. g \in Page /\ c \in Checkout
    BY ConstantsAssumption
  <1>3. seen[c] \subseteq seen'[c]
    BY <1>2, CheckoutFrame DEF LiveInv
  <1>4. LockIsMine(p)
    <2>1. ASSUME AcquireLocks(p) PROVE FALSE
      BY <2>1 DEF AcquireLocks, Session, Cleared, LiveInv, Course, TypeOK
    <2> QED
      BY <2>1, LockFrame
  <1>6. ASSUME NEW x, Mine(p, x) PROVE Mine(p, x)'
    BY <1>3, <1>6, HalfKept DEF Mine, Unseen, LiveInv
  <1>7. CASE DriftApproves(p)
    <2>1. live' = live
      BY <1>7 DEF DriftApproves, dbVars
    <2> QED
      BY <1>1, <1>2, <1>4, <1>6, <1>7, <2>1, GuardSees DEF DriftApproves
  <1>8. CASE Snapshot(p)
    <2>1. live' = live
      BY <1>8 DEF Snapshot, dbVars
    <2>2. live.page[g] \in seen[c]
      BY <1>2, <1>8 DEF Snapshot, LiveInv, Since
    <2> QED
      BY <1>6, <2>1, <2>2 DEF Mine, Unseen
  <1>9. CASE ~DriftApproves(p) /\ ~Snapshot(p)
    <2>1. Cleared(p)
      BY <1>9, ClearedFrame DEF LiveInv
    <2>2. Mine(p, live.page[g])
      BY <1>1, <1>4, <2>1 DEF LiveInv, Covered
    <2>3. ~ImportWrites(p)
      BY DEF ImportWrites, Session, Cleared, IndInv, Place, BeforeImport, Importing, LiveInv, TypeOK
    <2>4. CASE live'.page[g] = live.page[g]
      BY <1>6, <2>2, <2>4
    <2>5. CASE live'.page[g] \in Save /\ live'.page[g].by = OwnAccount(p)
      BY <2>5 DEF Mine, Unseen
    <2> QED
      BY <1>1, <1>2, <1>4, <2>3, <2>4, <2>5, WritesUnderLock
  <1> QED
    BY <1>7, <1>8, <1>9

LEMMA ShownKept ==
  ASSUME IndInv, LiveInv, [Next]_vars, NEW p \in Command
  PROVE  Shown(p)'
  <1> SUFFICES ASSUME ~reentered', pc'[p] \in {"export2", "check"}, LockIsMine(p)', NEW g \in Selected[p]
               PROVE  SameAccount(p, live'.page[g])
    BY DEF Shown, SameAccount
  <1>1. ~reentered
    BY ReenteredFrame
  <1>2. g \in Page
    BY ConstantsAssumption
  <1>3. LockIsMine(p)
    <2>1. ASSUME AcquireLocks(p) PROVE FALSE
      BY <2>1 DEF AcquireLocks, LiveInv, Course
    <2> QED
      BY <2>1, LockFrame
  <1>4. CASE FirstExport(p)
    BY <1>2, <1>4 DEF FirstExport, ShowsMySource, SameAccount, dbVars
  <1>5. CASE ~FirstExport(p)
    <2>1. pc[p] \in {"export2", "check"}
      BY <1>5, ShownFrame DEF LiveInv
    <2>2. SameAccount(p, live.page[g])
      BY <1>1, <1>3, <2>1 DEF LiveInv, Shown
    <2>3. ~ImportWrites(p)
      BY <2>1 DEF ImportWrites, LiveInv, Course
    <2> QED
      BY <1>1, <1>2, <1>3, <2>2, <2>3, WritesUnderLock DEF SameAccount
  <1> QED
    BY <1>4, <1>5

LEMMA NothingLost ==
  ASSUME IndInv, LiveInv, [Next]_vars, ~reentered', ~repeated', NEW x \in lost'
  PROVE  HalfImported(x)'
  <1>1. ~reentered /\ ~repeated /\ \A y \in lost : HalfImported(y)
    BY ReenteredFrame, RepeatedFrame DEF LiveInv
  <1>2. ASSUME NEW q \in Command, ImportWrites(q), x \notin lost PROVE HalfImported(x)
    <2>1. Mode[q] # "forced" /\ x \in Replaced(q) /\ Unseen(q, x)
      BY <1>2 DEF ImportWrites
    <2>2. LockIsMine(q) /\ Cleared(q)
      BY <1>1, <1>2 DEF ImportWrites, IndInv, Asserted, InImport, Cleared
    <2>3. \A g \in Selected[q] : Mine(q, live.page[g])
      BY <1>1, <2>1, <2>2 DEF LiveInv, Covered
    <2> QED
      BY <2>1, <2>3 DEF Replaced, Mine
  <1>3. ASSUME NEW q \in Command, ImportTags(q) PROVE lost' = lost
    BY <1>3 DEF ImportTags
  <1>4. ASSUME NEW a \in Account, BuilderSave(a) PROVE lost' = lost
    BY <1>4 DEF BuilderSave
  <1>5. HalfImported(x)
    BY <1>1, <1>2, <1>3, <1>4, WorldFrame
  <1> QED
    BY <1>5, HalfKept DEF LiveInv

-----------------------------------------------------------------------------
LEMMA LiveInitially == Init => LiveInv
  <1> SUFFICES ASSUME Init PROVE LiveInv
    OBVIOUS
  <1>1. TypeOK
    BY TypesInitially
  <1>2. live.at <= clock /\ live.tag \in tagsSeen
    BY DEF Init, NULL
  <1>3. ASSUME NEW pages, \A g \in Page : live.page[g] \in pages PROVE Since(live, pages)
    BY <1>2, <1>3 DEF Since
  <1>4. ASSUME NEW p \in Command PROVE Course(p) /\ Covered(p) /\ Shown(p)
    BY <1>4 DEF Init, Course, Covered, Cleared, Shown
  <1>5. ASSUME NEW p \in Command PROVE Since(approved[p], PagesOf(approved[p]))
    <2>1. approved[p] = live
      BY DEF Init
    <2> QED
      BY <1>3, <2>1 DEF PagesOf
  <1>6. ASSUME NEW c \in Checkout PROVE Since(marker[c], seen[c])
    <2>1. marker[c] = live /\ seen[c] = {Initial} /\ \A g \in Page : live.page[g] = Initial
      BY DEF Init
    <2> QED
      BY <1>3, <2>1
  <1>7. lost = {}
    BY DEF Init
  <1> QED
    BY <1>1, <1>2, <1>4, <1>5, <1>6, <1>7 DEF LiveInv

LEMMA DatesKept ==
  ASSUME LiveInv, [Next]_vars
  PROVE  live'.at <= clock' /\ live'.tag \in tagsSeen'
  <1>1. ASSUME NEW q \in Command, ImportWrites(q) PROVE live'.at <= clock' /\ live'.tag \in tagsSeen'
    <2>1. CASE Full(q)
      <3>1. live'.at = 0 /\ live'.tag = tag[q] /\ tag[q] \in tagsSeen' /\ clock' = clock
        BY <1>1, <2>1 DEF ImportWrites, MakeLive, NULL
      <3> QED
        BY <3>1 DEF LiveInv, TypeOK
    <2>2. CASE ~Full(q)
      <3>1. live'.at = live.at /\ live'.tag = live.tag /\ tagsSeen' = tagsSeen /\ clock' = clock
        BY <1>1, <2>2 DEF ImportWrites, LiveInv, TypeOK, Live
      <3> QED
        BY <3>1 DEF LiveInv
    <2> QED
      BY <2>1, <2>2
  <1>2. ASSUME NEW q \in Command, ImportTags(q) PROVE live'.at <= clock' /\ live'.tag \in tagsSeen'
    <2>1. CASE LockIsMine(q) /\ live.tag = approved[q].tag
      <3>1. live' = [live EXCEPT !.tag = tag[q], !.at = clock + 1] /\ clock' = clock + 1 /\ tag[q] \in tagsSeen'
        BY <1>2, <2>1 DEF ImportTags, MakeLive
      <3> QED
        BY <3>1 DEF LiveInv, TypeOK, Live
    <2>2. CASE ~(LockIsMine(q) /\ live.tag = approved[q].tag)
      BY <1>2, <2>2 DEF ImportTags, LiveInv
    <2> QED
      BY <2>1, <2>2
  <1>3. ASSUME NEW a \in Account, BuilderSave(a) PROVE live'.at <= clock' /\ live'.tag \in tagsSeen'
    BY <1>3 DEF BuilderSave, LiveInv, TypeOK, Live
  <1>4. CASE UNCHANGED <<live, clock, tagsSeen, repeated, lost>>
    BY <1>4 DEF LiveInv
  <1> QED
    BY <1>1, <1>2, <1>3, <1>4, WorldFrame

LEMMA SinceNow ==
  ASSUME LiveInv, NEW pages, PagesOf(live) \subseteq pages
  PROVE  Since(live, pages)
  BY DEF LiveInv, Since, PagesOf

LEMMA LiveStep == IndInv /\ LiveInv /\ [Next]_vars => LiveInv'
  <1> SUFFICES ASSUME IndInv, LiveInv, [Next]_vars PROVE LiveInv'
    OBVIOUS
  <1>1. TypeOK'
    BY TypesKept DEF LiveInv
  <1>2. ASSUME NEW p \in Command PROVE Course(p)'
    BY CourseKept DEF LiveInv
  <1>3. ASSUME NEW p \in Command PROVE Since(approved[p], PagesOf(approved[p]))'
    <2>1. Since(live, PagesOf(live)) /\ Since(approved[p], PagesOf(approved[p]))
      BY SinceNow DEF LiveInv
    <2>2. live.at \in Nat /\ approved[p].at \in Nat
      BY DEF LiveInv, TypeOK, Live
    <2>3. StillSince(live, PagesOf(live)) /\ StillSince(approved[p], PagesOf(approved[p]))
      BY <2>1, <2>2, SinceKept
    <2>4. StillSince(approved'[p], PagesOf(approved'[p]))
      BY <2>3, ApprovedFrame DEF LiveInv
    <2> QED
      BY <2>4 DEF StillSince, StillLater, Since, Later, Unfinished, PagesOf
  <1>4. ASSUME NEW c \in Checkout PROVE Since(marker[c], seen[c])'
    <2>1. live.at \in Nat /\ marker[c].at \in Nat /\ \A p \in Command : approved[p].at \in Nat
      BY DEF LiveInv, TypeOK, Live
    <2>2. StillSince(marker'[c], seen'[c])
      <3>1. CASE marker'[c] = marker[c] /\ seen'[c] = seen[c]
        BY <3>1, <2>1, SinceKept DEF LiveInv
      <3>2. CASE marker'[c] = live /\ seen'[c] = seen[c] \cup PagesOf(live)
        BY <3>2, <2>1, SinceKept, SinceNow
      <3>3. ASSUME NEW p \in Command, marker'[c] = approved[p], seen'[c] = seen[c] \cup PagesOf(approved[p])
            PROVE  StillSince(marker'[c], seen'[c])
        <4>1. Since(approved[p], PagesOf(approved[p]))
          BY DEF LiveInv
        <4>2. Since(approved[p], seen'[c])
          BY <3>3, <4>1 DEF Since
        <4> QED
          BY <3>3, <2>1, <4>2, SinceKept
      <3> QED
        BY <3>1, <3>2, <3>3, CheckoutFrame DEF LiveInv
    <2> QED
      BY <2>2 DEF StillSince, StillLater, Since, Later, Unfinished
  <1> QED
    BY <1>1, <1>2, <1>3, <1>4, DatesKept, CoveredKept, ShownKept, NothingLost DEF LiveInv

LEMMA LiveInvariance == Spec => [](IndInv /\ LiveInv)
  BY Initially, StepKeeps, LiveInitially, LiveStep, PTL DEF Spec

-----------------------------------------------------------------------------
\* Imports of different accounts never overlap, whatever sessions outlive their
\* commands, unless an account raced with itself (assertion_sql).
THEOREM ImportsAreExclusive == Spec => []ImportsExclude
  <1>1. IndInv => ImportsExclude
    BY DEF IndInv, Shape, Asserted, ImportsExclude, LockIsMine
  <1> QED
    BY <1>1, Invariance, PTL

\* The lock a publish holds and the import nobody has verified are on its
\* record, wherever it was killed (save_record, the exit trap).
THEOREM LeftoversRecorded == Spec => []LeftoversAreOnRecord
  <1>1. IndInv => LeftoversAreOnRecord
    BY DEF IndInv, Recorded, LeftoversAreOnRecord, LockIsOnRecord, UnverifiedStaysOnRecord, Taken, Held
  <1> QED
    BY <1>1, Invariance, PTL

\* The variables keep their types.
THEOREM TypeCorrect == Spec => []TypeOK
  BY LiveInvariance, PTL DEF LiveInv

\* As long as tags are not given twice and no account races with itself, an
\* unforced publish replaces no colleague's work that its checkout has not seen,
\* except the pages of a partial publish whose session ended before its tag
\* (check_builder_drift, assertion_sql, partial_publish.sql).
THEOREM NothingIsOverwritten == Spec => []NoSilentOverwrite
  <1>1. LiveInv => NoSilentOverwrite
    BY DEF LiveInv, NoSilentOverwrite
  <1> QED
    BY <1>1, LiveInvariance, PTL

\* A publish is called verified only over pages that are live as it sent them,
\* or that its own account has saved since (verify_source_bytes, check_lock).
THEOREM VerifiedLive == Spec => PublishedIsLive
  <1>1. IndInv /\ LiveInv /\ [Next]_vars => [VerifiedIsLive]_vars
    <2> SUFFICES ASSUME IndInv, LiveInv, [Next]_vars, NEW p \in Command, verified'[p], ~verified[p], ~reentered,
                        NEW g \in Selected[p]
                 PROVE  SameAccount(p, live.page[g])
      BY DEF VerifiedIsLive
    <2>1. CheckLock(p)
      BY VerifiedFrame DEF LiveInv
    <2> QED
      BY <2>1 DEF CheckLock, LiveInv, Shown
  <1> QED
    BY <1>1, LiveInvariance, PTL DEF Spec, PublishedIsLive

=====================================================================================
