------------------------ MODULE MigrationApplyProofs ------------------------
(***************************************************************************)
(* Proofs about MigrationApply, for any commands, folders and batches.     *)
(* All properties follow from what one command knows of its own attempt    *)
(* (OwnInv); the commands meet only in the receipts, and there through a   *)
(* link that never replaces.                                               *)
(***************************************************************************)
EXTENDS MigrationApply, TLAPS

-----------------------------------------------------------------------------
(* The inductive invariant *)

\* While its attempt on the current folder is open, the folder carries the
\* pending event of p.
PendingStands(p) ==
    pc[p] \in {"pended", "marked", "recorded", "applying", "proving", "verifying", "receipted"}
      => event[p][Current(p)] = "pending"

\* What p knows of the session is true.
SessionKnown(p) ==
    /\ pc[p] \in {"proving", "proved"} => payload[p][Current(p)] = "refused"
    /\ pc[p] = "proved" => event[p][Current(p)] = "apply-not-started"
    /\ pc[p] \in {"verifying", "receipted", "closing"} => payload[p][Current(p)] = "committed"

\* SQL that may have begun is on record in its folder.
SentIsOnRecord(p) ==
    \A f \in Folder : Untouched(p, f) \/ event[p][f] \in {"pending", "verified"}

\* p has no receipt for a folder it has not verified yet, and a receipt of
\* p is of committed SQL.
ReceiptsEarned(p) ==
    /\ \A i \in 1..Len(Batch[p]) :
         i > at[p] => receipt[<<Batch[p][i], EnvOf[p]>>] # p
    /\ pc[p] \notin {"receipted", "closing", "removing", "ended", "crashed"} => receipt[Slot(p)] # p
    /\ pc[p] = "receipted" => receipt[Slot(p)] = p
    /\ \A f \in Folder : event[p][f] = "verified" => receipt[<<f, EnvOf[p]>>] = p
    /\ \A f \in Folder : receipt[<<f, EnvOf[p]>>] = p => payload[p][f] = "committed"

\* The flag and the report of p agree with what it did.
ReportEarned(p) ==
    /\ ~attempted[p] => \A f \in Folder : payload[p][f] = "none"
    /\ pc[p] \in {"marked", "recorded", "applying", "proving", "proved", "verifying",
                  "receipted", "closing"} => attempted[p]
    /\ told[p] = "untouched" => ~attempted[p] /\ pc[p] \in {"removing", "ended", "crashed"}
    /\ told[p] = "retry" =>
         /\ pc[p] = "ended"
         /\ payload[p][Current(p)] = "refused"
         /\ event[p][Current(p)] = "apply-not-started"
         /\ record[p][Current(p)] = "apply-not-started"

OwnInv(p) ==
    /\ PendingStands(p)
    /\ SessionKnown(p)
    /\ SentIsOnRecord(p)
    /\ ReceiptsEarned(p)
    /\ ReportEarned(p)

IndInv == TypeOK /\ \A p \in Process : OwnInv(p)

-----------------------------------------------------------------------------
LEMMA CurrentType ==
    ASSUME TypeOK, NEW p \in Process
    PROVE  /\ Current(p) \in Folder
           /\ Slot(p) \in Folder \X Environment
           /\ EnvOf[p] \in Environment
           /\ Len(Batch[p]) \in Nat
           /\ Selected(p) \subseteq Folder
  BY BatchAssumption DEF TypeOK, Current, Slot, Selected

\* The current folder is not a later one.
LEMMA NoFolderTwice ==
    ASSUME TypeOK, NEW p \in Process, NEW i \in 1..Len(Batch[p]), i > at[p]
    PROVE  Batch[p][i] # Current(p)
  BY BatchAssumption DEF TypeOK, Current

LEMMA InitTyped == Init => TypeOK
  BY BatchAssumption DEF Init, TypeOK, PC, RecordState, EventState, Environment

-----------------------------------------------------------------------------
(* Types *)

LEMMA StepTyped ==
    ASSUME TypeOK, NEW p \in Process, Step(p)
    PROVE  TypeOK'
<1> USE BatchAssumption, CurrentType DEF TypeOK, Goto, Record, Event
<1> USE DEF command, scratch, evidence
<1>1. CASE Begin(p)
  BY <1>1 DEF Begin, PC
<1>2. CASE WriteManifest(p)
  BY <1>2 DEF WriteManifest, PC
<1>3. CASE PassCheck(p)
  BY <1>3 DEF PassCheck, PC
<1>4. CASE Abandon(p)
  BY <1>4 DEF Abandon, PC
<1>5. CASE RemoveManifest(p)
  BY <1>5 DEF RemoveManifest
<1>6. CASE EndRemoval(p)
  <2>1. PICK left \in {rundir[p], "none"} : rundir' = [rundir EXCEPT ![p] = left]
    BY <1>6 DEF EndRemoval
  <2>2. left \in {"none", "bare", "manifest"}
    BY <2>1
  <2>3. rundir' \in [Process -> {"none", "bare", "manifest"}]
    BY <2>1, <2>2
  <2> QED
    BY <1>6, <2>3 DEF EndRemoval, PC
<1>7. CASE WritePending(p)
  BY <1>7 DEF WritePending, PC, EventState
<1>8. CASE MarkAttempted(p)
  BY <1>8 DEF MarkAttempted, PC
<1>9. CASE SaveAttempt(p)
  BY <1>9 DEF SaveAttempt, PC, RecordState
<1>10. CASE StartSession(p)
  BY <1>10 DEF StartSession, PC
<1>11. CASE SeeRefusal(p)
  BY <1>11 DEF SeeRefusal, PC
<1>12. CASE InstallNoWrite(p)
  BY <1>12 DEF InstallNoWrite, PC, EventState
<1>13. CASE PermitRetry(p)
  BY <1>13 DEF PermitRetry, PC, RecordState
<1>14. CASE SeeCommit(p)
  BY <1>14 DEF SeeCommit, PC, RecordState
<1>15. CASE InstallReceipt(p)
  BY <1>15 DEF InstallReceipt, PC
<1>16. CASE WriteVerified(p)
  BY <1>16 DEF WriteVerified, PC, EventState
<1>17. CASE CloseFolder(p)
  <2>1. /\ Record(p, "verified")
        /\ UNCHANGED <<attempted, rundir, output, evidence, payload>>
    BY <1>17 DEF CloseFolder
  <2>2. CASE at[p] < Len(Batch[p])
    <3>1. at' = [at EXCEPT ![p] = at[p] + 1] /\ Goto(p, "boundary") /\ UNCHANGED told
      BY <1>17, <2>2 DEF CloseFolder
    <3>2. at[p] + 1 \in 1..Len(Batch[p])
      BY <2>2
    <3>3. at' \in [Process -> Nat] /\ \A q \in Process : at'[q] \in 1..Len(Batch[q])
      BY <3>1, <3>2
    <3> QED
      BY <2>1, <3>1, <3>3 DEF PC, RecordState
  <2>3. CASE ~(at[p] < Len(Batch[p]))
    <3>1. told' = [told EXCEPT ![p] = "done"] /\ Goto(p, "ended") /\ UNCHANGED at
      BY <1>17, <2>3 DEF CloseFolder
    <3> QED
      BY <2>1, <3>1 DEF PC, RecordState
  <2> QED
    BY <2>2, <2>3
<1>18. CASE StopAndReconcile(p)
  BY <1>18 DEF StopAndReconcile, PC
<1>19. CASE \E f \in Selected(p) : SessionMoves(p, f)
  <2>1. PICK f \in Folder : SessionMoves(p, f)
    BY <1>19
  <2>2. PICK s \in {"refused", "running", "committed", "broken"} :
          payload' = [payload EXCEPT ![p][f] = s]
    BY <2>1 DEF SessionMoves
  <2>3. payload' \in [Process -> [Folder ->
          {"none", "connecting", "refused", "running", "committed", "broken"}]]
    BY <2>2
  <2> QED
    BY <2>1, <2>3 DEF SessionMoves
<1>20. CASE Crash(p)
  BY <1>20 DEF Crash, PC
<1>21. CASE DropScratch(p)
  BY <1>21 DEF DropScratch
<1> HIDE BatchAssumption, CurrentType DEF TypeOK, Goto, Record, Event, command, scratch, evidence
<1> QED
  BY <1>1, <1>2, <1>3, <1>4, <1>5, <1>6, <1>7, <1>8, <1>9, <1>10, <1>11, <1>12, <1>13,
     <1>14, <1>15, <1>16, <1>17, <1>18, <1>19, <1>20, <1>21 DEF Step

-----------------------------------------------------------------------------
(* What a step of p does to its own conclusions *)

\* A step of p keeps its PendingStands: the open attempt keeps its pending event.
LEMMA PendingStandsKept ==
    ASSUME TypeOK, TypeOK', NEW p \in Process, OwnInv(p), Step(p)
    PROVE  PendingStands(p)'
<1> USE BatchAssumption, CurrentType, NoFolderTwice
<1> USE DEF TypeOK, Goto, Record, Event, command, scratch, evidence, OwnInv,
            Current, Slot, PendingStands
<1>1. CASE Begin(p) \/ WriteManifest(p) \/ PassCheck(p) \/ Abandon(p)
          \/ RemoveManifest(p) \/ EndRemoval(p) \/ MarkAttempted(p)
  BY <1>1 DEF Begin, WriteManifest, PassCheck, Abandon, RemoveManifest, EndRemoval,
              MarkAttempted
<1>2. CASE SaveAttempt(p) \/ SeeRefusal(p) \/ PermitRetry(p) \/ SeeCommit(p)
          \/ StopAndReconcile(p) \/ Crash(p) \/ DropScratch(p)
  BY <1>2 DEF SaveAttempt, SeeRefusal, PermitRetry, SeeCommit, StopAndReconcile,
              Crash, DropScratch
<1>3. CASE WritePending(p)
  BY <1>3 DEF WritePending
<1>4. CASE StartSession(p)
  BY <1>4 DEF StartSession
<1>5. CASE InstallNoWrite(p)
  BY <1>5 DEF InstallNoWrite
<1>6. CASE InstallReceipt(p)
  BY <1>6 DEF InstallReceipt
<1>7. CASE WriteVerified(p)
  BY <1>7 DEF WriteVerified
<1>8. CASE CloseFolder(p)
  BY <1>8 DEF CloseFolder
<1>9. ASSUME NEW f \in Folder, SessionMoves(p, f) PROVE PendingStands(p)'
  BY <1>9 DEF SessionMoves
<1> HIDE BatchAssumption, CurrentType, NoFolderTwice
<1> HIDE DEF TypeOK, Goto, Record, Event, command, scratch, evidence, OwnInv,
             Current, Slot, PendingStands
<1> QED
  BY <1>1, <1>2, <1>3, <1>4, <1>5, <1>6, <1>7, <1>8, <1>9, CurrentType DEF Step

\* A step of p keeps its SessionKnown: what was concluded of a session stays true.
LEMMA SessionKnownKept ==
    ASSUME TypeOK, TypeOK', NEW p \in Process, OwnInv(p), Step(p)
    PROVE  SessionKnown(p)'
<1> USE BatchAssumption, CurrentType, NoFolderTwice
<1> USE DEF TypeOK, Goto, Record, Event, command, scratch, evidence, OwnInv,
            Current, Slot, SessionKnown, ReportEarned
<1>1. CASE Begin(p) \/ WriteManifest(p) \/ PassCheck(p) \/ Abandon(p)
          \/ RemoveManifest(p) \/ EndRemoval(p) \/ MarkAttempted(p)
  BY <1>1 DEF Begin, WriteManifest, PassCheck, Abandon, RemoveManifest, EndRemoval,
              MarkAttempted
<1>2. CASE SaveAttempt(p) \/ SeeRefusal(p) \/ PermitRetry(p) \/ SeeCommit(p)
          \/ StopAndReconcile(p) \/ Crash(p) \/ DropScratch(p)
  BY <1>2 DEF SaveAttempt, SeeRefusal, PermitRetry, SeeCommit, StopAndReconcile,
              Crash, DropScratch
<1>3. CASE WritePending(p)
  BY <1>3 DEF WritePending
<1>4. CASE StartSession(p)
  BY <1>4 DEF StartSession
<1>5. CASE InstallNoWrite(p)
  BY <1>5 DEF InstallNoWrite
<1>6. CASE InstallReceipt(p)
  BY <1>6 DEF InstallReceipt
<1>7. CASE WriteVerified(p)
  BY <1>7 DEF WriteVerified
<1>8. CASE CloseFolder(p)
  BY <1>8 DEF CloseFolder
<1>9. ASSUME NEW f \in Folder, SessionMoves(p, f) PROVE SessionKnown(p)'
  BY <1>9 DEF SessionMoves
<1> HIDE BatchAssumption, CurrentType, NoFolderTwice
<1> HIDE DEF TypeOK, Goto, Record, Event, command, scratch, evidence, OwnInv,
             Current, Slot, SessionKnown, ReportEarned
<1> QED
  BY <1>1, <1>2, <1>3, <1>4, <1>5, <1>6, <1>7, <1>8, <1>9, CurrentType DEF Step

\* A step of p keeps its SentIsOnRecord: nothing is sent before the pending
\* event, and the no-write event follows a refused session only.
LEMMA SentIsOnRecordKept ==
    ASSUME TypeOK, TypeOK', NEW p \in Process, OwnInv(p), Step(p)
    PROVE  SentIsOnRecord(p)'
<1> USE BatchAssumption, CurrentType, NoFolderTwice
<1> USE DEF TypeOK, Goto, Record, Event, command, scratch, evidence, OwnInv,
            Current, Slot, SentIsOnRecord, PendingStands, SessionKnown, Untouched
<1>1. CASE Begin(p) \/ WriteManifest(p) \/ PassCheck(p) \/ Abandon(p)
          \/ RemoveManifest(p) \/ EndRemoval(p) \/ MarkAttempted(p)
  BY <1>1 DEF Begin, WriteManifest, PassCheck, Abandon, RemoveManifest, EndRemoval,
              MarkAttempted
<1>2. CASE SaveAttempt(p) \/ SeeRefusal(p) \/ PermitRetry(p) \/ SeeCommit(p)
          \/ StopAndReconcile(p) \/ Crash(p) \/ DropScratch(p)
  BY <1>2 DEF SaveAttempt, SeeRefusal, PermitRetry, SeeCommit, StopAndReconcile,
              Crash, DropScratch
<1>3. CASE WritePending(p)
  BY <1>3 DEF WritePending
<1>4. CASE StartSession(p)
  BY <1>4 DEF StartSession
<1>5. CASE InstallNoWrite(p)
  BY <1>5 DEF InstallNoWrite
<1>6. CASE InstallReceipt(p)
  BY <1>6 DEF InstallReceipt
<1>7. CASE WriteVerified(p)
  BY <1>7 DEF WriteVerified
<1>8. CASE CloseFolder(p)
  BY <1>8 DEF CloseFolder
<1>9. ASSUME NEW f \in Folder, SessionMoves(p, f) PROVE SentIsOnRecord(p)'
  <2>1. event[p][f] \in {"pending", "verified"}
    BY <1>9 DEF SessionMoves
  <2>2. \A g \in Folder \ {f} : payload'[p][g] = payload[p][g]
    BY <1>9 DEF SessionMoves
  <2> QED
    BY <1>9, <2>1, <2>2 DEF SessionMoves
<1> HIDE BatchAssumption, CurrentType, NoFolderTwice
<1> HIDE DEF TypeOK, Goto, Record, Event, command, scratch, evidence, OwnInv,
             Current, Slot, SentIsOnRecord, PendingStands, SessionKnown, Untouched
<1> QED
  BY <1>1, <1>2, <1>3, <1>4, <1>5, <1>6, <1>7, <1>8, <1>9, CurrentType DEF Step

\* A step of p keeps its ReceiptsEarned: a receipt is installed once, for the
\* current folder, after the commit.
LEMMA ReceiptsEarnedKept ==
    ASSUME TypeOK, TypeOK', NEW p \in Process, OwnInv(p), Step(p)
    PROVE  ReceiptsEarned(p)'
<1> USE BatchAssumption, CurrentType, NoFolderTwice
<1> USE DEF TypeOK, Goto, Record, Event, command, scratch, evidence, OwnInv,
            Current, Slot, ReceiptsEarned, SessionKnown
<1>1. CASE Begin(p) \/ WriteManifest(p) \/ PassCheck(p) \/ Abandon(p)
          \/ RemoveManifest(p) \/ EndRemoval(p) \/ MarkAttempted(p)
  <2>1. UNCHANGED <<at, event, receipt, payload>>
    BY <1>1 DEF Begin, WriteManifest, PassCheck, Abandon, RemoveManifest, EndRemoval,
              MarkAttempted
  <2>2. /\ pc'[p] = "receipted" => pc[p] = "receipted"
        /\ pc[p] \in {"receipted", "closing", "removing", "ended", "crashed"}
             => pc'[p] \in {"receipted", "closing", "removing", "ended", "crashed"}
    BY <1>1 DEF Begin, WriteManifest, PassCheck, Abandon, RemoveManifest, EndRemoval,
              MarkAttempted
  <2> QED
    BY <2>1, <2>2
<1>2. CASE SaveAttempt(p) \/ SeeRefusal(p) \/ PermitRetry(p) \/ SeeCommit(p)
          \/ StopAndReconcile(p) \/ Crash(p) \/ DropScratch(p)
  <2>1. UNCHANGED <<at, event, receipt, payload>>
    BY <1>2 DEF SaveAttempt, SeeRefusal, PermitRetry, SeeCommit, StopAndReconcile,
              Crash, DropScratch
  <2>2. /\ pc'[p] = "receipted" => pc[p] = "receipted"
        /\ pc[p] \in {"receipted", "closing", "removing", "ended", "crashed"}
             => pc'[p] \in {"receipted", "closing", "removing", "ended", "crashed"}
    BY <1>2 DEF SaveAttempt, SeeRefusal, PermitRetry, SeeCommit, StopAndReconcile,
              Crash, DropScratch
  <2> QED
    BY <2>1, <2>2
<1>3. CASE WritePending(p)
  BY <1>3 DEF WritePending
<1>4. CASE StartSession(p)
  <2>1. /\ UNCHANGED <<at, event, receipt>>
        /\ pc' = [pc EXCEPT ![p] = "applying"]
        /\ payload' = [payload EXCEPT ![p][Current(p)] = "connecting"]
    BY <1>4 DEF StartSession
  <2>2. receipt[Slot(p)] # p
    BY <1>4 DEF StartSession
  <2>3. ASSUME NEW f \in Folder, receipt[<<f, EnvOf[p]>>] = p
        PROVE  payload'[p][f] = "committed"
    <3>1. f # Current(p)
      BY <2>2, <2>3
    <3>2. payload[p][f] = "committed"
      BY <2>3
    <3> QED
      BY <2>1, <3>1, <3>2
  <2> QED
    BY <2>1, <2>2, <2>3
<1>5. CASE InstallNoWrite(p)
  BY <1>5 DEF InstallNoWrite
<1>6. CASE InstallReceipt(p)
  BY <1>6 DEF InstallReceipt
<1>7. CASE WriteVerified(p)
  <2>1. /\ UNCHANGED <<at, receipt, payload>>
        /\ pc' = [pc EXCEPT ![p] = "closing"]
        /\ event' = [event EXCEPT ![p][Current(p)] = "verified"]
    BY <1>7 DEF WriteVerified
  <2>2. receipt[Slot(p)] = p
    BY <1>7 DEF WriteVerified
  <2>3. ASSUME NEW f \in Folder, event'[p][f] = "verified"
        PROVE  receipt[<<f, EnvOf[p]>>] = p
    <3>1. CASE f = Current(p)
      BY <2>2, <3>1
    <3>2. CASE f # Current(p)
      <4>1. event[p][f] = "verified"
        BY <2>1, <2>3, <3>2
      <4> QED
        BY <4>1
    <3> QED
      BY <3>1, <3>2
  <2> QED
    BY <2>1, <2>2, <2>3
<1>8. CASE CloseFolder(p)
  BY <1>8 DEF CloseFolder
<1>9. ASSUME NEW f \in Folder, SessionMoves(p, f) PROVE ReceiptsEarned(p)'
  BY <1>9 DEF SessionMoves
<1> HIDE BatchAssumption, CurrentType, NoFolderTwice
<1> HIDE DEF TypeOK, Goto, Record, Event, command, scratch, evidence, OwnInv,
             Current, Slot, ReceiptsEarned, SessionKnown
<1> QED
  BY <1>1, <1>2, <1>3, <1>4, <1>5, <1>6, <1>7, <1>8, <1>9, CurrentType DEF Step

\* A step of p keeps its ReportEarned: the flag is set before anything is
\* sent, and a report is a last step.
LEMMA ReportEarnedKept ==
    ASSUME TypeOK, TypeOK', NEW p \in Process, OwnInv(p), Step(p)
    PROVE  ReportEarned(p)'
<1> USE BatchAssumption, CurrentType, NoFolderTwice
<1> USE DEF TypeOK, Goto, Record, Event, command, scratch, evidence, OwnInv,
            Current, Slot, ReportEarned, SessionKnown
<1>1. CASE Begin(p) \/ WriteManifest(p) \/ PassCheck(p) \/ Abandon(p)
          \/ RemoveManifest(p) \/ EndRemoval(p) \/ MarkAttempted(p)
  BY <1>1 DEF Begin, WriteManifest, PassCheck, Abandon, RemoveManifest, EndRemoval,
              MarkAttempted
<1>2. CASE SaveAttempt(p) \/ SeeRefusal(p) \/ PermitRetry(p) \/ SeeCommit(p)
          \/ StopAndReconcile(p) \/ Crash(p) \/ DropScratch(p)
  BY <1>2 DEF SaveAttempt, SeeRefusal, PermitRetry, SeeCommit, StopAndReconcile,
              Crash, DropScratch
<1>3. CASE WritePending(p)
  BY <1>3 DEF WritePending
<1>4. CASE StartSession(p)
  BY <1>4 DEF StartSession
<1>5. CASE InstallNoWrite(p)
  BY <1>5 DEF InstallNoWrite
<1>6. CASE InstallReceipt(p)
  BY <1>6 DEF InstallReceipt
<1>7. CASE WriteVerified(p)
  BY <1>7 DEF WriteVerified
<1>8. CASE CloseFolder(p)
  BY <1>8 DEF CloseFolder
<1>9. ASSUME NEW f \in Folder, SessionMoves(p, f) PROVE ReportEarned(p)'
  BY <1>9 DEF SessionMoves
<1> HIDE BatchAssumption, CurrentType, NoFolderTwice
<1> HIDE DEF TypeOK, Goto, Record, Event, command, scratch, evidence, OwnInv,
             Current, Slot, ReportEarned, SessionKnown
<1> QED
  BY <1>1, <1>2, <1>3, <1>4, <1>5, <1>6, <1>7, <1>8, <1>9, CurrentType DEF Step

-----------------------------------------------------------------------------
(* What a step of p does to the others *)

\* A command writes only its own entries.
LEMMA StepIsOwn ==
    ASSUME TypeOK, NEW p \in Process, NEW q \in Process \ {p}, Step(p)
    PROVE  /\ pc'[q] = pc[q] /\ at'[q] = at[q] /\ attempted'[q] = attempted[q] /\ told'[q] = told[q]
           /\ record'[q] = record[q] /\ event'[q] = event[q] /\ payload'[q] = payload[q]
<1> USE DEF TypeOK, Goto, Record, Event, command, scratch, evidence
<1>1. CASE Begin(p) \/ WriteManifest(p) \/ PassCheck(p) \/ Abandon(p) \/ RemoveManifest(p)
           \/ EndRemoval(p) \/ WritePending(p) \/ MarkAttempted(p) \/ SaveAttempt(p)
           \/ StartSession(p)
  BY <1>1 DEF Begin, WriteManifest, PassCheck, Abandon, RemoveManifest, EndRemoval,
              WritePending, MarkAttempted, SaveAttempt, StartSession
<1>2. CASE SeeRefusal(p) \/ InstallNoWrite(p) \/ PermitRetry(p) \/ SeeCommit(p)
           \/ InstallReceipt(p) \/ WriteVerified(p)
  BY <1>2 DEF SeeRefusal, InstallNoWrite, PermitRetry, SeeCommit, InstallReceipt, WriteVerified
<1>3. CASE CloseFolder(p) \/ StopAndReconcile(p) \/ Crash(p) \/ DropScratch(p)
  BY <1>3 DEF CloseFolder, StopAndReconcile, Crash, DropScratch
<1>4. CASE \E f \in Selected(p) : SessionMoves(p, f)
  BY <1>4 DEF SessionMoves
<1> HIDE DEF TypeOK, Goto, Record, Event, command, scratch, evidence
<1> QED
  BY <1>1, <1>2, <1>3, <1>4 DEF Step

\* install_receipt is the only step that writes a receipt, and it links:
\* the receipt of another command never goes away.
LEMMA ReceiptStays ==
    ASSUME TypeOK, NEW p \in Process, NEW q \in Process \ {p}, Step(p)
    PROVE  \A s \in Folder \X Environment : (receipt'[s] = q) <=> (receipt[s] = q)
<1>1. CASE InstallReceipt(p)
  <2>1. Slot(p) \in Folder \X Environment
    BY CurrentType
  <2> QED
    BY <1>1, <2>1, BatchAssumption DEF InstallReceipt, TypeOK
<1>2. CASE ~InstallReceipt(p)
  <2>1. UNCHANGED receipt
    BY <1>2 DEF Step, Begin, WriteManifest, PassCheck, Abandon, RemoveManifest, EndRemoval,
         WritePending, MarkAttempted, SaveAttempt, StartSession, SeeRefusal, InstallNoWrite,
         PermitRetry, SeeCommit, WriteVerified, CloseFolder, StopAndReconcile, SessionMoves,
         Crash, DropScratch, evidence
  <2> QED
    BY <2>1
<1> QED
  BY <1>1, <1>2

\* A step of p leaves what every other command knows alone: p writes only
\* its own evidence, and installs a receipt only where there is none.
LEMMA OthersKept ==
    ASSUME TypeOK, TypeOK', NEW p \in Process, NEW q \in Process \ {p}, OwnInv(q), Step(p)
    PROVE  OwnInv(q)'
<1> USE BatchAssumption, CurrentType DEF TypeOK
<1>1. /\ pc'[q] = pc[q] /\ at'[q] = at[q] /\ attempted'[q] = attempted[q] /\ told'[q] = told[q]
      /\ record'[q] = record[q] /\ event'[q] = event[q] /\ payload'[q] = payload[q]
  BY StepIsOwn
<1>2. \A s \in Folder \X Environment : (receipt'[s] = q) <=> (receipt[s] = q)
  BY ReceiptStays
<1>3. Current(q)' = Current(q) /\ Slot(q)' = Slot(q)
  BY <1>1 DEF Current, Slot
<1>4. PendingStands(q)' /\ SessionKnown(q)' /\ SentIsOnRecord(q)' /\ ReportEarned(q)'
  BY <1>1, <1>3 DEF OwnInv, PendingStands, SessionKnown, SentIsOnRecord, Untouched, ReportEarned
<1>5. ReceiptsEarned(q)'
  <2>1. ReceiptsEarned(q)
    BY DEF OwnInv
  <2>2. \A i \in 1..Len(Batch[q]) : <<Batch[q][i], EnvOf[q]>> \in Folder \X Environment
    OBVIOUS
  <2> QED
    BY <1>1, <1>2, <1>3, <2>1, <2>2 DEF ReceiptsEarned
<1> QED
  BY <1>4, <1>5 DEF OwnInv

-----------------------------------------------------------------------------
(* The invariant, and what it implies *)

LEMMA InitOwned == Init => IndInv
<1> SUFFICES ASSUME Init, NEW p \in Process PROVE OwnInv(p)
  BY InitTyped DEF IndInv
<1> USE InitTyped, CurrentType, BatchAssumption
<1>1. receipt[Slot(p)] # p
  BY DEF Init
<1>2. PendingStands(p) /\ SessionKnown(p) /\ SentIsOnRecord(p) /\ ReportEarned(p)
  BY DEF Init, PendingStands, SessionKnown, SentIsOnRecord, Untouched, ReportEarned
<1>3. ReceiptsEarned(p)
  BY <1>1 DEF Init, ReceiptsEarned
<1> QED
  BY <1>2, <1>3 DEF OwnInv

LEMMA StepOwned == IndInv /\ [Next]_vars => IndInv'
<1> SUFFICES ASSUME IndInv, [Next]_vars PROVE IndInv'
  OBVIOUS
<1>1. CASE Next
  <2>1. PICK p \in Process : Step(p)
    BY <1>1 DEF Next
  <2>2. TypeOK'
    BY <2>1, StepTyped DEF IndInv
  <2>3. OwnInv(p)'
    BY <2>1, <2>2, PendingStandsKept, SessionKnownKept, SentIsOnRecordKept,
       ReceiptsEarnedKept, ReportEarnedKept DEF IndInv, OwnInv
  <2>4. \A q \in Process \ {p} : OwnInv(q)'
    BY <2>1, <2>2, OthersKept DEF IndInv
  <2> QED
    BY <2>2, <2>3, <2>4 DEF IndInv
<1>2. CASE UNCHANGED vars
  BY <1>2 DEF IndInv, TypeOK, OwnInv, PendingStands, SessionKnown, SentIsOnRecord, Untouched,
              ReceiptsEarned, ReportEarned, Current, Slot, vars, command, scratch, evidence
<1> QED
  BY <1>1, <1>2

THEOREM Invariance == Spec => []IndInv
  BY InitOwned, StepOwned, PTL DEF Spec

\* In every state the variables have their types: an index always names a
\* folder of its batch, so no command reads past the batch it froze.
THEOREM TypeCorrect == Spec => []TypeOK
<1>1. IndInv => TypeOK
  BY DEF IndInv
<1> QED
  BY <1>1, Invariance, PTL

\* inspect_migration_lock calls a folder free for an environment only when
\* no SQL of it reached that database or still can: what was sent is on
\* record in the folder itself, not in the run directory.
THEOREM FreeFoldersUntouched == Spec => []UnlockedIsUntouched
<1>1. IndInv => UnlockedIsUntouched
  <2> SUFFICES ASSUME IndInv, NEW f \in Folder, NEW e \in Environment, Unlocked(f, e),
                      NEW p \in Process, EnvOf[p] = e
               PROVE  Untouched(p, f)
    BY DEF UnlockedIsUntouched
  <2>1. event[p][f] \notin {"pending", "verified"}
    BY DEF Unlocked, Locked, LockedBy
  <2> QED
    BY <2>1 DEF IndInv, OwnInv, SentIsOnRecord
<1> QED
  BY <1>1, Invariance, PTL

\* A folder is verified for an environment by one command at most, the one
\* whose receipt is there and whose SQL was committed (install_receipt).
THEOREM OneVerified == Spec => []OneIsVerified
<1>1. IndInv => OneIsVerified
  <2> SUFFICES ASSUME IndInv, NEW p \in Process, NEW f \in Selected(p),
                      event[p][f] = "verified" \/ receipt[<<f, EnvOf[p]>>] = p
               PROVE  receipt[<<f, EnvOf[p]>>] = p /\ payload[p][f] = "committed"
    BY DEF OneIsVerified
  <2>1. f \in Folder
    BY CurrentType DEF IndInv
  <2> QED
    BY <2>1 DEF IndInv, OwnInv, ReceiptsEarned
<1> QED
  BY <1>1, Invariance, PTL

\* What apply_batch tells the operator: "no writes were attempted" and
\* "retry is permitted" are true of the database and of the evidence.
THEOREM ReportTrue == Spec => []ReportIsTrue
<1>1. IndInv => ReportIsTrue
  <2> SUFFICES ASSUME IndInv, NEW p \in Process
               PROVE  /\ told[p] = "untouched" => \A f \in Selected(p) : Untouched(p, f)
                      /\ told[p] = "retry" => Untouched(p, Current(p)) /\ ~LockedBy(p, Current(p))
    BY DEF ReportIsTrue
  <2>1. Selected(p) \subseteq Folder
    BY CurrentType DEF IndInv
  <2>2. ReportEarned(p)
    BY DEF IndInv, OwnInv
  <2> QED
    BY <2>1, <2>2 DEF ReportEarned, Untouched, LockedBy, RecordLocks
<1> QED
  BY <1>1, Invariance, PTL

=============================================================================
