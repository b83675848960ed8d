--------------------------- MODULE EnvironmentProofs ---------------------------
(***************************************************************************)
(* Proofs about what is done to one environment beside the rollout of a    *)
(* capsule, for every value of the constants: any number of commands,      *)
(* steps, folders, files, exports, rows and changes by others.             *)
(***************************************************************************)
EXTENDS Environment, FiniteSetTheorems, WellFoundedInduction, TLAPS

-----------------------------------------------------------------------------
(* BaselineData: a build takes the whole of one export.                     *)

Begun == {"locked", "marked", "capture", "write", "replace", "written", "unlock"}
Marking == Begun \ {"locked"}
ExporterPc == Begun \cup {"idle", "done", "failed"}
File == {"child", "parent", "manifest"}

DataTypes ==
    /\ src \in Sources
    /\ exporter \in [Exporter -> [pc : ExporterPc, cap : Sources \cup {None}, at : 1..4]]
    /\ order \in Seq(Exporter)
    /\ dir = [lock |-> dir.lock, incomplete |-> dir.incomplete, tmp |-> dir.tmp, file |-> dir.file]
    /\ dir.incomplete \in BOOLEAN
    /\ dir.file = [f \in File |-> dir.file[f]]
    /\ build = [pc |-> build.pc, seen |-> build.seen, cat |-> build.cat,
                manifest |-> build.manifest, data |-> build.data]
    /\ build.data = [t \in Data!Table |-> build.data[t]]
    /\ build.seen \in 0..Len(order)

(* What an exporter that goes on knows of the directory: the lock is its    *)
(* own, it is the last that marked it, and the manifest is gone until it    *)
(* writes its own.                                                          *)
ExporterInv(e) ==
    /\ exporter[e].pc \in Begun => dir.lock = e
    /\ exporter[e].pc \in Marking => order # <<>> /\ order[Len(order)] = e
    /\ exporter[e].pc \in Marking \ {"unlock"} => dir.incomplete
    /\ exporter[e].pc \in {"idle", "locked", "marked", "capture"} => exporter[e].cap = None
    /\ exporter[e].pc \in {"idle", "locked", "marked", "capture", "write", "replace"} => exporter[e].at \in 1..3
    /\ exporter[e].pc \in {"capture", "write", "replace"} => dir.file["manifest"] = None
    /\ exporter[e].pc = "written" => dir.file["manifest"] = exporter[e].cap

(* The export that a manifest lists was the last to mark the directory when *)
(* nothing is marked, and had not begun before a build that may still read  *)
(* it.                                                                      *)
ManifestInv ==
    dir.file["manifest"] # None =>
        \E n \in 1..Len(order) :
            /\ exporter[order[n]].cap = dir.file["manifest"]
            /\ ~dir.incomplete => n = Len(order)
            /\ build.pc = "manifest" => n >= build.seen

(* What a build has read: a manifest of such an export, and the tables that *)
(* it lists.                                                                *)
BuildInv ==
    /\ build.pc \in {"child", "parent", "again", "bundle", "done"} =>
           /\ build.manifest # None
           /\ \E n \in 1..Len(order) : n >= build.seen /\ exporter[order[n]].cap = build.manifest
    /\ build.pc \in {"parent", "again", "bundle", "done"} =>
           build.data["child"] = build.manifest["child"]
    /\ build.pc \in {"again", "bundle", "done"} =>
           build.data["parent"] = build.manifest["parent"]

DataInv == DataTypes /\ ManifestInv /\ BuildInv /\ \A e \in Exporter : ExporterInv(e)

LEMMA FilesInOrder ==
    /\ Data!Files = <<"child", "parent", "manifest">> /\ Len(Data!Files) = 3
    /\ \A k \in 1..3 : Data!Files[k] \in File /\ (Data!Files[k] = "manifest" <=> k = 3)
    /\ Data!ToSet(Data!Files) = File
<1>1. Data!Files = <<"child", "parent", "manifest">> /\ Len(Data!Files) = 3 /\ DOMAIN Data!Files = 1..3
  BY DEF Data!Files
<1>2. Data!Files[1] = "child" /\ Data!Files[2] = "parent" /\ Data!Files[3] = "manifest"
  BY DEF Data!Files
<1>3. \A k \in 1..3 : k = 1 \/ k = 2 \/ k = 3
  OBVIOUS
<1> QED
  BY <1>1, <1>2, <1>3 DEF File, Data!ToSet

LEMMA DataInit == ASSUME Data!Init PROVE DataInv
<1>1. DataTypes
  BY FilesInOrder DEF Data!Init, DataTypes, ExporterPc
<1>2. ManifestInv /\ BuildInv
  BY FilesInOrder DEF Data!Init, ManifestInv, BuildInv, File
<1>3. ASSUME NEW e \in Exporter PROVE ExporterInv(e)
  BY DEF Data!Init, ExporterInv, Begun, Marking
<1> QED
  BY <1>1, <1>2, <1>3 DEF DataInv

(* The lock keeps exporters apart: while one goes on, or while the lock is  *)
(* free, the others have no claim on the directory.                         *)
LEMMA OthersWait ==
    ASSUME DataInv, NEW e \in Exporter, NEW q \in Exporter, q # e,
           exporter[e].pc \in Begun \/ dir.lock = None,
           exporter'[q] = exporter[q]
    PROVE  ExporterInv(q)'
<1>1. exporter[q].pc \notin Begun
  BY ExporterAssumption DEF DataInv, ExporterInv
<1>2. ExporterInv(q)
  BY DEF DataInv
<1> QED
  BY <1>1, <1>2 DEF ExporterInv, Begun, Marking

(* A step of an exporter to its next place. *)
Moved(e, from, to) ==
    /\ exporter' \in [Exporter -> [pc : ExporterPc, cap : Sources \cup {None}, at : 1..4]]
    /\ exporter[e].pc = from /\ exporter'[e].pc = to
    /\ exporter'[e].cap = exporter[e].cap /\ exporter'[e].at = exporter[e].at
    /\ \A q \in Exporter : exporter'[q].cap = exporter[q].cap
    /\ \A q \in Exporter : q # e => exporter'[q] = exporter[q]

LEMMA MovedOn ==
    ASSUME DataTypes, NEW e \in Exporter, NEW from, NEW to \in ExporterPc, Data!Goes(e, from, to)
    PROVE  Moved(e, from, to)
  BY DEF DataTypes, Data!Goes, Moved

(* Nothing that a build has read, or may read, changes when the order only  *)
(* grows and no capture that was made is replaced.                          *)
LEMMA CapturesKept ==
    ASSUME DataTypes, DataTypes', build' = build,
           order' = order \/ (\E e \in Exporter : order' = Append(order, e)),
           \A q \in Exporter : exporter[q].cap # None => exporter'[q].cap = exporter[q].cap
    PROVE  /\ BuildInv => BuildInv'
           /\ Len(order) <= Len(order')
           /\ \A n \in 1..Len(order) : order[n] \in Exporter /\ n \in 1..Len(order') /\ order'[n] = order[n]
<1>1. /\ Len(order) \in Nat /\ Len(order) <= Len(order') /\ Len(order') \in Nat
      /\ \A n \in 1..Len(order) : order[n] \in Exporter /\ n \in 1..Len(order') /\ order'[n] = order[n]
  BY DEF DataTypes
<1>2. ASSUME BuildInv PROVE BuildInv'
  <2>1. ASSUME build.pc \in {"child", "parent", "again", "bundle", "done"}
        PROVE  /\ build.manifest # None
               /\ \E n \in 1..Len(order') : n >= build.seen /\ exporter'[order'[n]].cap = build.manifest
    <3>1. build.manifest # None
      BY <1>2, <2>1 DEF BuildInv
    <3>2. PICK n \in 1..Len(order) : n >= build.seen /\ exporter[order[n]].cap = build.manifest
      BY <1>2, <2>1 DEF BuildInv
    <3>3. n \in 1..Len(order') /\ exporter'[order'[n]].cap = build.manifest
      BY <1>1, <3>1, <3>2
    <3> QED
      BY <3>1, <3>2, <3>3
  <2> QED
    BY <1>2, <2>1 DEF BuildInv
<1> QED
  BY <1>1, <1>2

(* The manifest in the directory is still that of the same export. *)
LEMMA ManifestKept ==
    ASSUME DataTypes, DataTypes', ManifestInv, build' = build, order' = order,
           dir'.file["manifest"] = dir.file["manifest"],
           dir.incomplete => dir'.incomplete,
           \A q \in Exporter : exporter[q].cap # None => exporter'[q].cap = exporter[q].cap
    PROVE  ManifestInv'
<1> SUFFICES ASSUME dir.file["manifest"] # None
             PROVE  \E n \in 1..Len(order) :
                        /\ exporter'[order[n]].cap = dir.file["manifest"]
                        /\ ~dir'.incomplete => n = Len(order)
                        /\ build.pc = "manifest" => n >= build.seen
  BY DEF ManifestInv
<1>1. PICK n \in 1..Len(order) :
          /\ exporter[order[n]].cap = dir.file["manifest"]
          /\ ~dir.incomplete => n = Len(order)
          /\ build.pc = "manifest" => n >= build.seen
  BY DEF ManifestInv
<1>2. order[n] \in Exporter
  BY DEF DataTypes
<1>3. exporter'[order[n]].cap = dir.file["manifest"]
  BY <1>1, <1>2
<1> QED
  BY <1>1, <1>3

LEMMA LockInv == ASSUME DataInv, NEW e \in Exporter, Data!Lock(e) PROVE DataInv'
<1>1. /\ dir.lock = None /\ dir' = [dir EXCEPT !.lock = e] /\ UNCHANGED <<src, order, build>>
      /\ Data!Goes(e, "idle", "locked")
  BY DEF Data!Lock, Data!target
<1>2. Moved(e, "idle", "locked")
  BY <1>1, MovedOn DEF DataInv, ExporterPc, Begun
<1>3. DataTypes'
  BY <1>1, <1>2 DEF Moved, DataInv, DataTypes, ExporterPc, Begun
<1>4. ManifestInv' /\ BuildInv'
  BY <1>1, <1>3, <1>2, ManifestKept, CapturesKept DEF Moved, DataInv, DataTypes
<1>5. ExporterInv(e)'
  BY <1>1, <1>2 DEF Moved, DataInv, DataTypes, ExporterInv, Begun, Marking
<1> QED
  BY <1>1, <1>3, <1>4, <1>5, <1>2, OthersWait DEF Moved, DataInv

LEMMA MarkInv == ASSUME DataInv, NEW e \in Exporter, Data!Mark(e) PROVE DataInv'
<1>1. /\ dir' = [dir EXCEPT !.incomplete = TRUE] /\ order' = Append(order, e) /\ UNCHANGED <<src, build>>
      /\ Data!Goes(e, "locked", "marked") /\ exporter[e].pc \in Begun
  BY DEF Data!Mark, Data!target, Data!Goes, Begun
<1>2. Moved(e, "locked", "marked")
  BY <1>1, MovedOn DEF DataInv, ExporterPc, Begun
<1>3. /\ Len(order') = Len(order) + 1 /\ order'[Len(order')] = e /\ order' # <<>>
      /\ order' \in Seq(Exporter) /\ Len(order) \in Nat
  <2>1. order \in Seq(Exporter) /\ order' = Append(order, e)
    BY <1>1 DEF DataInv, DataTypes
  <2> QED
    BY <2>1
<1>4. DataTypes'
  <2>1. dir' = [lock |-> dir'.lock, incomplete |-> dir'.incomplete, tmp |-> dir'.tmp, file |-> dir'.file]
        /\ dir'.incomplete \in BOOLEAN /\ dir'.file = dir.file
    BY <1>1 DEF DataInv, DataTypes
  <2>2. build'.seen \in 0..Len(order')
    BY <1>1, <1>3 DEF DataInv, DataTypes
  <2> QED
    BY <1>1, <1>2, <1>3, <2>1, <2>2 DEF Moved, DataInv, DataTypes
<1>5. \A q \in Exporter : exporter[q].cap # None => exporter'[q].cap = exporter[q].cap
  BY <1>1, <1>2 DEF Moved, DataInv
<1>6. /\ BuildInv' /\ Len(order) <= Len(order')
      /\ \A n \in 1..Len(order) : order[n] \in Exporter /\ n \in 1..Len(order') /\ order'[n] = order[n]
  BY <1>1, <1>4, <1>5, CapturesKept DEF DataInv
<1>7. ManifestInv'
  <2>1. dir'.incomplete /\ dir'.file = dir.file
    BY <1>1 DEF DataInv, DataTypes
  <2> SUFFICES ASSUME dir.file["manifest"] # None
               PROVE  \E n \in 1..Len(order') : /\ exporter'[order'[n]].cap = dir.file["manifest"]
                                                /\ build.pc = "manifest" => n >= build.seen
    BY <1>1, <2>1 DEF ManifestInv
  <2>2. PICK n \in 1..Len(order) : /\ exporter[order[n]].cap = dir.file["manifest"]
                                   /\ build.pc = "manifest" => n >= build.seen
    BY DEF DataInv, ManifestInv
  <2> QED
    BY <1>5, <1>6, <2>2
<1>8. ExporterInv(e)'
  <2>1. dir.lock = e /\ dir'.lock = dir.lock /\ dir'.incomplete
    BY <1>1 DEF DataInv, DataTypes, ExporterInv
  <2> QED
    BY <1>1, <1>3, <2>1, <1>2 DEF Moved, DataInv, ExporterInv, Begun, Marking
<1> QED
  BY <1>1, <1>4, <1>6, <1>7, <1>8, <1>2, OthersWait DEF Moved, DataInv

LEMMA InvalidateInv == ASSUME DataInv, NEW e \in Exporter, Data!Invalidate(e) PROVE DataInv'
<1>1. /\ dir' = [dir EXCEPT !.file["manifest"] = None] /\ UNCHANGED <<src, order, build>>
      /\ Data!Goes(e, "marked", "capture") /\ exporter[e].pc \in Begun
  BY DEF Data!Invalidate, Data!target, Data!Goes, Begun
<1>2. Moved(e, "marked", "capture")
  BY <1>1, MovedOn DEF DataInv, ExporterPc, Begun
<1>3. dir'.file["manifest"] = None /\ dir'.lock = dir.lock /\ dir'.incomplete = dir.incomplete
  BY <1>1 DEF DataInv, DataTypes, File
<1>4. DataTypes'
  BY <1>1, <1>2 DEF Moved, DataInv, DataTypes, ExporterPc, Begun
<1>5. BuildInv'
  BY <1>1, <1>4, <1>2, CapturesKept DEF Moved, DataInv
<1>6. ManifestInv'
  BY <1>3 DEF ManifestInv
<1>7. ExporterInv(e)'
  BY <1>1, <1>3, <1>2 DEF Moved, DataInv, ExporterInv, Begun, Marking
<1> QED
  BY <1>1, <1>4, <1>5, <1>6, <1>7, <1>2, OthersWait DEF Moved, DataInv

LEMMA CaptureInv == ASSUME DataInv, NEW e \in Exporter, Data!Capture(e) PROVE DataInv'
<1>1. /\ exporter[e].pc = "capture" /\ UNCHANGED <<src, dir, order, build>>
      /\ exporter' = [exporter EXCEPT ![e].pc = "write", ![e].cap = src]
      /\ exporter[e].pc \in Begun
  BY DEF Data!Capture, Data!target, Begun
<1>2. /\ exporter'[e].pc = "write" /\ exporter'[e].at = exporter[e].at
      /\ \A q \in Exporter : q # e => exporter'[q] = exporter[q]
      /\ exporter[e].cap = None
  BY <1>1 DEF DataInv, DataTypes, ExporterInv
<1>3. DataTypes'
  <2>1. exporter' \in [Exporter -> [pc : ExporterPc, cap : Sources \cup {None}, at : 1..4]]
    <3>1. /\ exporter \in [Exporter -> [pc : ExporterPc, cap : Sources \cup {None}, at : 1..4]]
          /\ src \in Sources /\ "write" \in ExporterPc
      BY DEF DataInv, DataTypes, ExporterPc, Begun
    <3> QED
      BY <1>1, <3>1
  <2> QED
    BY <1>1, <2>1 DEF DataInv, DataTypes
<1>4. BuildInv' /\ ManifestInv'
  BY <1>1, <1>2, <1>3, CapturesKept, ManifestKept DEF DataInv
<1>5. ExporterInv(e)'
  BY <1>1, <1>2 DEF DataInv, ExporterInv, Begun, Marking
<1> QED
  BY <1>1, <1>2, <1>3, <1>4, <1>5, OthersWait DEF DataInv

LEMMA WriteTemporaryInv == ASSUME DataInv, NEW e \in Exporter, Data!WriteTemporary(e) PROVE DataInv'
<1>1. /\ dir' = [dir EXCEPT !.tmp = @ \cup {Data!Files[exporter[e].at]}] /\ UNCHANGED <<src, order, build>>
      /\ Data!Goes(e, "write", "replace") /\ exporter[e].pc \in Begun
  BY DEF Data!WriteTemporary, Data!target, Data!Goes, Begun
<1>2. Moved(e, "write", "replace")
  BY <1>1, MovedOn DEF DataInv, ExporterPc, Begun
<1>3. dir'.file = dir.file /\ dir'.lock = dir.lock /\ dir'.incomplete = dir.incomplete
  BY <1>1 DEF DataInv, DataTypes
<1>4. DataTypes'
  BY <1>1, <1>2 DEF Moved, DataInv, DataTypes, ExporterPc, Begun
<1>5. BuildInv' /\ ManifestInv'
  BY <1>1, <1>3, <1>4, <1>2, CapturesKept, ManifestKept DEF Moved, DataInv
<1>6. ExporterInv(e)'
  BY <1>1, <1>3, <1>2 DEF Moved, DataInv, ExporterInv, Begun, Marking
<1> QED
  BY <1>1, <1>4, <1>5, <1>6, <1>2, OthersWait DEF Moved, DataInv

(* The manifest is written last, with what this exporter captured, and the  *)
(* exporter is the last in the order.                                       *)
LEMMA ReplaceFileInv == ASSUME DataInv, NEW e \in Exporter, Data!ReplaceFile(e) PROVE DataInv'
<1> DEFINE k == exporter[e].at
           f == Data!Files[k]
<1>1. /\ exporter[e].pc = "replace" /\ exporter[e].pc \in Begun /\ UNCHANGED <<src, order, build>>
      /\ dir' = [dir EXCEPT !.tmp = @ \ {f}, !.file[f] = Data!ContentOf(e, f)]
      /\ exporter' = [exporter EXCEPT ![e].at = @ + 1, ![e].pc = IF k = Len(Data!Files) THEN "written" ELSE "write"]
  BY DEF Data!ReplaceFile, Data!target, Begun
<1>2. k \in 1..3 /\ f \in File /\ (f = "manifest" <=> k = 3) /\ Len(Data!Files) = 3
  BY <1>1, FilesInOrder DEF DataInv, ExporterInv
<1>3. /\ dir'.lock = dir.lock /\ dir'.incomplete = dir.incomplete
      /\ dir'.file = [dir.file EXCEPT ![f] = Data!ContentOf(e, f)]
      /\ dir'.file = [g \in File |-> dir'.file[g]]
      /\ dir' = [lock |-> dir'.lock, incomplete |-> dir'.incomplete, tmp |-> dir'.tmp, file |-> dir'.file]
  BY <1>1, <1>2 DEF DataInv, DataTypes
<1>4. /\ exporter' \in [Exporter -> [pc : ExporterPc, cap : Sources \cup {None}, at : 1..4]]
      /\ exporter'[e].pc = IF k = 3 THEN "written" ELSE "write"
      /\ exporter'[e].at = k + 1
      /\ \A q \in Exporter : exporter'[q].cap = exporter[q].cap
      /\ \A q \in Exporter : q # e => exporter'[q] = exporter[q]
  BY <1>1, <1>2 DEF DataInv, DataTypes, ExporterPc, Begun
<1>5. DataTypes'
  BY <1>1, <1>3, <1>4 DEF DataInv, DataTypes
<1>6. BuildInv'
  BY <1>1, <1>4, <1>5, CapturesKept DEF DataInv
<1>7. /\ order # <<>> /\ order[Len(order)] = e /\ dir.incomplete /\ dir.lock = e
      /\ dir.file["manifest"] = None
  BY <1>1 DEF DataInv, ExporterInv, Begun, Marking
<1>8. CASE k = 3
  <2>1. dir'.file["manifest"] = exporter[e].cap
    BY <1>2, <1>3, <1>8 DEF Data!ContentOf, DataInv, DataTypes
  <2>2. Len(order) \in 1..Len(order) /\ build.seen <= Len(order)
    BY <1>7 DEF DataInv, DataTypes
  <2>3. ManifestInv'
    BY <1>1, <1>4, <1>7, <2>1, <2>2 DEF ManifestInv, DataInv, DataTypes
  <2>4. ExporterInv(e)'
    BY <1>1, <1>3, <1>4, <1>7, <1>8, <2>1 DEF ExporterInv, Begun, Marking
  <2> QED
    BY <1>1, <1>4, <1>5, <1>6, <2>3, <2>4, OthersWait DEF DataInv
<1>9. CASE k # 3
  <2>1. dir'.file["manifest"] = None
    BY <1>2, <1>3, <1>7, <1>9 DEF DataInv, DataTypes, File
  <2>2. ManifestInv'
    BY <2>1 DEF ManifestInv
  <2>3. ExporterInv(e)'
    BY <1>1, <1>2, <1>3, <1>4, <1>7, <1>9, <2>1 DEF ExporterInv, Begun, Marking
  <2> QED
    BY <1>1, <1>4, <1>5, <1>6, <2>2, <2>3, OthersWait DEF DataInv
<1> QED
  BY <1>8, <1>9

LEMMA ClearMarkerInv == ASSUME DataInv, NEW e \in Exporter, Data!ClearMarker(e) PROVE DataInv'
<1>1. /\ dir' = [dir EXCEPT !.incomplete = FALSE] /\ UNCHANGED <<src, order, build>>
      /\ Data!Goes(e, "written", "unlock") /\ exporter[e].pc \in Begun
  BY DEF Data!ClearMarker, Data!target, Data!Goes, Begun
<1>2. Moved(e, "written", "unlock")
  BY <1>1, MovedOn DEF DataInv, ExporterPc, Begun
<1>3. dir'.file = dir.file /\ dir'.lock = dir.lock
  BY <1>1 DEF DataInv, DataTypes
<1>4. DataTypes'
  BY <1>1, <1>2 DEF Moved, DataInv, DataTypes, ExporterPc, Begun
<1>5. BuildInv'
  BY <1>1, <1>4, <1>2, CapturesKept DEF Moved, DataInv
<1>6. /\ exporter[e].pc = "written" /\ exporter'[e].pc = "unlock" /\ exporter'[e].cap = exporter[e].cap
  BY <1>1, <1>2 DEF Moved, DataInv
<1>7. /\ order # <<>> /\ order[Len(order)] = e /\ dir.lock = e /\ dir.file["manifest"] = exporter[e].cap
  BY <1>6 DEF DataInv, ExporterInv, Begun, Marking
<1>8. ManifestInv'
  <2>1. Len(order) \in 1..Len(order) /\ build.seen <= Len(order)
    BY <1>7 DEF DataInv, DataTypes
  <2> QED
    BY <1>1, <1>3, <1>6, <1>7, <2>1 DEF ManifestInv
<1>9. ExporterInv(e)'
  BY <1>1, <1>3, <1>6, <1>7 DEF ExporterInv, Begun, Marking
<1> QED
  BY <1>1, <1>4, <1>5, <1>8, <1>9, <1>2, OthersWait DEF Moved, DataInv

(* An exporter that ends, however it ends, leaves the files alone. *)
LEMMA EndInv ==
    ASSUME DataInv, NEW e \in Exporter, Data!Unlock(e) \/ Data!ExportFails(e) \/ Data!Killed(e)
    PROVE  DataInv'
<1>1. PICK from \in Begun, to \in {"done", "failed"} : Data!Goes(e, from, to)
  <2>1. exporter[e].pc \in ExporterPc
    BY DEF DataInv, DataTypes
  <2>2. CASE Data!Unlock(e)
    BY <2>2 DEF Data!Unlock, Begun
  <2>3. CASE Data!ExportFails(e)
    BY <2>3 DEF Data!ExportFails, Begun
  <2>4. CASE Data!Killed(e)
    BY <2>1, <2>4 DEF Data!Killed, ExporterPc
  <2> QED
    BY <2>2, <2>3, <2>4
<1>2. /\ UNCHANGED <<src, order, build>> /\ dir'.file = dir.file /\ dir'.incomplete = dir.incomplete
      /\ dir' = [lock |-> dir'.lock, incomplete |-> dir'.incomplete, tmp |-> dir'.tmp, file |-> dir'.file]
  BY DEF Data!Unlock, Data!ExportFails, Data!Killed, DataInv, DataTypes, Data!target
<1>3. /\ exporter' \in [Exporter -> [pc : ExporterPc, cap : Sources \cup {None}, at : 1..4]]
      /\ exporter[e].pc \in Begun /\ exporter'[e].pc \in {"done", "failed"}
      /\ \A q \in Exporter : exporter'[q].cap = exporter[q].cap
      /\ \A q \in Exporter : q # e => exporter'[q] = exporter[q]
  BY <1>1, MovedOn DEF DataInv, ExporterPc, Moved
<1>4. DataTypes'
  BY <1>2, <1>3 DEF DataInv, DataTypes
<1>5. BuildInv' /\ ManifestInv'
  BY <1>2, <1>3, <1>4, CapturesKept, ManifestKept DEF DataInv
<1>6. ExporterInv(e)'
  BY <1>3 DEF ExporterInv, Begun, Marking
<1> QED
  BY <1>3, <1>4, <1>5, <1>6, OthersWait DEF DataInv

LEMMA RemoveLeftoversInv == ASSUME DataInv, Data!RemoveLeftovers PROVE DataInv'
<1>1. /\ dir' = [dir EXCEPT !.lock = None, !.tmp = {}] /\ UNCHANGED <<src, order, exporter, build>>
      /\ \A e \in Exporter : exporter[e].pc \notin Begun
  BY DEF Data!RemoveLeftovers, Data!export, Begun
<1>2. dir'.file = dir.file /\ dir'.incomplete = dir.incomplete
  BY <1>1 DEF DataInv, DataTypes
<1>3. DataTypes'
  BY <1>1, <1>2 DEF DataInv, DataTypes
<1>4. BuildInv' /\ ManifestInv'
  BY <1>1, <1>2, <1>3, CapturesKept, ManifestKept DEF DataInv
<1>5. ASSUME NEW e \in Exporter PROVE ExporterInv(e)'
  BY <1>1, <1>5 DEF DataInv, ExporterInv, Begun, Marking
<1> QED
  BY <1>3, <1>4, <1>5 DEF DataInv

-----------------------------------------------------------------------------
(* The steps of the build *)

LEMMA ExportersKept ==
    ASSUME DataInv, UNCHANGED <<dir, order, exporter>>
    PROVE  \A e \in Exporter : ExporterInv(e)'
  BY DEF DataInv, ExporterInv

(* A build that starts to read finds nothing marked, so that the manifest is *)
(* that of the last export.                                                 *)
LEMMA StartReadingInv == ASSUME DataInv, Data!StartReading PROVE DataInv'
<1>1. /\ UNCHANGED <<src, dir, order, exporter>> /\ build'.pc = "manifest" /\ build'.seen = Len(order)
      /\ ~dir.incomplete
      /\ build' = [pc |-> build'.pc, seen |-> build'.seen, cat |-> build'.cat,
                   manifest |-> build'.manifest, data |-> build'.data]
      /\ build'.data = [u \in Data!Table |-> build'.data[u]]
  BY DEF Data!StartReading, Data!export, Data!Unmarked, DataInv, DataTypes
<1>2. DataTypes'
  BY <1>1 DEF DataInv, DataTypes
<1>3. BuildInv'
  BY <1>1 DEF BuildInv
<1>4. ManifestInv'
  BY <1>1 DEF DataInv, DataTypes, ManifestInv
<1> QED
  BY <1>1, <1>2, <1>3, <1>4, ExportersKept DEF DataInv

LEMMA ReadManifestInv == ASSUME DataInv, Data!ReadManifest PROVE DataInv'
<1>1. /\ UNCHANGED <<src, dir, order, exporter>> /\ build.pc = "manifest" /\ build'.pc = "child"
      /\ build'.seen = build.seen /\ build'.manifest = dir.file["manifest"] /\ dir.file["manifest"] # None
      /\ build' = [pc |-> build'.pc, seen |-> build'.seen, cat |-> build'.cat,
                   manifest |-> build'.manifest, data |-> build'.data]
      /\ build'.data = [u \in Data!Table |-> build'.data[u]]
  BY DEF Data!ReadManifest, Data!export, DataInv, DataTypes
<1>2. DataTypes'
  BY <1>1 DEF DataInv, DataTypes
<1>3. BuildInv'
  BY <1>1 DEF BuildInv, DataInv, ManifestInv
<1>4. ManifestInv'
  BY <1>1 DEF DataInv, ManifestInv
<1> QED
  BY <1>1, <1>2, <1>3, <1>4, ExportersKept DEF DataInv

(* A table is taken only if it is the one that the manifest lists. *)
LEMMA ReadTableInv ==
    ASSUME DataInv, NEW t, NEW next, Data!ReadTable(t, next),
           <<t, next>> \in {<<"child", "parent">>, <<"parent", "again">>}
    PROVE  DataInv'
<1>1. /\ UNCHANGED <<src, dir, order, exporter>> /\ build.pc = t /\ build'.pc = next
      /\ build'.seen = build.seen /\ build'.manifest = build.manifest
      /\ build'.data = [build.data EXCEPT ![t] = dir.file[t]] /\ dir.file[t] = build.manifest[t]
      /\ build' = [pc |-> build'.pc, seen |-> build'.seen, cat |-> build'.cat,
                   manifest |-> build'.manifest, data |-> build'.data]
      /\ build'.data = [u \in Data!Table |-> build'.data[u]]
  BY DEF Data!ReadTable, Data!Matches, Data!export, DataInv, DataTypes
<1>2. DataTypes'
  BY <1>1 DEF DataInv, DataTypes
<1>3. /\ t \in Data!Table /\ build'.data[t] = build.manifest[t]
      /\ \A u \in Data!Table : u # t => build'.data[u] = build.data[u]
  BY <1>1 DEF DataInv, DataTypes, Data!Table
<1>4. BuildInv'
  BY <1>1, <1>3 DEF BuildInv, DataInv, Data!Table
<1>5. ManifestInv'
  BY <1>1 DEF DataInv, ManifestInv
<1> QED
  BY <1>1, <1>2, <1>4, <1>5, ExportersKept DEF DataInv

LEMMA BuildEndsInv == ASSUME DataInv, Data!Accept \/ Data!MakeFolder \/ Data!BuildRefuses PROVE DataInv'
<1>1. /\ UNCHANGED <<src, dir, order, exporter>> /\ build' = [build EXCEPT !.pc = build'.pc]
      /\ \/ build.pc \in {"again", "bundle"} /\ build'.pc \in {"bundle", "done"}
         \/ build'.pc = "refused"
  BY DEF Data!Accept, Data!MakeFolder, Data!BuildRefuses, Data!export, DataInv, DataTypes
<1>2. build'.seen = build.seen /\ build'.manifest = build.manifest /\ build'.data = build.data
  BY <1>1 DEF DataInv, DataTypes
<1>3. DataTypes'
  BY <1>1, <1>2 DEF DataInv, DataTypes
<1>4. BuildInv' /\ ManifestInv'
  BY <1>1, <1>2 DEF DataInv, BuildInv, ManifestInv
<1> QED
  BY <1>1, <1>3, <1>4, ExportersKept DEF DataInv

(* The apply and the changes of the two schemas touch neither the directory *)
(* nor the build.                                                           *)
LEMMA OthersInv ==
    ASSUME DataInv, UNCHANGED <<dir, order, exporter, build>>, src' \in Sources
    PROVE  DataInv'
<1>1. DataTypes'
  BY DEF DataInv, DataTypes
<1>2. BuildInv' /\ ManifestInv'
  BY DEF DataInv, BuildInv, ManifestInv
<1> QED
  BY <1>1, <1>2, ExportersKept DEF DataInv

LEMMA DataStep == DataInv /\ [Data!Next]_(Data!vars) => DataInv'
<1> SUFFICES ASSUME DataInv, [Data!Next]_(Data!vars) PROVE DataInv'
  OBVIOUS
<1>1. src \in Sources
  BY DEF DataInv, DataTypes
<1>2. CASE \E e \in Exporter : Data!ExporterStep(e)
  BY <1>2, LockInv, MarkInv, InvalidateInv, CaptureInv, WriteTemporaryInv, ReplaceFileInv,
     ClearMarkerInv, EndInv
     DEF Data!ExporterStep
<1>3. CASE Data!BuildStep
  BY <1>3, StartReadingInv, ReadManifestInv, ReadTableInv, BuildEndsInv DEF Data!BuildStep
<1>4. CASE Data!RemoveLeftovers
  BY <1>4, RemoveLeftoversInv
<1>5. CASE Data!ApplyStep
  BY <1>1, <1>5, OthersInv
     DEF Data!ApplyStep, Data!Start, Data!Insert, Data!ApplyFails, Data!Commit, Data!Verify,
         Data!export
<1>6. CASE Data!SourceChanges \/ Data!TargetChanges
  BY <1>1, <1>6, OthersInv DEF Data!SourceChanges, Data!TargetChanges, Data!export
<1>7. CASE UNCHANGED Data!vars
  BY <1>1, <1>7, OthersInv DEF Data!vars
<1> QED
  BY <1>2, <1>3, <1>4, <1>5, <1>6, <1>7 DEF Data!Next

LEMMA OneExport == ASSUME DataInv PROVE Data!TakesOneExport
<1> SUFFICES ASSUME build.pc \in {"bundle", "done"}
             PROVE  \E n \in 1..Len(order) :
                        /\ n >= build.seen /\ exporter[order[n]].cap # None
                        /\ \A t \in Data!Table : build.data[t] = exporter[order[n]].cap[t]
  BY DEF Data!TakesOneExport
<1>1. PICK n \in 1..Len(order) : n >= build.seen /\ exporter[order[n]].cap = build.manifest
  BY DEF DataInv, BuildInv
<1>2. build.manifest # None /\ \A t \in Data!Table : build.data[t] = build.manifest[t]
  BY DEF DataInv, BuildInv, Data!Table
<1> QED
  BY <1>1, <1>2

-----------------------------------------------------------------------------
(* Numbers: a least element, induction over a set, and the Max of a finite  *)
(* set.                                                                     *)
LEMMA Least ==
    ASSUME NEW S, S \subseteq Nat, S # {}
    PROVE  \E n \in S : \A m \in S : n <= m
<1>1. PICK n \in S : \A m \in S : <<m, n>> \notin OpToRel(<, Nat)
  BY NatLessThanWellFounded, WFMin, Zenon
<1>2. \A m \in S : ~(m < n)
  BY <1>1, Zenon DEF OpToRel
<1> QED
  BY <1>2

LEMMA Induct ==
    ASSUME NEW S, 0 \in S, \A n \in Nat : n \in S => n + 1 \in S
    PROVE  Nat \subseteq S
<1> SUFFICES ASSUME Nat \ S # {} PROVE FALSE
  OBVIOUS
<1>1. PICK n \in Nat \ S : \A m \in Nat \ S : n <= m
  BY Least
<1> QED
  BY <1>1

LEMMA MaxExists ==
    ASSUME NEW S, S \subseteq Nat, S # {}, IsFiniteSet(S)
    PROVE  \E m \in S : \A k \in S : m >= k
<1>1. PICK n \in Nat : ExistsBijection(1 .. n, S)
  BY FS_NatBijection
<1>2. PICK f \in [1 .. n -> S] : \A k \in S : \E i \in 1 .. n : f[i] = k
  BY <1>1 DEF ExistsBijection, Bijection, Injection, Surjection
<1>3. \A i \in 1 .. n : f[i] \in Nat
  OBVIOUS
<1> DEFINE Bounds(j) == j <= n => \E b \in Nat : \A i \in 1 .. j : f[i] <= b
           Bounded == {j \in Nat : Bounds(j)}
<1> HIDE DEF Bounds, Bounded
<1>4. 0 \in Bounded
  BY DEF Bounds, Bounded
<1>5. ASSUME NEW j \in Nat, j \in Bounded PROVE j + 1 \in Bounded
  <2>1. SUFFICES ASSUME j + 1 <= n PROVE \E b \in Nat : \A i \in 1 .. j + 1 : f[i] <= b
    BY DEF Bounds, Bounded
  <2>2. PICK b \in Nat : \A i \in 1 .. j : f[i] <= b
    BY <1>5, <2>1 DEF Bounds, Bounded
  <2>3. f[j + 1] \in Nat
    BY <1>3, <2>1
  <2>4. ASSUME NEW i \in 1 .. j + 1 PROVE f[i] <= b + f[j + 1]
    <3>1. CASE i = j + 1
      BY <2>3, <3>1
    <3>2. CASE i # j + 1
      <4>1. i \in 1 .. j /\ f[i] \in Nat
        BY <1>3, <2>1, <3>2
      <4> QED
        BY <2>2, <2>3, <4>1
    <3> QED
      BY <3>1, <3>2
  <2> QED
    BY <2>3, <2>4
<1>6. n \in Bounded
  BY <1>4, <1>5, Induct
<1>7. Bounds(n)
  BY <1>6 DEF Bounded
<1>8. PICK b \in Nat : \A i \in 1 .. n : f[i] <= b
  BY <1>7 DEF Bounds
<1>9. \A k \in S : k <= b
  BY <1>2, <1>8
<1> DEFINE Above == {m \in Nat : \A k \in S : k <= m}
<1>10. b \in Above
  BY <1>9
<1>11. Above \subseteq Nat
  OBVIOUS
<1> HIDE DEF Above
<1>12. PICK m \in Above : \A a \in Above : m <= a
  BY <1>10, <1>11, Least
<1>13. m \in Nat /\ \A k \in S : k <= m
  BY DEF Above
<1>14. m \in S
  <2>1. SUFFICES ASSUME m \notin S PROVE FALSE
    OBVIOUS
  <2>2. PICK k \in S : TRUE
    OBVIOUS
  <2>3. k < m /\ m - 1 \in Nat
    BY <1>13, <2>1
  <2>4. \A l \in S : l <= m - 1
    BY <1>13, <2>1
  <2>5. m - 1 \in Above
    BY <2>3, <2>4 DEF Above
  <2> QED
    BY <1>12, <1>13, <2>5
<1> QED
  BY <1>13, <1>14

LEMMA FreshIdIsFresh ==
    ASSUME IsFiniteSet(Data!Seen("parent")), \A p \in Data!Seen("parent") : p.id \in Nat
    PROVE  Data!FreshId \in Nat /\ \A p \in Data!Seen("parent") : p.id < Data!FreshId
<1> DEFINE Seen == Data!Seen("parent")
           Ids == {p.id : p \in Seen}
<1>1. IsFiniteSet(Ids)
  <2> DEFINE f == [p \in Seen |-> p.id]
  <2>1. f \in Surjection(Seen, Ids)
    BY DEF Surjection
  <2> QED
    BY <2>1, FS_Surjection DEF ExistsSurjection
<1>2. Ids \cup {0} \subseteq Nat /\ IsFiniteSet(Ids \cup {0})
  BY <1>1, FS_AddElement
<1>3. Data!FreshId = Data!Max(Ids \cup {0}) + 1
  BY DEF Data!FreshId
<1>4. \A p \in Seen : p.id \in Ids \cup {0}
  OBVIOUS
<1> HIDE DEF Ids, Seen
<1> DEFINE All == Ids \cup {0}
<1> HIDE DEF All
<1>5. All \subseteq Nat /\ IsFiniteSet(All) /\ All # {}
  BY <1>2 DEF All
<1>6. PICK m \in All : \A k \in All : m >= k
  BY <1>5, MaxExists
<1>7. Data!Max(Ids \cup {0}) \in Ids \cup {0} /\ \A k \in Ids \cup {0} : Data!Max(Ids \cup {0}) >= k
  BY <1>6 DEF Data!Max, All
<1>8. Data!FreshId \in Nat /\ \A p \in Seen : p.id < Data!FreshId
  BY <1>2, <1>3, <1>4, <1>7
<1> QED
  BY <1>8 DEF Seen

-----------------------------------------------------------------------------
(* BaselineData: inserted rows refer by label                               *)

(* A row of the target for a child row of the folder: its parent carries    *)
(* the label of the source's parent.                                        *)
Refers(c, parents) ==
    \E s \in folder.rows.child :
        /\ s.key = c.key /\ (s.ref = None) = (c.ref = None)
        /\ s.ref # None =>
               \E p \in parents : p.id = c.ref /\ p.label = Data!LabelOf(folder.rows.parent, s.ref)

Entries == {[table |-> "child", row |-> r] : r \in folder.rows.child}
           \cup {[table |-> "parent", row |-> r] : r \in folder.rows.parent}

\* The target as the session sees it.
InSession == [t \in Data!Table |-> Data!Seen(t)]

FolderInv ==
    folder # None =>
        /\ build.pc = "done"
        /\ \E s \in Sources : folder.rows.child = s.child /\ folder.rows.parent = s.parent
        /\ folder.labels = Data!Labels(folder.rows)

InsertInv ==
    run.pc = "insert" /\ run.quiet =>
        /\ run.before = tgt /\ Data!IsSchema(tgt) /\ Data!IsSchema(InSession)
        /\ \A l \in folder.labels : Data!WithLabel(tgt.parent, l) # {}
        /\ run.todo \in Seq(Entries)
        /\ \A c \in Data!Seen("child") \ tgt.child : Refers(c, Data!Seen("parent"))

CheckInv ==
    run.pc \in {"check", "verified"} /\ run.quiet =>
        /\ Data!IsSchema(tgt)
        /\ \A t \in Data!Table : run.before[t] \subseteq tgt[t]
        /\ \A c \in tgt.child \ run.before.child : Refers(c, tgt.parent)

RowsInv ==
    /\ run = [pc |-> run.pc, before |-> run.before, todo |-> run.todo, new |-> run.new, quiet |-> run.quiet]
    /\ run.quiet \in BOOLEAN
    /\ run.pc = "idle" => run.new = {} /\ Data!IsSchema(tgt)
    /\ run.pc \in {"insert", "check", "verified"} => folder # None
    /\ FolderInv /\ InsertInv /\ CheckInv

LEMMA RowsInit == ASSUME Data!Init PROVE RowsInv
  BY RowsAssumption DEF Data!Init, Data!ConstantsFit, RowsInv, FolderInv, InsertInv, CheckInv

(* A step that leaves the folder, the run and the target as they are. *)
LEMMA RowsKept ==
    ASSUME RowsInv, UNCHANGED <<tgt, folder, run>>, folder # None => build' = build
    PROVE  RowsInv'
<1>1. Data!IsSchema(tgt)' = Data!IsSchema(tgt) /\ Data!IsSchema(InSession)' = Data!IsSchema(InSession)
  BY DEF Data!IsSchema, InSession, Data!Seen
<1>2. \A t : Data!Seen(t)' = Data!Seen(t)
  BY DEF Data!Seen
<1>3. FolderInv'
  BY DEF RowsInv, FolderInv, Data!Labels, Data!LabelOf
<1>4. InsertInv' /\ CheckInv'
  BY <1>1, <1>2 DEF RowsInv, InsertInv, CheckInv, Entries, Refers, Data!LabelOf, Data!WithLabel
<1> QED
  BY <1>1, <1>3, <1>4 DEF RowsInv

LEMMA MakeFolderRows == ASSUME DataInv, RowsInv, Data!MakeFolder PROVE RowsInv'
<1>1. build.pc = "bundle" /\ build'.pc = "done" /\ UNCHANGED <<tgt, run>>
  BY DEF Data!MakeFolder, Data!target, DataInv, DataTypes
<1>2. folder = None
  BY <1>1 DEF RowsInv, FolderInv
<1>3. folder'.rows = build.data /\ folder'.labels = Data!Labels(build.data)
  BY DEF Data!MakeFolder
<1>4. \E s \in Sources : build.data.child = s.child /\ build.data.parent = s.parent
  <2>1. PICK n \in 1 .. Len(order) :
            LET cap == exporter[order[n]].cap IN
            cap # None /\ \A t \in Data!Table : build.data[t] = cap[t]
    BY <1>1, OneExport DEF Data!TakesOneExport
  <2>2. exporter[order[n]].cap \in Sources
    BY <2>1 DEF DataInv, DataTypes
  <2> QED
    BY <2>1, <2>2 DEF Data!Table
<1>5. FolderInv'
  BY <1>1, <1>3, <1>4 DEF FolderInv, Data!Labels, Data!LabelOf
<1>6. run.pc \notin {"insert", "check", "verified"}
  BY <1>2 DEF RowsInv
<1>7. run.pc = "idle" => Data!IsSchema(tgt)'
  BY <1>1 DEF RowsInv, Data!IsSchema
<1> QED
  BY <1>1, <1>5, <1>6, <1>7 DEF RowsInv, InsertInv, CheckInv

(* Finiteness and size mean the same in the instance. *)
LEMMA FiniteThere == \A S : Data!IsFiniteSet(S) = IsFiniteSet(S) /\ Data!Cardinality(S) = Cardinality(S)
<1>1. \A S : Data!IsFiniteSet(S) = IsFiniteSet(S)
  BY Zenon DEF Data!IsFiniteSet, IsFiniteSet
<1>2. \A S : Data!Cardinality(S) = Cardinality(S)
  BY Zenon DEF Data!Cardinality, Cardinality
<1> QED
  BY <1>1, <1>2

LEMMA SetAsSeq == ASSUME NEW S, IsFiniteSet(S) PROVE Data!SetToSeq(S) \in Seq(S)
<1>1. Cardinality(S) \in Nat /\ ExistsBijection(1 .. Cardinality(S), S)
  BY FS_CardinalityType
<1>2. PICK f \in Injection(1 .. Cardinality(S), S) : TRUE
  BY <1>1 DEF ExistsBijection, Bijection
<1>3. f \in [1 .. Cardinality(S) -> S] /\ \A a, b \in DOMAIN f : f[a] = f[b] => a = b
  BY DEF Injection, IsInjective
<1>4. Data!IsInjective(f)
  BY <1>3 DEF Data!IsInjective
<1>5. Data!SetToSeq(S) \in [1 .. Cardinality(S) -> S]
  BY <1>3, <1>4, FiniteThere DEF Data!SetToSeq
<1> QED
  BY <1>1, <1>5

LEMMA EntriesFinite ==
    ASSUME NEW t, NEW R, IsFiniteSet(R)
    PROVE  IsFiniteSet({[table |-> t, row |-> r] : r \in R})
<1> DEFINE f == [r \in R |-> [table |-> t, row |-> r]]
<1>1. f \in Surjection(R, {[table |-> t, row |-> r] : r \in R})
  BY DEF Surjection
<1> QED
  BY <1>1, FS_Surjection

LEMMA StartRows == ASSUME RowsInv, Data!Start PROVE RowsInv'
<1>1. /\ run.pc = "idle" /\ folder # None
      /\ UNCHANGED <<tgt, folder, build>>
  BY DEF Data!Start, Data!target
<1>2. FolderInv'
  BY <1>1 DEF RowsInv, FolderInv, Data!Labels, Data!LabelOf
<1>3. CASE ~Data!Preconditions
  BY <1>1, <1>2, <1>3 DEF RowsInv, InsertInv, CheckInv, Data!Start
<1>4. CASE Data!Preconditions
  <2>1. run' = [run EXCEPT !.pc = "insert", !.before = tgt, !.todo = Data!Inserts(folder.rows)]
    BY <1>4 DEF Data!Start
  <2>2. /\ run'.pc = "insert" /\ run'.before = tgt /\ run'.todo = Data!Inserts(folder.rows)
        /\ run'.new = {} /\ run'.quiet = run.quiet
        /\ run' = [pc |-> run'.pc, before |-> run'.before, todo |-> run'.todo, new |-> run'.new,
                   quiet |-> run'.quiet]
    BY <1>1, <2>1 DEF RowsInv
  <2>3. Data!IsSchema(tgt) /\ Data!IsSchema(tgt)'
    BY <1>1 DEF RowsInv, Data!IsSchema
  <2>4. \A t \in Data!Table : Data!Seen(t)' = tgt[t]
    BY <1>1, <2>2 DEF Data!Seen
  <2>5. Data!IsSchema(InSession)'
    BY <2>3, <2>4 DEF InSession, Data!IsSchema, Data!Table
  <2>6. ASSUME NEW l \in folder.labels PROVE Data!WithLabel(tgt.parent, l) # {}
    <3>1. Cardinality(Data!WithLabel(tgt.parent, l)) = 1
      <4>1. \A k \in folder.labels : Cardinality(Data!WithLabel(tgt.parent, k)) = 1
        BY <1>4, FiniteThere DEF Data!Preconditions
      <4> QED
        BY <4>1
    <3>2. Cardinality({}) = 0
      BY FS_EmptySet
    <3> QED
      BY <3>1, <3>2
  <2>7. run'.todo \in Seq(Entries)
    <3> DEFINE A == {[table |-> "child", row |-> r] : r \in folder.rows.child}
               B == {[table |-> "parent", row |-> r] : r \in folder.rows.parent}
    <3>1. IsFiniteSet(folder.rows.child) /\ IsFiniteSet(folder.rows.parent)
      <4>1. PICK s \in Sources : folder.rows.child = s.child /\ folder.rows.parent = s.parent
        BY <1>1 DEF RowsInv, FolderInv
      <4>2. Data!IsSchema(s)
        BY RowsAssumption DEF Data!ConstantsFit
      <4>3. \A t \in Data!Table : IsFiniteSet(s[t])
        BY <4>2, FiniteThere DEF Data!IsSchema
      <4> QED
        BY <4>1, <4>3 DEF Data!Table
    <3>2. IsFiniteSet(A) /\ IsFiniteSet(B)
      BY <3>1, EntriesFinite
    <3>3. Data!SetToSeq(A) \in Seq(A) /\ Data!SetToSeq(B) \in Seq(B)
      BY <3>2, SetAsSeq
    <3>4. run'.todo = Data!SetToSeq(A) \o Data!SetToSeq(B) /\ Entries = A \cup B
      BY <2>2 DEF Data!Inserts, Entries
    <3> HIDE DEF A, B
    <3> QED
      BY <3>3, <3>4
  <2>8. Entries' = Entries
    BY <1>1 DEF Entries
  <2>9. InsertInv'
    BY <1>1, <2>2, <2>3, <2>4, <2>5, <2>6, <2>7, <2>8 DEF InsertInv, Data!Table, Data!WithLabel
  <2> QED
    BY <1>1, <1>2, <2>2, <2>9 DEF RowsInv, CheckInv
<1> QED
  BY <1>3, <1>4

LEMMA VerifyRows == ASSUME RowsInv, Data!Verify PROVE RowsInv'
<1>1. /\ run.pc = "check" /\ run'.pc \in {"verified", "failed"}
      /\ run' = [run EXCEPT !.pc = run'.pc]
      /\ UNCHANGED <<tgt, folder, build>>
  BY DEF Data!Verify, Data!target, RowsInv
<1>2. /\ run' = [pc |-> run'.pc, before |-> run'.before, todo |-> run'.todo, new |-> run'.new,
                 quiet |-> run'.quiet]
      /\ run'.before = run.before /\ run'.quiet = run.quiet
  BY <1>1 DEF RowsInv
<1>3. FolderInv'
  BY <1>1 DEF RowsInv, FolderInv, Data!Labels, Data!LabelOf
<1>4. CheckInv'
  BY <1>1, <1>2 DEF RowsInv, CheckInv, Data!IsSchema, Refers, Data!LabelOf
<1> QED
  BY <1>1, <1>2, <1>3, <1>4 DEF RowsInv, InsertInv

LEMMA ApplyFailsRows == ASSUME RowsInv, Data!ApplyFails PROVE RowsInv'
<1>1. /\ run' = [run EXCEPT !.pc = "failed", !.new = {}]
      /\ UNCHANGED <<tgt, folder, build>>
  BY DEF Data!ApplyFails, Data!target
<1>2. FolderInv'
  BY <1>1 DEF RowsInv, FolderInv, Data!Labels, Data!LabelOf
<1> QED
  BY <1>1, <1>2 DEF RowsInv, InsertInv, CheckInv

LEMMA CommitRows == ASSUME RowsInv, Data!Commit PROVE RowsInv'
<1>1. /\ run.pc = "insert" /\ tgt' = InSession
      /\ run' = [run EXCEPT !.pc = "check"]
      /\ UNCHANGED <<folder, build>>
  BY DEF Data!Commit, InSession
<1>2. /\ run' = [pc |-> run'.pc, before |-> run'.before, todo |-> run'.todo, new |-> run'.new,
                 quiet |-> run'.quiet]
      /\ run'.pc = "check" /\ run'.before = run.before /\ run'.quiet = run.quiet
  BY <1>1 DEF RowsInv
<1>3. FolderInv'
  BY <1>1 DEF RowsInv, FolderInv, Data!Labels, Data!LabelOf
<1>4. /\ tgt'["child"] = Data!Seen("child") /\ tgt'["parent"] = Data!Seen("parent")
      /\ \A t \in Data!Table : tgt[t] \subseteq tgt'[t]
  BY <1>1 DEF InSession, Data!Table, Data!Seen
<1>5. ASSUME run.quiet PROVE Data!IsSchema(tgt)'
  <2>1. Data!IsSchema(InSession)
    BY <1>1, <1>5 DEF RowsInv, InsertInv
  <2> QED
    BY <1>1, <2>1 DEF Data!IsSchema
<1>6. CheckInv'
  BY <1>1, <1>2, <1>4, <1>5 DEF RowsInv, InsertInv, CheckInv, Refers, Data!LabelOf
<1> QED
  BY <1>1, <1>2, <1>3, <1>6 DEF RowsInv, InsertInv

LEMMA SeenGrows ==
    ASSUME NEW t, NEW row, tgt' = tgt, run'.new = run.new \cup {[table |-> t, row |-> row]}
    PROVE  \A u : Data!Seen(u)' = IF u = t THEN Data!Seen(u) \cup {row} ELSE Data!Seen(u)
<1> DEFINE n == [table |-> t, row |-> row]
<1>1. \A u : {x \in run'.new : x.table = u}
               = {x \in run.new : x.table = u} \cup IF u = t THEN {n} ELSE {}
  OBVIOUS
<1>2. n.row = row
  OBVIOUS
<1> HIDE DEF n
<1> QED
  BY <1>1, <1>2 DEF Data!Seen

\* A new parent has an id of its own.
LEMMA ParentFits ==
    ASSUME Data!IsSchema(InSession), NEW r, Data!IsParent(r),
           \A u \in Data!Table :
               Data!Seen(u)' = IF u = "parent" THEN Data!Seen(u) \cup {[r EXCEPT !.id = Data!FreshId]}
                               ELSE Data!Seen(u)
    PROVE  Data!IsSchema(InSession)'
<1> DEFINE row == [r EXCEPT !.id = Data!FreshId]
           P == Data!Seen("parent")
           C == Data!Seen("child")
<1>1. /\ IsFiniteSet(P) /\ IsFiniteSet(C)
      /\ \A p \in P : Data!IsParent(p)
      /\ \A c \in C : Data!IsChild(c)
      /\ \A p, q \in P : p.id = q.id => p = q
  BY FiniteThere DEF Data!IsSchema, InSession, Data!Table
<1>2. Data!FreshId \in Nat /\ \A p \in P : p.id < Data!FreshId
  BY <1>1, FreshIdIsFresh DEF Data!IsParent
<1>3. Data!IsParent(row) /\ row.id = Data!FreshId
  BY <1>2 DEF Data!IsParent
<1> HIDE DEF row, P, C
<1>4. IsFiniteSet(P \cup {row})
  BY <1>1, FS_AddElement
<1>5. \A p, q \in P \cup {row} : p.id = q.id => p = q
  BY <1>1, <1>2, <1>3
<1>6. Data!Seen("parent")' = P \cup {row} /\ Data!Seen("child")' = C
  BY DEF P, C, row, Data!Table
<1>7. /\ DOMAIN InSession' = Data!Table
      /\ InSession'["parent"] = P \cup {row} /\ InSession'["child"] = C
  BY <1>6 DEF InSession, Data!Table
<1> QED
  BY <1>1, <1>3, <1>4, <1>5, <1>7, FiniteThere DEF Data!IsSchema, Data!Table

LEMMA ChildFits ==
    ASSUME Data!IsSchema(InSession), NEW row, Data!IsChild(row),
           \A u \in Data!Table :
               Data!Seen(u)' = IF u = "child" THEN Data!Seen(u) \cup {row} ELSE Data!Seen(u)
    PROVE  Data!IsSchema(InSession)'
<1> DEFINE P == Data!Seen("parent")
           C == Data!Seen("child")
<1>1. /\ IsFiniteSet(P) /\ IsFiniteSet(C)
      /\ \A p \in P : Data!IsParent(p)
      /\ \A c \in C : Data!IsChild(c)
      /\ \A p, q \in P : p.id = q.id => p = q
  BY FiniteThere DEF Data!IsSchema, InSession, Data!Table
<1>2. Data!Seen("parent")' = P /\ Data!Seen("child")' = C \cup {row}
  BY DEF Data!Table
<1> HIDE DEF P, C
<1>3. IsFiniteSet(C \cup {row})
  BY <1>1, FS_AddElement
<1>4. /\ DOMAIN InSession' = Data!Table
      /\ InSession'["parent"] = P /\ InSession'["child"] = C \cup {row}
  BY <1>2 DEF InSession, Data!Table
<1> QED
  BY <1>1, <1>3, <1>4, FiniteThere DEF Data!IsSchema, Data!Table

LEMMA ChildRefers ==
    ASSUME RowsInv, run.pc = "insert", run.quiet, NEW r \in folder.rows.child,
           Data!IsChild(r)
    PROVE  /\ Data!IsChild(Data!NewRow("child", r))
           /\ Refers(Data!NewRow("child", r), Data!Seen("parent"))
<1> DEFINE i == IF Data!Referred(r) = {} THEN None ELSE CHOOSE i \in Data!Referred(r) : TRUE
           l == Data!LabelOf(folder.rows.parent, r.ref)
           row == [r EXCEPT !.ref = i]
<1>1. Data!NewRow("child", r) = row
  BY DEF Data!NewRow
<1>2. /\ Data!IsSchema(InSession)
      /\ \A k \in folder.labels : Data!WithLabel(tgt.parent, k) # {}
      /\ folder.labels = Data!Labels(folder.rows)
  BY DEF RowsInv, InsertInv, FolderInv
<1>3. \A p \in Data!Seen("parent") : Data!IsParent(p)
  BY <1>2 DEF Data!IsSchema, InSession, Data!Table
<1>4. None \notin Nat
  BY RowsAssumption DEF Data!ConstantsFit
<1>5. \A j \in Nat \cup {None} :
          /\ Data!IsChild([r EXCEPT !.ref = j])
          /\ [r EXCEPT !.ref = j].key = r.key /\ [r EXCEPT !.ref = j].ref = j
  BY DEF Data!IsChild
<1>6. CASE r.ref = None
  <2>1. i = None
    BY <1>6 DEF Data!Referred
  <2>2. Data!IsChild(row) /\ row.key = r.key /\ row.ref = None
    BY <1>5, <2>1
  <2> QED
    BY <1>1, <1>6, <2>2 DEF Refers
<1>7. CASE r.ref # None
  <2>1. l \in folder.labels
    BY <1>2, <1>7 DEF Data!Labels
  <2>2. Data!WithLabel(tgt.parent, l) # {}
    BY <1>2, <2>1
  <2>3. Data!Referred(r) = {p.id : p \in Data!WithLabel(Data!Seen("parent"), l)}
    BY <1>7 DEF Data!Referred
  <2>4. Data!WithLabel(tgt.parent, l) \subseteq Data!WithLabel(Data!Seen("parent"), l)
    BY DEF Data!WithLabel, Data!Seen
  <2>5. Data!Referred(r) # {}
    BY <2>2, <2>3, <2>4
  <2>6. i \in Data!Referred(r)
    BY <2>5
  <2>7. PICK p \in Data!Seen("parent") : p.label = l /\ i = p.id
    BY <2>3, <2>6 DEF Data!WithLabel
  <2>8. i \in Nat
    BY <1>3, <2>7 DEF Data!IsParent
  <2>9. Data!IsChild(row) /\ row.key = r.key /\ row.ref = i
    BY <1>5, <2>8
  <2> QED
    BY <1>1, <1>4, <1>7, <2>7, <2>8, <2>9 DEF Refers
<1> QED
  BY <1>6, <1>7

LEMMA InsertRows == ASSUME RowsInv, Data!Insert PROVE RowsInv'
<1> DEFINE t == Head(run.todo).table
           r == Head(run.todo).row
           Fits(row) == run'.new = run.new \cup {[table |-> t, row |-> row]}
<1>1. /\ run.pc = "insert" /\ run.todo # <<>>
      /\ UNCHANGED <<tgt, folder, build>>
      /\ run' = [run EXCEPT !.todo = Tail(@), !.new = run'.new]
      /\ run'.new = run.new \/ Fits(Data!NewRow(t, r))
  BY DEF Data!Insert, Data!target, RowsInv
<1>2. /\ run' = [pc |-> run'.pc, before |-> run'.before, todo |-> run'.todo, new |-> run'.new,
                 quiet |-> run'.quiet]
      /\ run'.pc = "insert" /\ run'.before = run.before /\ run'.quiet = run.quiet
      /\ run'.todo = Tail(run.todo)
  BY <1>1 DEF RowsInv
<1>3. FolderInv'
  BY <1>1 DEF RowsInv, FolderInv, Data!Labels, Data!LabelOf
<1>4. SUFFICES ASSUME run.quiet PROVE InsertInv'
  <2> SUFFICES InsertInv'
    BY <1>1, <1>2, <1>3 DEF RowsInv, CheckInv
  <2> QED
    BY <1>2, <1>4 DEF InsertInv
<1>5. /\ run.before = tgt /\ Data!IsSchema(tgt) /\ Data!IsSchema(InSession)
      /\ \A l \in folder.labels : Data!WithLabel(tgt.parent, l) # {}
      /\ run.todo \in Seq(Entries)
      /\ \A c \in Data!Seen("child") \ tgt.child : Refers(c, Data!Seen("parent"))
  BY <1>1, <1>4 DEF RowsInv, InsertInv
<1>6. run'.todo \in Seq(Entries) /\ Head(run.todo) \in Entries /\ Entries' = Entries
  BY <1>1, <1>2, <1>5 DEF Entries
<1>7. \/ t = "child" /\ r \in folder.rows.child
      \/ t = "parent" /\ r \in folder.rows.parent
  BY <1>6 DEF Entries
<1>8. /\ r \in folder.rows.parent => Data!IsParent(r)
      /\ r \in folder.rows.child => Data!IsChild(r)
  <2>1. PICK s \in Sources : folder.rows.child = s.child /\ folder.rows.parent = s.parent
    BY <1>1 DEF RowsInv, FolderInv
  <2>2. Data!IsSchema(s)
    BY RowsAssumption DEF Data!ConstantsFit
  <2>3. /\ \A p \in s.parent : Data!IsParent(p)
        /\ \A c \in s.child : Data!IsChild(c)
    BY <2>2 DEF Data!IsSchema
  <2> QED
    BY <2>1, <2>3
<1>9. Data!IsSchema(tgt)' /\ \A l \in folder'.labels : Data!WithLabel(tgt'.parent, l) # {}
  BY <1>1, <1>5 DEF Data!IsSchema, Data!WithLabel
<1> HIDE DEF t, r
<1>10. ASSUME \A u \in Data!Table : Data!Seen(u) \subseteq Data!Seen(u)',
              Data!IsSchema(InSession)',
              \A c \in Data!Seen("child")' \ Data!Seen("child") : Refers(c, Data!Seen("parent"))
       PROVE  InsertInv'
  <2>1. \A c : Refers(c, Data!Seen("parent")) => Refers(c, Data!Seen("parent"))'
    BY <1>1, <1>10 DEF Refers, Data!LabelOf, Data!Table
  <2>2. \A c \in Data!Seen("child")' \ tgt'.child : Refers(c, Data!Seen("parent"))'
    BY <1>1, <1>5, <1>10, <2>1
  <2> QED
    BY <1>1, <1>2, <1>5, <1>6, <1>9, <1>10, <2>2 DEF InsertInv
<1>11. CASE run'.new = run.new
  <2>1. \A u : Data!Seen(u)' = Data!Seen(u)
    BY <1>1, <1>11 DEF Data!Seen
  <2>2. Data!IsSchema(InSession)'
    BY <1>5, <2>1 DEF InSession, Data!IsSchema
  <2> QED
    BY <1>10, <2>1, <2>2
<1>12. CASE t = "parent" /\ Fits(Data!NewRow(t, r))
  <2>1. Data!NewRow(t, r) = [r EXCEPT !.id = Data!FreshId]
    BY <1>12 DEF Data!NewRow
  <2>2. \A u : Data!Seen(u)' = IF u = "parent" THEN Data!Seen(u) \cup {[r EXCEPT !.id = Data!FreshId]}
                               ELSE Data!Seen(u)
    BY <1>1, <1>12, <2>1, SeenGrows
  <2>3. Data!IsParent(r)
    BY <1>7, <1>8, <1>12
  <2>4. Data!IsSchema(InSession)'
    BY <1>5, <2>2, <2>3, ParentFits
  <2> QED
    BY <1>10, <2>2, <2>4
<1>13. CASE t = "child" /\ Fits(Data!NewRow(t, r))
  <2> DEFINE row == Data!NewRow("child", r)
  <2>1. Data!IsChild(row) /\ Refers(row, Data!Seen("parent"))
    BY <1>1, <1>4, <1>7, <1>8, <1>13, ChildRefers
  <2> HIDE DEF row
  <2>2. \A u : Data!Seen(u)' = IF u = "child" THEN Data!Seen(u) \cup {row} ELSE Data!Seen(u)
    BY <1>1, <1>13, SeenGrows DEF row
  <2>3. Data!IsSchema(InSession)'
    BY <1>5, <2>1, <2>2, ChildFits
  <2> QED
    BY <1>10, <2>1, <2>2, <2>3
<1> QED
  BY <1>1, <1>7, <1>11, <1>12, <1>13

(* Others exchange labels, which keeps the ids, or remove a child.  After   *)
(* the start of the run nothing more is claimed.                            *)
LEMMA TargetRows == ASSUME RowsInv, Data!TargetChanges PROVE RowsInv'
<1>1. run' = [run EXCEPT !.quiet = run.quiet /\ run.pc = "idle"] /\ UNCHANGED <<folder, build>>
  BY DEF Data!TargetChanges
<1>2. /\ run' = [pc |-> run'.pc, before |-> run'.before, todo |-> run'.todo, new |-> run'.new,
                 quiet |-> run'.quiet]
      /\ run'.pc = run.pc /\ run'.new = run.new /\ run'.quiet \in BOOLEAN
      /\ run'.quiet => run.pc = "idle"
  BY <1>1 DEF RowsInv
<1>3. FolderInv'
  BY <1>1 DEF RowsInv, FolderInv, Data!Labels, Data!LabelOf
<1>4. ASSUME run.pc = "idle" PROVE Data!IsSchema(tgt)'
  <2> DEFINE P == tgt.parent
             C == tgt.child
  <2>1. /\ DOMAIN tgt = {"child", "parent"}
        /\ IsFiniteSet(P) /\ IsFiniteSet(C)
        /\ \A p \in P : Data!IsParent(p)
        /\ \A c \in C : Data!IsChild(c)
        /\ \A p, q \in P : p.id = q.id => p = q
    BY <1>4, FiniteThere DEF RowsInv, Data!IsSchema, Data!Table
  <2>2. CASE \E c \in C : tgt' = [tgt EXCEPT !.child = @ \ {c}]
    <3>1. PICK c \in C : tgt' = [tgt EXCEPT !.child = C \ {c}]
      BY <2>2
    <3>2. /\ DOMAIN tgt' = {"child", "parent"}
          /\ tgt'["parent"] = P /\ tgt'["child"] = C \ {c}
      BY <2>1, <3>1
    <3>3. IsFiniteSet(C \ {c})
      BY <2>1, FS_RemoveElement
    <3> HIDE DEF P, C
    <3> QED
      BY <2>1, <3>2, <3>3, FiniteThere DEF Data!IsSchema, Data!Table
  <2>3. CASE \E p \in P : \E l \in {q.label : q \in P} \cup {"new"} :
                 tgt' = [tgt EXCEPT !.parent =
                           {[q EXCEPT !.label = IF q = p THEN l ELSE IF q.label = l THEN p.label ELSE @] : q \in @}]
    <3>1. PICK p \in P, l \in {q.label : q \in P} \cup {"new"} :
              tgt' = [tgt EXCEPT !.parent =
                        {[q EXCEPT !.label = IF q = p THEN l ELSE IF q.label = l THEN p.label ELSE @] : q \in P}]
      BY <2>3
    <3> DEFINE f == [q \in P |-> [q EXCEPT !.label = IF q = p THEN l ELSE IF q.label = l THEN p.label ELSE @]]
               Q == {f[q] : q \in P}
    <3>2. \A q \in P : Data!IsParent(f[q]) /\ f[q].id = q.id
      BY <2>1 DEF Data!IsParent
    <3>3. /\ DOMAIN tgt' = {"child", "parent"}
          /\ tgt'["parent"] = Q /\ tgt'["child"] = C
      BY <2>1, <3>1
    <3> HIDE DEF f, P, C
    <3>4. /\ \A q \in Q : Data!IsParent(q)
          /\ \A a, b \in Q : a.id = b.id => a = b
      BY <2>1, <3>2
    <3>5. IsFiniteSet(Q)
      <4>1. f \in Surjection(P, Q)
        BY DEF Surjection, f
      <4> QED
        BY <2>1, <4>1, FS_Surjection
    <3> HIDE DEF Q
    <3> QED
      BY <2>1, <3>3, <3>4, <3>5, FiniteThere DEF Data!IsSchema, Data!Table
  <2> QED
    BY <2>2, <2>3 DEF Data!TargetChanges
<1> QED
  BY <1>1, <1>2, <1>3, <1>4 DEF RowsInv, InsertInv, CheckInv

LEMMA RowsStep == DataInv /\ RowsInv /\ [Data!Next]_(Data!vars) => RowsInv'
<1> SUFFICES ASSUME DataInv, RowsInv, [Data!Next]_(Data!vars) PROVE RowsInv'
  OBVIOUS
<1>1. CASE Data!ApplyStep
  BY <1>1, StartRows, InsertRows, ApplyFailsRows, CommitRows, VerifyRows DEF Data!ApplyStep
<1>2. CASE Data!TargetChanges
  BY <1>2, TargetRows
<1>3. CASE Data!MakeFolder
  BY <1>3, MakeFolderRows
<1>4. CASE Data!BuildStep /\ ~Data!MakeFolder
  <2>1. UNCHANGED <<tgt, folder, run>> /\ build.pc # "done"
    BY <1>4 DEF Data!BuildStep, Data!StartReading, Data!ReadManifest, Data!ReadTable, Data!Accept,
                Data!BuildRefuses, Data!target, Data!Table
  <2> QED
    BY <2>1, RowsKept DEF RowsInv, FolderInv
<1>5. CASE (\E e \in Exporter : Data!ExporterStep(e)) \/ Data!RemoveLeftovers \/ Data!SourceChanges
  <2>1. UNCHANGED <<tgt, folder, run, build>>
    BY <1>5 DEF Data!ExporterStep, Data!Lock, Data!Mark, Data!Invalidate, Data!Capture,
                Data!WriteTemporary, Data!ReplaceFile, Data!ClearMarker, Data!Unlock,
                Data!ExportFails, Data!Killed, Data!RemoveLeftovers, Data!SourceChanges, Data!target
  <2> QED
    BY <2>1, RowsKept
<1>6. CASE UNCHANGED Data!vars
  BY <1>6, RowsKept DEF Data!vars, Data!target
<1> QED
  BY <1>1, <1>2, <1>3, <1>4, <1>5, <1>6 DEF Data!Next

LEMMA RowsEnough == ASSUME RowsInv PROVE Data!RefersByLabel
<1> SUFFICES ASSUME run.pc = "verified", run.quiet
             PROVE  /\ \A t \in Data!Table : run.before[t] \subseteq tgt[t]
                    /\ \A c \in tgt.child \ run.before.child :
                           \E s \in folder.rows.child :
                               /\ s.key = c.key /\ (s.ref = None) = (c.ref = None)
                               /\ s.ref # None => Data!LabelOf(tgt.parent, c.ref)
                                                  = Data!LabelOf(folder.rows.parent, s.ref)
  BY DEF Data!RefersByLabel
<1>1. /\ Data!IsSchema(tgt) /\ \A t \in Data!Table : run.before[t] \subseteq tgt[t]
      /\ \A c \in tgt.child \ run.before.child : Refers(c, tgt.parent)
  BY DEF RowsInv, CheckInv
<1>2. \A p, q \in tgt.parent : p.id = q.id => p = q
  BY <1>1 DEF Data!IsSchema
<1>3. \A p \in tgt.parent : Data!LabelOf(tgt.parent, p.id) = p.label
  BY <1>2 DEF Data!LabelOf
<1> QED
  BY <1>1, <1>3 DEF Refers

-----------------------------------------------------------------------------
(* LegacyRollout: what rollouts of one manifest record is true, though no   *)
(* lock keeps them apart, only the receipts that none of them replaces.     *)

Over == {"idle", "failed", "declined"}
Place == {"confirm", "resume", "before", "execute", "wait", "after", "receipt"}
Command == [pc : Over \cup Place \cup {"succeeded"}, from : Nat, at : Nat,
            plan : [Legacy!Step -> Nat \ {0}], seen : Nat, owns : SUBSET Legacy!Step]
Proof == [src : Nat, db : Nat]

LegacyTypes ==
    /\ Steps \in Nat
    /\ kind \in [Legacy!Step -> Legacy!Kind] /\ src \in [Legacy!Step -> Nat \ {0}] /\ db \in Legacy!Database
    /\ applied \in [Legacy!Step -> Proof] /\ receipt \in [Legacy!Step -> Proof]
    /\ run \in [Runs -> Command]
    /\ sessions \subseteq [run : Runs, step : Legacy!Step, src : Nat, db : Nat]

(* The step at which a command is has run with the planned input, and the   *)
(* steps of the given kinds in the database that the command saw.           *)
StepRan(r, kinds) ==
    \E e \in ran : /\ e.step = run[r].at /\ e.src = run[r].plan[run[r].at]
                   /\ kind[run[r].at] \in kinds => e.db = run[r].seen

(* What a command knows of the steps behind it and of the one it is at. *)
RunInv(r) ==
    /\ run[r].pc \in Place => run[r].at \in Legacy!Step
    /\ run[r].pc = "succeeded" => run[r].at = Steps + 1
    /\ run[r].pc \notin Over => \A k \in 1..run[r].at - 1 : Legacy!Ran(k, run[r].plan[k])
    /\ run[r].pc = "after" => StepRan(r, {"sql-script"})
    /\ run[r].pc = "receipt" => StepRan(r, {"sql-script", "migrate"})

(* A payload belongs to the step its command waits for; a command that no   *)
(* longer waits for it has failed.                                          *)
SessionInv ==
    /\ \A s \in sessions :
        /\ run[s.run].pc \in {"wait", "failed"}
        /\ run[s.run].pc = "wait" =>
              /\ s.step = run[s.run].at /\ s.src = run[s.run].plan[s.step]
              /\ kind[s.step] = "sql-script" => s.db = run[s.run].seen
    /\ \A s, t \in sessions : s.run = t.run => s = t

(* A migration receipt follows the migration. *)
AppliedInv ==
    \A k \in Legacy!Step : applied[k] # Legacy!NoReceipt =>
        \E e \in ran : e.step = k /\ e.src = applied[k].src /\ e.db = applied[k].db

OwnedInv ==
    /\ \A r \in Runs : \A k \in run[r].owns : receipt[k] # Legacy!NoReceipt
    /\ Legacy!OneOwner

LegacyInv ==
    /\ LegacyTypes /\ SessionInv /\ AppliedInv /\ OwnedInv /\ Legacy!ReceiptIsTrue
    /\ \A r \in Runs : RunInv(r)

LEMMA LegacyEnough == ASSUME LegacyInv PROVE Legacy!ProgressIsTrue
<1>1. Legacy!PredecessorsRan
  <2> SUFFICES ASSUME NEW r \in Runs
               PROVE  /\ run[r].pc \in {"execute", "wait", "after", "receipt"} =>
                            \A k \in 1..run[r].at - 1 : Legacy!Ran(k, run[r].plan[k])
                      /\ run[r].pc = "succeeded" => \A k \in Legacy!Step : Legacy!Ran(k, run[r].plan[k])
    BY DEF Legacy!PredecessorsRan
  <2>1. run[r].pc \notin Over => \A k \in 1..run[r].at - 1 : Legacy!Ran(k, run[r].plan[k])
    BY DEF LegacyInv, RunInv
  <2>2. run[r].pc = "succeeded" => run[r].at - 1 = Steps
    BY DEF LegacyInv, LegacyTypes, RunInv
  <2> QED
    BY <2>1, <2>2 DEF Over, Legacy!Step
<1> QED
  BY <1>1 DEF LegacyInv, OwnedInv, Legacy!ProgressIsTrue

LEMMA LegacyInit == ASSUME Legacy!Init PROVE LegacyInv
<1>1. LegacyTypes
  <2>1. [k \in Legacy!Step |-> Legacy!NoReceipt] \in [Legacy!Step -> Proof] /\ [k \in Legacy!Step |-> 1] \in [Legacy!Step -> Nat \ {0}]
    BY DEF Legacy!NoReceipt, Proof
  <2> QED
    BY <2>1, ManifestAssumption DEF Legacy!Init, LegacyTypes, Command, Over, Place, Legacy!Database
<1>2. SessionInv /\ AppliedInv /\ OwnedInv /\ Legacy!ReceiptIsTrue
  BY DEF Legacy!Init, SessionInv, AppliedInv, OwnedInv, Legacy!OneOwner, Legacy!ReceiptIsTrue
<1>3. \A r \in Runs : RunInv(r)
  BY DEF Legacy!Init, RunInv, Over, Place
<1> QED
  BY <1>1, <1>2, <1>3 DEF LegacyInv

(* What a command knows is not touched by the steps of others: what ran has *)
(* run.                                                                     *)
LEMMA OthersKept ==
    ASSUME NEW q \in Runs, RunInv(q), run'[q] = run[q], kind' = kind, ran \subseteq ran'
    PROVE  RunInv(q)'
  BY DEF RunInv, StepRan, Legacy!Ran

LEMMA FactsKept ==
    ASSUME AppliedInv, Legacy!ReceiptIsTrue, ran \subseteq ran', kind' = kind
    PROVE  /\ applied' = applied => AppliedInv'
           /\ receipt' = receipt => Legacy!ReceiptIsTrue'
  BY DEF AppliedInv, Legacy!ReceiptIsTrue

(* A command goes to another place of its course, or fails, and writes      *)
(* nothing.                                                                 *)
LEMMA Moves ==
    ASSUME LegacyInv, NEW r \in Runs, NEW pc \in Over \cup Place, Legacy!Go(r, pc), run[r].pc \notin Over,
           kind' = kind, src' = src, db' = db, sessions' = sessions,
           applied' = applied, receipt' = receipt, ran \subseteq ran',
           pc \in Place => run[r].pc \in Place,
           pc = "after" => StepRan(r, {"sql-script"})',
           pc = "receipt" => StepRan(r, {"sql-script", "migrate"})',
           run[r].pc = "wait" => pc = "failed",
           pc # "wait"
    PROVE  LegacyInv'
<1>1. /\ run \in [Runs -> Command]
      /\ run' = [run EXCEPT ![r].pc = pc]
  BY DEF LegacyInv, LegacyTypes, Legacy!Go
<1>2. run' \in [Runs -> Command] /\ \A q \in Runs \ {r} : run'[q] = run[q]
  BY <1>1 DEF Command
<1>3. /\ run'[r].pc = pc /\ run'[r].at = run[r].at /\ run'[r].plan = run[r].plan
      /\ run'[r].seen = run[r].seen /\ run'[r].owns = run[r].owns
  BY <1>1 DEF Command
<1>4. LegacyTypes'
  BY <1>2 DEF LegacyInv, LegacyTypes
<1>5. SessionInv'
  BY <1>2, <1>3 DEF LegacyInv, LegacyTypes, SessionInv, Over
<1>6. AppliedInv' /\ Legacy!ReceiptIsTrue'
  BY FactsKept DEF LegacyInv
<1>7. OwnedInv'
  <2>1. \A q \in Runs : run'[q].owns = run[q].owns
    BY <1>2, <1>3
  <2> QED
    BY <2>1 DEF LegacyInv, OwnedInv, Legacy!OneOwner
<1>8. ASSUME NEW q \in Runs PROVE RunInv(q)'
  <2>1. CASE q # r
    BY <1>2, <2>1, OthersKept DEF LegacyInv
  <2>2. CASE q = r
    BY <1>3, <2>2 DEF LegacyInv, RunInv, Legacy!Ran, Over, Place
  <2> QED
    BY <2>1, <2>2
<1> QED
  BY <1>4, <1>5, <1>6, <1>7, <1>8 DEF LegacyInv

LEMMA OutsideInv == ASSUME LegacyInv, Legacy!Edit \/ Legacy!Switch PROVE LegacyInv'
<1>1. UNCHANGED <<kind, ran, sessions, attempted, applied, receipt, run>>
  BY DEF Legacy!Edit, Legacy!Switch, Legacy!facts
<1>2. src' \in [Legacy!Step -> Nat \ {0}] /\ db' \in Legacy!Database
  <2>1. CASE Legacy!Edit
    <3>1. PICK k \in Legacy!Step, v \in Legacy!Version : src' = [src EXCEPT ![k] = v] /\ db' = db
      BY <2>1 DEF Legacy!Edit
    <3>2. v \in Nat \ {0}
      BY <3>1 DEF Legacy!Version
    <3> QED
      BY <3>1, <3>2 DEF LegacyInv, LegacyTypes
  <2>2. CASE Legacy!Switch
    BY <2>2 DEF Legacy!Switch, LegacyInv, LegacyTypes
  <2> QED
    BY <2>1, <2>2
<1>3. LegacyTypes' /\ SessionInv' /\ OwnedInv'
  BY <1>1, <1>2 DEF LegacyInv, LegacyTypes, SessionInv, OwnedInv, Legacy!OneOwner
<1>4. AppliedInv' /\ Legacy!ReceiptIsTrue'
  BY <1>1, FactsKept DEF LegacyInv
<1>5. \A q \in Runs : RunInv(q)'
  BY <1>1, OthersKept DEF LegacyInv
<1> QED
  BY <1>3, <1>4, <1>5 DEF LegacyInv

(* A command begins behind steps whose receipts name the current inputs:    *)
(* they ran with them.                                                      *)
LEMMA BeginInv == ASSUME LegacyInv, NEW r \in Runs, Legacy!Begin(r) PROVE LegacyInv'
<1>1. PICK from \in Legacy!Step :
        run' = [run EXCEPT ![r] = [@ EXCEPT
            !.from = from, !.at = from, !.plan = src,
            !.pc = IF /\ \A k \in 1..from - 1 : Legacy!ReceiptMatches(k)
                      /\ \A k \in from..Steps : ~Legacy!Occupied(k)
                     THEN "confirm" ELSE "failed"]]
  BY DEF Legacy!Begin
<1> DEFINE pc == IF /\ \A k \in 1..from - 1 : Legacy!ReceiptMatches(k)
                    /\ \A k \in from..Steps : ~Legacy!Occupied(k)
                   THEN "confirm" ELSE "failed"
<1>2. run[r].pc = "idle" /\ UNCHANGED <<kind, src, db, ran, sessions, applied, receipt>>
  BY DEF Legacy!Begin, Legacy!world, Legacy!facts
<1>3. /\ run' = [run EXCEPT ![r] = [@ EXCEPT !.from = from, !.at = from, !.plan = src, !.pc = pc]]
      /\ pc \in {"confirm", "failed"} /\ from \in Nat
      /\ run \in [Runs -> Command] /\ src \in [Legacy!Step -> Nat \ {0}]
  BY <1>1 DEF LegacyInv, LegacyTypes, Legacy!Step
<1>4. pc = "confirm" => \A k \in 1..from - 1 : Legacy!ReceiptMatches(k)
  OBVIOUS
<1> HIDE DEF pc
<1>5. /\ run'[r].pc = pc /\ run'[r].at = from /\ run'[r].plan = src
      /\ run'[r].owns = run[r].owns /\ run'[r] \in Command
  BY <1>3 DEF Command, Over, Place, Legacy!Step
<1>6. \A q \in Runs \ {r} : run'[q] = run[q]
  BY <1>3
<1>7. LegacyTypes'
  BY <1>2, <1>3, <1>5, <1>6 DEF LegacyInv, LegacyTypes
<1>8. SessionInv'
  BY <1>2, <1>6 DEF LegacyInv, LegacyTypes, SessionInv
<1>9. AppliedInv' /\ Legacy!ReceiptIsTrue'
  BY <1>2, FactsKept DEF LegacyInv
<1>10. OwnedInv'
  <2>1. \A q \in Runs : run'[q].owns = run[q].owns
    BY <1>5, <1>6
  <2> QED
    BY <1>2, <2>1 DEF LegacyInv, OwnedInv, Legacy!OneOwner
<1>11. ASSUME pc = "confirm", NEW k \in 1..from - 1 PROVE Legacy!Ran(k, src[k])
  <2>1. k \in Legacy!Step
    BY <1>3 DEF Legacy!Step, LegacyInv, LegacyTypes
  <2>2. receipt[k] # Legacy!NoReceipt /\ receipt[k].src = src[k]
    BY <1>4, <1>11 DEF Legacy!ReceiptMatches
  <2> QED
    BY <2>1, <2>2 DEF LegacyInv, Legacy!ReceiptIsTrue, Legacy!Ran
<1>12. ASSUME NEW q \in Runs PROVE RunInv(q)'
  <2>1. CASE q # r
    BY <1>2, <1>6, <2>1, OthersKept DEF LegacyInv
  <2>2. CASE q = r
    BY <1>2, <1>3, <1>5, <1>11, <2>2 DEF RunInv, Legacy!Ran, Over, Place
  <2> QED
    BY <2>1, <2>2
<1> QED
  BY <1>7, <1>8, <1>9, <1>10, <1>12 DEF LegacyInv

LEMMA ConfirmInv == ASSUME LegacyInv, NEW r \in Runs, Legacy!Confirm(r) PROVE LegacyInv'
<1>1. run[r].pc = "confirm" /\ UNCHANGED <<kind, src, db, ran, sessions, applied, receipt>>
  BY DEF Legacy!Confirm, Legacy!world, Legacy!facts
<1>2. Legacy!Go(r, "resume") \/ Legacy!Go(r, "declined")
  BY DEF Legacy!Confirm
<1> QED
  BY <1>1, <1>2, Moves DEF Over, Place

LEMMA ResumeInv == ASSUME LegacyInv, NEW r \in Runs, Legacy!Resume(r) PROVE LegacyInv'
<1>1. run[r].pc = "resume" /\ UNCHANGED <<kind, src, db, ran, sessions, applied, receipt>>
  BY DEF Legacy!Resume, Legacy!world, Legacy!facts
<1>2. Legacy!Go(r, "before") \/ Legacy!Go(r, "failed")
  BY DEF Legacy!Resume, Legacy!Fail
<1> QED
  BY <1>1, <1>2, Moves DEF Over, Place

LEMMA StopInv == ASSUME LegacyInv, NEW r \in Runs, Legacy!Stop(r) PROVE LegacyInv'
<1>1. /\ run[r].pc \notin {"idle", "failed", "declined", "succeeded"} /\ Legacy!Go(r, "failed")
      /\ UNCHANGED <<kind, src, db, ran, sessions, applied, receipt>>
  BY DEF Legacy!Stop, Legacy!Fail, Legacy!world, Legacy!facts
<1> QED
  BY <1>1, Moves DEF Over, Place

LEMMA BeforeInv == ASSUME LegacyInv, NEW r \in Runs, Legacy!Before(r) PROVE LegacyInv'
<1>1. run[r].pc = "before" /\ UNCHANGED <<kind, src, db, ran, sessions, applied, receipt>>
  BY DEF Legacy!Before, Legacy!world, Legacy!facts
<1>2. CASE Legacy!Fail(r)
  BY <1>1, <1>2, Moves DEF Legacy!Fail, Over, Place
<1>3. CASE run' = [run EXCEPT ![r].pc = "execute", ![r].seen = db]
  <2>1. /\ run \in [Runs -> Command] /\ db \in Nat
    BY DEF LegacyInv, LegacyTypes, Legacy!Database
  <2>2. /\ run'[r].pc = "execute" /\ run'[r].at = run[r].at /\ run'[r].plan = run[r].plan
        /\ run'[r].owns = run[r].owns /\ run'[r] \in Command
    BY <1>3, <2>1 DEF Command, Place
  <2>3. run' \in [Runs -> Command] /\ \A q \in Runs \ {r} : run'[q] = run[q]
    BY <1>3, <2>1 DEF Command, Place
  <2>4. LegacyTypes'
    BY <1>1, <2>3 DEF LegacyInv, LegacyTypes
  <2>5. SessionInv'
    BY <1>1, <2>3 DEF LegacyInv, LegacyTypes, SessionInv
  <2>6. AppliedInv' /\ Legacy!ReceiptIsTrue'
    BY <1>1, FactsKept DEF LegacyInv
  <2>7. OwnedInv'
    <3>1. \A q \in Runs : run'[q].owns = run[q].owns
      BY <2>2, <2>3
    <3> QED
      BY <1>1, <3>1 DEF LegacyInv, OwnedInv, Legacy!OneOwner
  <2>8. ASSUME NEW q \in Runs PROVE RunInv(q)'
    <3>1. CASE q # r
      BY <1>1, <2>3, <3>1, OthersKept DEF LegacyInv
    <3>2. CASE q = r
      BY <1>1, <2>2, <3>2 DEF LegacyInv, RunInv, Legacy!Ran, Over, Place
    <3> QED
      BY <3>1, <3>2
  <2> QED
    BY <2>4, <2>5, <2>6, <2>7, <2>8 DEF LegacyInv
<1> QED
  BY <1>2, <1>3 DEF Legacy!Before

(* The payload of a step has the planned input, and that of a script runs   *)
(* in the database the command saw.                                         *)
LEMMA ExecuteInv == ASSUME LegacyInv, NEW r \in Runs, Legacy!Execute(r) PROVE LegacyInv'
<1> DEFINE k == run[r].at
           ranNow == [step |-> k, src |-> src[k], db |-> IF Legacy!Bound(k) THEN db ELSE 0]
<1>1. /\ run[r].pc = "execute" /\ k \in Legacy!Step /\ RunInv(r)
      /\ UNCHANGED <<kind, src, db, applied, receipt>>
      /\ run \in [Runs -> Command] /\ src \in [Legacy!Step -> Nat \ {0}] /\ db \in Nat
      /\ run[r].plan \in [Legacy!Step -> Nat \ {0}]
  BY DEF Legacy!Execute, Legacy!world, LegacyInv, RunInv, LegacyTypes, Place, Legacy!Database,
         Command
<1>2. CASE Legacy!Fail(r) /\ UNCHANGED <<ran, sessions, attempted>>
  BY <1>1, <1>2, Moves DEF Legacy!Fail, Over, Place
<1>3. CASE Legacy!MayExecute(r, k) /\ kind[k] \in {"pause", "verify"} /\ sessions' = sessions
           /\ ran' = ran \cup {ranNow} /\ Legacy!Go(r, "after")
  <2>1. /\ run'[r].at = run[r].at /\ run'[r].plan = run[r].plan
    BY <1>1, <1>3 DEF Legacy!Go, Command
  <2>2. ranNow \in ran' /\ ranNow.step = k /\ ranNow.src = src[k] /\ src[k] = run[r].plan[k]
    BY <1>3 DEF Legacy!MayExecute
  <2>3. StepRan(r, {"sql-script"})'
    BY <1>1, <1>3, <2>1, <2>2 DEF StepRan
  <2> QED
    BY <1>1, <1>3, <2>3, Moves DEF Over, Place
<1>4. CASE Legacy!MayExecute(r, k) /\ sessions' = sessions \cup {Legacy!Payload(r, k)} /\ Legacy!Go(r, "wait") /\ ran' = ran
  <2>1. /\ run'[r].pc = "wait" /\ run'[r].at = k /\ run'[r].plan = run[r].plan
        /\ run'[r].owns = run[r].owns /\ run'[r].seen = run[r].seen /\ run'[r] \in Command
    BY <1>1, <1>4 DEF Legacy!Go, Command, Place
  <2>2. run' \in [Runs -> Command] /\ \A q \in Runs \ {r} : run'[q] = run[q]
    BY <1>1, <1>4, <2>1 DEF Legacy!Go
  <2>3. /\ Legacy!Payload(r, k) \in [run : Runs, step : Legacy!Step, src : Nat, db : Nat]
        /\ Legacy!Payload(r, k).run = r /\ Legacy!Payload(r, k).step = k
        /\ Legacy!Payload(r, k).src = run[r].plan[k]
        /\ kind[k] = "sql-script" => Legacy!Payload(r, k).db = run[r].seen
    BY <1>1, <1>4 DEF Legacy!Payload, Legacy!MayExecute
  <2>4. LegacyTypes'
    BY <1>1, <1>4, <2>2, <2>3 DEF LegacyInv, LegacyTypes
  <2>5. \A s \in sessions : s.run # r /\ s.run \in Runs
    BY <1>1 DEF LegacyInv, LegacyTypes, SessionInv
  <2>6. SessionInv'
    <3>1. ASSUME NEW s \in sessions'
          PROVE  /\ run'[s.run].pc \in {"wait", "failed"}
                 /\ run'[s.run].pc = "wait" =>
                      /\ s.step = run'[s.run].at /\ s.src = run'[s.run].plan[s.step]
                      /\ kind'[s.step] = "sql-script" => s.db = run'[s.run].seen
      <4>1. CASE s = Legacy!Payload(r, k)
        BY <1>1, <2>1, <2>3, <4>1
      <4>2. CASE s \in sessions
        BY <1>1, <2>2, <2>5, <4>2 DEF LegacyInv, SessionInv
      <4> QED
        BY <1>4, <3>1, <4>1, <4>2
    <3>2. ASSUME NEW s \in sessions', NEW t \in sessions', s.run = t.run PROVE s = t
      BY <1>4, <2>3, <2>5, <3>2 DEF LegacyInv, SessionInv
    <3> QED
      BY <3>1, <3>2 DEF SessionInv
  <2>7. AppliedInv' /\ Legacy!ReceiptIsTrue'
    BY <1>1, <1>4, FactsKept DEF LegacyInv
  <2>8. OwnedInv'
    <3>1. \A q \in Runs : run'[q].owns = run[q].owns
      BY <2>1, <2>2
    <3> QED
      BY <1>1, <3>1 DEF LegacyInv, OwnedInv, Legacy!OneOwner
  <2>9. ASSUME NEW q \in Runs PROVE RunInv(q)'
    <3>1. CASE q # r
      BY <1>1, <1>4, <2>2, <3>1, OthersKept DEF LegacyInv
    <3>2. CASE q = r
      BY <1>1, <1>4, <2>1, <3>2 DEF RunInv, Legacy!Ran, Over, Place
    <3> QED
      BY <3>1, <3>2
  <2> QED
    BY <2>4, <2>6, <2>7, <2>8, <2>9 DEF LegacyInv
<1> QED
  BY <1>2, <1>3, <1>4 DEF Legacy!Execute

(* The end of a payload; its command, if it waits, is told.  A payload that *)
(* ends runs no more.                                                       *)
LEMMA SessionEnds ==
    ASSUME LegacyInv, NEW s \in sessions, sessions' = sessions \ {s}, ran \subseteq ran',
           kind' = kind, src' = src, db' = db, receipt' = receipt,
           applied' \in [Legacy!Step -> Proof], AppliedInv',
           \/ run' = run /\ run[s.run].pc # "wait"
           \/ /\ run[s.run].pc = "wait"
              /\ \/ Legacy!Go(s.run, "failed")
                 \/ Legacy!Go(s.run, "after") /\ [step |-> s.step, src |-> s.src, db |-> s.db] \in ran'
    PROVE  LegacyInv'
<1> DEFINE ranNow == [step |-> s.step, src |-> s.src, db |-> s.db]
<1>1. PICK r \in Runs : r = s.run
  BY DEF LegacyInv, LegacyTypes
<1>2. r \in Runs /\ run \in [Runs -> Command] /\ sessions' \subseteq sessions
  BY DEF LegacyInv, LegacyTypes
<1>3. Legacy!ReceiptIsTrue'
  BY FactsKept DEF LegacyInv
<1>4. \A t \in sessions' : t.run # r /\ t.run \in Runs
  BY <1>1 DEF LegacyInv, SessionInv, LegacyTypes
<1>5. CASE run' = run
  <2>1. LegacyTypes' /\ SessionInv' /\ OwnedInv'
    BY <1>2, <1>5 DEF LegacyInv, LegacyTypes, SessionInv, OwnedInv, Legacy!OneOwner
  <2>2. \A q \in Runs : RunInv(q)'
    BY <1>5, OthersKept DEF LegacyInv
  <2> QED
    BY <1>3, <2>1, <2>2 DEF LegacyInv
<1>6. ASSUME run[r].pc = "wait", NEW pc \in {"failed", "after"}, Legacy!Go(r, pc),
             pc = "after" => ranNow \in ran'
      PROVE  LegacyInv'
  <2>1. /\ run'[r].pc = pc /\ run'[r].at = run[r].at /\ run'[r].plan = run[r].plan
        /\ run'[r].owns = run[r].owns /\ run'[r].seen = run[r].seen /\ run'[r] \in Command
    <3>1. run' = [run EXCEPT ![r].pc = pc]
      BY <1>6 DEF Legacy!Go
    <3>2. pc \in Over \cup Place
      BY DEF Over, Place
    <3> QED
      BY <1>2, <3>1, <3>2 DEF Command
  <2>2. run' \in [Runs -> Command] /\ \A q \in Runs \ {r} : run'[q] = run[q]
    BY <1>2, <1>6, <2>1 DEF Legacy!Go
  <2>3. LegacyTypes'
    BY <1>2, <2>2 DEF LegacyInv, LegacyTypes
  <2>4. SessionInv'
    BY <1>2, <1>4, <2>2 DEF LegacyInv, SessionInv
  <2>5. OwnedInv'
    <3>1. \A q \in Runs : run'[q].owns = run[q].owns
      BY <2>1, <2>2
    <3> QED
      BY <3>1 DEF LegacyInv, OwnedInv, Legacy!OneOwner
  <2>6. pc = "after" => StepRan(r, {"sql-script"})'
    <3>1. /\ s.step = run[r].at /\ s.src = run[r].plan[s.step]
          /\ kind[s.step] = "sql-script" => s.db = run[r].seen
      BY <1>1, <1>6 DEF LegacyInv, SessionInv
    <3>2. ranNow.step = s.step /\ ranNow.src = s.src /\ ranNow.db = s.db
      OBVIOUS
    <3> HIDE DEF ranNow
    <3> QED
      BY <1>6, <2>1, <3>1, <3>2 DEF StepRan
  <2>7. ASSUME NEW q \in Runs PROVE RunInv(q)'
    <3>1. CASE q # r
      BY <2>2, <3>1, OthersKept DEF LegacyInv
    <3>2. CASE q = r
      BY <1>6, <2>1, <2>6, <3>2 DEF LegacyInv, RunInv, Legacy!Ran, Over, Place
    <3> QED
      BY <3>1, <3>2
  <2> QED
    BY <1>3, <2>3, <2>4, <2>5, <2>7 DEF LegacyInv
<1> QED
  BY <1>1, <1>5, <1>6

LEMMA SessionCommitsInv == ASSUME LegacyInv, NEW s \in sessions, Legacy!SessionCommits(s) PROVE LegacyInv'
<1> DEFINE ranNow == [step |-> s.step, src |-> s.src, db |-> s.db]
<1>1. /\ sessions' = sessions \ {s} /\ ran' = ran \cup {ranNow}
      /\ UNCHANGED <<kind, src, db, receipt>>
      /\ s \in [run : Runs, step : Legacy!Step, src : Nat, db : Nat]
      /\ applied \in [Legacy!Step -> Proof]
  BY DEF Legacy!SessionCommits, Legacy!world, LegacyInv, LegacyTypes
<1>2. CASE run[s.run].pc = "wait" /\ Legacy!Go(s.run, "after")
           /\ applied' = IF kind[s.step] = "migrate"
                           THEN [applied EXCEPT ![s.step] = [src |-> s.src, db |-> s.db]] ELSE applied
  <2>1. applied' \in [Legacy!Step -> Proof]
    BY <1>1, <1>2 DEF Proof
  <2>2. AppliedInv'
    <3> SUFFICES ASSUME NEW k \in Legacy!Step, applied'[k] # Legacy!NoReceipt
                 PROVE  \E e \in ran' : e.step = k /\ e.src = applied'[k].src /\ e.db = applied'[k].db
      BY DEF AppliedInv
    <3>1. CASE applied'[k] = applied[k]
      BY <1>1, <3>1 DEF LegacyInv, AppliedInv
    <3>2. CASE k = s.step /\ applied'[k] = [src |-> s.src, db |-> s.db]
      <4>1. ranNow \in ran' /\ ranNow.step = k /\ ranNow.src = s.src /\ ranNow.db = s.db
        BY <1>1, <3>2
      <4>2. applied'[k].src = s.src /\ applied'[k].db = s.db
        BY <3>2
      <4> QED
        BY <4>1, <4>2
    <3> QED
      BY <1>1, <1>2, <3>1, <3>2
  <2> QED
    BY <1>1, <1>2, <2>1, <2>2, SessionEnds
<1>3. CASE applied' = applied
           /\ IF run[s.run].pc = "wait" THEN Legacy!Go(s.run, "failed") ELSE run' = run
  <2>1. AppliedInv'
    BY <1>1, <1>3, FactsKept DEF LegacyInv
  <2> QED
    BY <1>1, <1>3, <2>1, SessionEnds
<1> QED
  BY <1>2, <1>3 DEF Legacy!SessionCommits, Legacy!Fail

LEMMA SessionFailsInv == ASSUME LegacyInv, NEW s \in sessions, Legacy!SessionFails(s) PROVE LegacyInv'
<1>1. /\ sessions' = sessions \ {s} /\ UNCHANGED <<kind, src, db, ran, applied, receipt>>
      /\ IF run[s.run].pc = "wait" THEN Legacy!Go(s.run, "failed") ELSE run' = run
  BY DEF Legacy!SessionFails, Legacy!Fail, Legacy!world
<1>2. applied' \in [Legacy!Step -> Proof] /\ AppliedInv'
  BY <1>1, FactsKept DEF LegacyInv, LegacyTypes
<1> QED
  BY <1>1, <1>2, SessionEnds

(* After its second observation a command knows of a migration step, too,   *)
(* in which database it ran: the folder's receipt names it.                 *)
LEMMA AfterInv == ASSUME LegacyInv, NEW r \in Runs, Legacy!After(r) PROVE LegacyInv'
<1> DEFINE k == run[r].at
<1>1. /\ run[r].pc = "after" /\ k \in Legacy!Step /\ StepRan(r, {"sql-script"})
      /\ UNCHANGED <<kind, src, db, ran, sessions, applied, receipt>>
      /\ run \in [Runs -> Command] /\ db \in Legacy!Database
  BY DEF Legacy!After, Legacy!world, Legacy!facts, LegacyInv, RunInv, LegacyTypes, Place
<1>2. CASE Legacy!Fail(r)
  BY <1>1, <1>2, Moves DEF Legacy!Fail, Over, Place
<1>3. CASE /\ Legacy!Bound(k) => db = run[r].seen
           /\ Legacy!MigrationReceiptMatches(r, k, db) /\ Legacy!Go(r, "receipt")
  <2>1. StepRan(r, {"sql-script", "migrate"})
    <3>1. CASE kind[k] = "migrate"
      <4>1. applied[k] = [src |-> run[r].plan[k], db |-> db] /\ db = run[r].seen
        BY <1>3, <3>1 DEF Legacy!MigrationReceiptMatches, Legacy!Bound
      <4>2. applied[k].src = run[r].plan[k] /\ applied[k].db = run[r].seen /\ applied[k] # Legacy!NoReceipt
        BY <1>1, <4>1 DEF Legacy!NoReceipt, Legacy!Database
      <4> QED
        BY <1>1, <4>2 DEF LegacyInv, AppliedInv, StepRan
    <3>2. CASE kind[k] # "migrate"
      BY <1>1, <3>2 DEF StepRan
    <3> QED
      BY <3>1, <3>2
  <2>2. /\ run'[r].at = run[r].at /\ run'[r].plan = run[r].plan /\ run'[r].seen = run[r].seen
    BY <1>1, <1>3 DEF Legacy!Go, Command
  <2>3. StepRan(r, {"sql-script", "migrate"})'
    BY <1>1, <2>1, <2>2 DEF StepRan
  <2> QED
    BY <1>1, <1>3, <2>3, Moves DEF Over, Place
<1> QED
  BY <1>2, <1>3 DEF Legacy!After

(* A receipt is written where there is none, for a step that ran.           *)
LEMMA WriteReceiptInv == ASSUME LegacyInv, NEW r \in Runs, Legacy!WriteReceipt(r) PROVE LegacyInv'
<1> DEFINE k == run[r].at
           next == IF k = Steps THEN "succeeded" ELSE "before"
<1>1. /\ run[r].pc = "receipt" /\ k \in Legacy!Step /\ StepRan(r, {"sql-script", "migrate"}) /\ RunInv(r)
      /\ UNCHANGED <<kind, src, db, ran, sessions, applied>>
      /\ run \in [Runs -> Command] /\ receipt \in [Legacy!Step -> Proof] /\ Steps \in Nat
      /\ run[r].plan[k] \in Nat \ {0} /\ run[r].seen \in Nat /\ k \in Nat /\ k <= Steps
  BY DEF Legacy!WriteReceipt, Legacy!world, Legacy!facts, LegacyInv, RunInv, LegacyTypes, Place,
         Command, Legacy!Step
<1>2. CASE Legacy!Fail(r) /\ receipt' = receipt
  BY <1>1, <1>2, Moves DEF Legacy!Fail, Over, Place
<1>3. CASE ~Legacy!Occupied(k) /\ receipt' = [receipt EXCEPT ![k] = Legacy!Receipt(r, k)] /\ Legacy!NextStep(r, k)
  <2>1. /\ Legacy!Receipt(r, k) \in Proof /\ Legacy!Receipt(r, k).src = run[r].plan[k] /\ Legacy!Receipt(r, k) # Legacy!NoReceipt
        /\ kind[k] \in {"sql-script", "migrate"} => Legacy!Receipt(r, k).db = run[r].seen
    BY <1>1 DEF Legacy!Receipt, Proof, Legacy!NoReceipt, Legacy!Bound
  <2>2. /\ receipt'[k] = Legacy!Receipt(r, k) /\ receipt[k] = Legacy!NoReceipt
        /\ \A j \in Legacy!Step \ {k} : receipt'[j] = receipt[j]
        /\ receipt' \in [Legacy!Step -> Proof]
    BY <1>1, <1>3, <2>1 DEF Legacy!Occupied
  <2>3. run' = [run EXCEPT ![r].owns = @ \cup {k}, ![r].at = k + 1, ![r].pc = next]
    BY <1>3 DEF Legacy!NextStep
  <2>4. next \in {"succeeded", "before"} /\ (next = "succeeded" <=> k = Steps)
    OBVIOUS
  <2> HIDE DEF next
  <2>5. /\ run'[r].pc = next /\ run'[r].at = k + 1 /\ run'[r].plan = run[r].plan
        /\ run'[r].owns = run[r].owns \cup {k} /\ run'[r] \in Command
    BY <1>1, <2>3, <2>4 DEF Command, Place
  <2>6. run' \in [Runs -> Command] /\ \A q \in Runs \ {r} : run'[q] = run[q]
    BY <1>1, <2>3, <2>5
  <2>7. LegacyTypes'
    BY <1>1, <2>2, <2>6 DEF LegacyInv, LegacyTypes
  <2>8. SessionInv'
    BY <1>1, <2>6 DEF LegacyInv, LegacyTypes, SessionInv
  <2>9. AppliedInv'
    BY <1>1, FactsKept DEF LegacyInv
  <2>10. Legacy!ReceiptIsTrue'
    <3> SUFFICES ASSUME NEW j \in Legacy!Step, receipt'[j] # Legacy!NoReceipt
                 PROVE  \E e \in ran' : /\ e.step = j /\ e.src = receipt'[j].src
                                        /\ kind'[j] \in {"sql-script", "migrate"} => e.db = receipt'[j].db
      BY DEF Legacy!ReceiptIsTrue
    <3>1. CASE j = k
      BY <1>1, <2>1, <2>2, <3>1 DEF StepRan
    <3>2. CASE j # k
      BY <1>1, <2>2, <3>2 DEF LegacyInv, Legacy!ReceiptIsTrue
    <3> QED
      BY <3>1, <3>2
  <2>11. OwnedInv'
    <3>1. \A q \in Runs : k \notin run[q].owns
      BY <2>2 DEF LegacyInv, OwnedInv
    <3>2. \A q \in Runs : run[q].owns \subseteq Legacy!Step
      BY <1>1 DEF Command
    <3>3. \A q \in Runs : \A j \in run'[q].owns : receipt'[j] # Legacy!NoReceipt
      BY <2>1, <2>2, <2>5, <2>6, <3>2 DEF LegacyInv, OwnedInv
    <3>4. Legacy!OneOwner'
      BY <2>5, <2>6, <3>1 DEF LegacyInv, OwnedInv, Legacy!OneOwner
    <3> QED
      BY <3>3, <3>4 DEF OwnedInv
  <2>12. ASSUME NEW q \in Runs PROVE RunInv(q)'
    <3>1. CASE q # r
      BY <1>1, <2>6, <3>1, OthersKept DEF LegacyInv
    <3>2. CASE q = r
      <4>1. \A j \in 1..k : Legacy!Ran(j, run[r].plan[j])
        <5>1. Legacy!Ran(k, run[r].plan[k])
          BY <1>1 DEF StepRan, Legacy!Ran
        <5>2. \A j \in 1..k - 1 : Legacy!Ran(j, run[r].plan[j])
          BY <1>1 DEF RunInv, Over
        <5> QED
          BY <1>1, <5>1, <5>2
      <4>2. run'[r].at - 1 = k
        BY <1>1, <2>5
      <4>3. ASSUME NEW j \in 1..k PROVE Legacy!Ran(j, run[r].plan[j])'
        BY <1>1, <2>5, <4>1 DEF Legacy!Ran
      <4>4. run'[r].pc \in Place => run'[r].at \in Legacy!Step
        BY <1>1, <2>4, <2>5 DEF Legacy!Step, Place
      <4> QED
        <5>1. (\A j \in 1..run[r].at - 1 : Legacy!Ran(j, run[r].plan[j]))'
          BY <4>2, <4>3
        <5>2. run'[r].pc \notin {"after", "receipt"}
          BY <2>4, <2>5
        <5>3. run'[r].pc = "succeeded" => run'[r].at = Steps + 1
          BY <2>4, <2>5
        <5> QED
          BY <3>2, <4>4, <5>1, <5>2, <5>3 DEF RunInv
    <3> QED
      BY <3>1, <3>2
  <2> QED
    BY <2>7, <2>8, <2>9, <2>10, <2>11, <2>12 DEF LegacyInv
<1> QED
  BY <1>2, <1>3 DEF Legacy!WriteReceipt

LEMMA LegacyStep == LegacyInv /\ [Legacy!Next]_(Legacy!vars) => LegacyInv'
<1> SUFFICES ASSUME LegacyInv, [Legacy!Next]_(Legacy!vars) PROVE LegacyInv'
  OBVIOUS
<1>1. CASE Legacy!Edit \/ Legacy!Switch
  BY <1>1, OutsideInv
<1>2. ASSUME NEW r \in Runs, Legacy!Rollout(r) PROVE LegacyInv'
  BY <1>2, BeginInv, ConfirmInv, ResumeInv, BeforeInv, ExecuteInv, AfterInv, WriteReceiptInv,
     StopInv
     DEF Legacy!Rollout
<1>3. ASSUME NEW s \in sessions, Legacy!SessionCommits(s) \/ Legacy!SessionFails(s) PROVE LegacyInv'
  BY <1>3, SessionCommitsInv, SessionFailsInv
<1>4. CASE UNCHANGED Legacy!vars
  <2>1. UNCHANGED <<kind, src, db, ran, sessions, applied, receipt, run>>
    BY <1>4 DEF Legacy!vars, Legacy!world, Legacy!facts
  <2>2. LegacyTypes' /\ SessionInv' /\ OwnedInv'
    BY <2>1 DEF LegacyInv, LegacyTypes, SessionInv, OwnedInv, Legacy!OneOwner
  <2>3. AppliedInv' /\ Legacy!ReceiptIsTrue'
    BY <2>1, FactsKept DEF LegacyInv
  <2>4. \A q \in Runs : RunInv(q)'
    BY <2>1, OthersKept DEF LegacyInv
  <2> QED
    BY <2>2, <2>3, <2>4 DEF LegacyInv
<1> QED
  BY <1>1, <1>2, <1>3, <1>4 DEF Legacy!Next

-----------------------------------------------------------------------------
(* MigrationRehearsal: a rehearsal leaves nothing behind.                   *)

(* What LeavesNoTrace rests on: a data session exists only where SQLcl has  *)
(* said that autocommit is off (_verify_autocommit_off).                    *)
ProvenOff == session = "running" => autocommit = "off"

RehearsalInv == Rehearsal!LeavesNoTrace /\ ProvenOff

LEMMA RehearsalInit == Rehearsal!Init => RehearsalInv
  BY DEF Rehearsal!Init, RehearsalInv, Rehearsal!LeavesNoTrace, ProvenOff

(* Before the data session: only the probe lets it start. *)
LEMMA BeforeSession ==
    ASSUME RehearsalInv, Rehearsal!MateCommits \/ Rehearsal!EditFolder \/ Rehearsal!Review \/ Rehearsal!Probe
    PROVE  RehearsalInv'
<1>1. CASE Rehearsal!MateCommits
  BY <1>1 DEF RehearsalInv, Rehearsal!LeavesNoTrace, ProvenOff, Rehearsal!MateCommits
<1>2. CASE Rehearsal!EditFolder
  BY <1>2 DEF RehearsalInv, Rehearsal!LeavesNoTrace, ProvenOff, Rehearsal!EditFolder, Rehearsal!db
<1>3. CASE Rehearsal!Review
  BY <1>3 DEF RehearsalInv, Rehearsal!LeavesNoTrace, ProvenOff, Rehearsal!Review, Rehearsal!db
<1>4. CASE Rehearsal!Probe
  BY <1>4 DEF RehearsalInv, Rehearsal!LeavesNoTrace, ProvenOff, Rehearsal!Probe, Rehearsal!db
<1> QED
  BY <1>1, <1>2, <1>3, <1>4

(* A data file of the session adds to what the session owns, and to nothing *)
(* else.                                                                    *)
LEMMA FileStaysOwn ==
    ASSUME RehearsalInv, Rehearsal!RunFile
    PROVE  RehearsalInv'
<1>1. autocommit = "off"
  BY DEF RehearsalInv, ProvenOff, Rehearsal!RunFile
<1>2. committed' = committed /\ mates' = mates /\ autocommit' = autocommit
  BY <1>1 DEF Rehearsal!RunFile
<1>3. QED
  BY <1>1, <1>2 DEF RehearsalInv, Rehearsal!LeavesNoTrace, ProvenOff

(* The other steps of the session, and its end, write no data. *)
LEMMA SessionWritesNothing ==
    ASSUME RehearsalInv,
           \/ Rehearsal!StartValue \/ Rehearsal!Precondition \/ Rehearsal!Observe \/ Rehearsal!RollBack
           \/ Rehearsal!FinalValue \/ Rehearsal!LoseSession \/ Rehearsal!Expire
    PROVE  RehearsalInv'
<1>1. committed' = committed /\ mates' = mates /\ autocommit' = autocommit
  BY DEF Rehearsal!StartValue, Rehearsal!Precondition, Rehearsal!Observe, Rehearsal!RollBack,
         Rehearsal!FinalValue, Rehearsal!LoseSession, Rehearsal!Expire, Rehearsal!db
<1>2. session = "running" \/ session' = session
  BY DEF Rehearsal!StartValue, Rehearsal!Precondition, Rehearsal!Observe, Rehearsal!RollBack,
         Rehearsal!FinalValue, Rehearsal!LoseSession, Rehearsal!Expire
<1>3. QED
  BY <1>1, <1>2 DEF RehearsalInv, Rehearsal!LeavesNoTrace, ProvenOff

(* The end of the command, and its being killed: no session begins. *)
LEMMA CommandEnds ==
    ASSUME RehearsalInv, Rehearsal!Conclude \/ Rehearsal!Kill
    PROVE  RehearsalInv'
<1>1. committed' = committed /\ mates' = mates /\ autocommit' = autocommit
  BY DEF Rehearsal!Conclude, Rehearsal!Kill, Rehearsal!db
<1>2. session' = session \/ session' = "lost"
  BY DEF Rehearsal!Conclude, Rehearsal!Kill
<1>3. QED
  BY <1>1, <1>2 DEF RehearsalInv, Rehearsal!LeavesNoTrace, ProvenOff

LEMMA RehearsalStep == RehearsalInv /\ [Rehearsal!Next]_(Rehearsal!vars) => RehearsalInv'
<1> SUFFICES ASSUME RehearsalInv, [Rehearsal!Next]_(Rehearsal!vars) PROVE RehearsalInv'
  OBVIOUS
<1>1. CASE Rehearsal!MateCommits \/ Rehearsal!EditFolder \/ Rehearsal!Review \/ Rehearsal!Probe
  BY <1>1, BeforeSession
<1>2. CASE Rehearsal!RunFile
  BY <1>2, FileStaysOwn
<1>3. CASE \/ Rehearsal!StartValue \/ Rehearsal!Precondition \/ Rehearsal!Observe \/ Rehearsal!RollBack
           \/ Rehearsal!FinalValue \/ Rehearsal!LoseSession \/ Rehearsal!Expire
  BY <1>3, SessionWritesNothing
<1>4. CASE Rehearsal!Conclude \/ Rehearsal!Kill
  BY <1>4, CommandEnds
<1>5. CASE UNCHANGED Rehearsal!vars
  BY <1>5 DEF Rehearsal!vars, Rehearsal!db, RehearsalInv, Rehearsal!LeavesNoTrace, ProvenOff
<1> QED
  BY <1>1, <1>2, <1>3, <1>4, <1>5 DEF Rehearsal!Next

-----------------------------------------------------------------------------
(* Sequences: their elements, concatenation, and what FlattenSeq yields.     *)

InRange(s) == {s[i] : i \in 1..Len(s)}
Distinct(s) == \A i, j \in 1..Len(s) : s[i] = s[j] => i = j

LEMMA Concat ==
    ASSUME NEW S, NEW s \in Seq(S), NEW t \in Seq(S)
    PROVE  /\ s \o t \in Seq(S)
           /\ InRange(s \o t) = InRange(s) \cup InRange(t)
           /\ Distinct(s) /\ Distinct(t) /\ InRange(s) \cap InRange(t) = {} => Distinct(s \o t)
<1>1. /\ s \o t \in Seq(S) /\ Len(s \o t) = Len(s) + Len(t) /\ Len(s) \in Nat /\ Len(t) \in Nat
      /\ \A i \in 1..Len(s) : (s \o t)[i] = s[i]
      /\ \A i \in 1..Len(s) + Len(t) : i > Len(s) => i - Len(s) \in 1..Len(t) /\ (s \o t)[i] = t[i - Len(s)]
  OBVIOUS
<1> DEFINE u == s \o t
<1>2. \A i \in 1..Len(t) : i + Len(s) \in 1..Len(u) /\ u[i + Len(s)] = t[i]
  BY <1>1
<1>3. InRange(u) = InRange(s) \cup InRange(t)
  <2>1. InRange(u) \subseteq InRange(s) \cup InRange(t)
    <3> SUFFICES ASSUME NEW i \in 1..Len(u) PROVE u[i] \in InRange(s) \cup InRange(t)
      BY DEF InRange
    <3>1. CASE i <= Len(s)
      BY <1>1, <3>1 DEF InRange
    <3>2. CASE i > Len(s)
      BY <1>1, <3>2 DEF InRange
    <3> QED
      BY <1>1, <3>1, <3>2
  <2>2. InRange(s) \subseteq InRange(u) /\ InRange(t) \subseteq InRange(u)
    BY <1>1, <1>2 DEF InRange
  <2> QED
    BY <2>1, <2>2
<1>4. /\ \A i \in 1..Len(s) : u[i] \in InRange(s)
      /\ \A i \in 1..Len(u) : i > Len(s) => u[i] \in InRange(t)
  BY <1>1 DEF InRange
<1>5. ASSUME Distinct(s), Distinct(t), InRange(s) \cap InRange(t) = {}, NEW i \in 1..Len(u), NEW j \in 1..Len(u), u[i] = u[j]
      PROVE  i = j
  <2>1. CASE i <= Len(s) /\ j <= Len(s)
    BY <1>1, <1>5, <2>1 DEF Distinct
  <2>2. CASE i > Len(s) /\ j > Len(s)
    BY <1>1, <1>5, <2>2 DEF Distinct
  <2>3. CASE i <= Len(s) /\ j > Len(s)
    BY <1>1, <1>5, <1>4, <2>3
  <2>4. CASE i > Len(s) /\ j <= Len(s)
    BY <1>1, <1>5, <1>4, <2>4
  <2> QED
    BY <1>1, <2>1, <2>2, <2>3, <2>4
<1> QED
  BY <1>1, <1>3, <1>5 DEF Distinct

\* The concatenation of the first i sequences, for every i up to n.
Folded(f, seqs, n) == f = [i \in 1..n |-> IF i = 1 THEN seqs[i] ELSE f[i - 1] \o seqs[i]]

\* The recursive function of FlattenSeq exists.
LEMMA FoldExists == ASSUME NEW seqs, NEW n \in Nat PROVE \E f : Folded(f, seqs, n)
<1> DEFINE S == {m \in Nat : \E f : Folded(f, seqs, m)}
<1>1. 0 \in S
  <2> DEFINE f == [i \in 1..0 |-> seqs[i]]
  <2>1. Folded(f, seqs, 0)
    BY DEF Folded
  <2> QED
    BY <2>1
<1>2. ASSUME NEW m \in Nat, m \in S PROVE m + 1 \in S
  <2>1. PICK f : Folded(f, seqs, m)
    BY <1>2
  <2> DEFINE g == [i \in 1..m + 1 |-> IF i = 1 THEN seqs[i] ELSE f[i - 1] \o seqs[i]]
  <2>2. \A i \in 1..m : f[i] = g[i]
    <3>1. \A i \in 1..m : f[i] = IF i = 1 THEN seqs[i] ELSE f[i - 1] \o seqs[i]
      BY <2>1, Zenon DEF Folded
    <3> QED
      BY <3>1
  <2>3. \A i \in 1..m + 1 : i # 1 => i - 1 \in 1..m
    OBVIOUS
  <2>4. Folded(g, seqs, m + 1)
    BY <2>2, <2>3 DEF Folded
  <2> QED
    BY <2>4
<1> HIDE DEF S
<1>3. n \in S
  BY <1>1, <1>2, Induct
<1> QED
  BY <1>3 DEF S

LEMMA Flatten ==
    ASSUME NEW S, NEW n \in Nat \ {0}, NEW seqs \in [1..n -> Seq(S)]
    PROVE  \E f : Folded(f, seqs, n) /\ Rehearsal!FlattenSeq(seqs) = f[n]
<1>1. Len(seqs) = n
  OBVIOUS
<1>2. \E f : Folded(f, seqs, n)
  BY FoldExists
<1> DEFINE flatten == CHOOSE f : f = [i \in 1..n |-> IF i = 1 THEN seqs[i] ELSE f[i - 1] \o seqs[i]]
<1>3. Rehearsal!FlattenSeq(seqs) = flatten[n]
  BY <1>1 DEF Rehearsal!FlattenSeq
<1>4. Folded(flatten, seqs, n)
  BY <1>2, Zenon DEF Folded
<1> QED
  BY <1>3, <1>4

(* FlattenSeq keeps the elements, ends with the last sequence, and repeats   *)
(* nothing that its sequences do not.                                       *)
LEMMA FlattenIs ==
    ASSUME NEW S, NEW n \in Nat \ {0}, NEW seqs \in [1..n -> Seq(S)]
    PROVE  LET F == Rehearsal!FlattenSeq(seqs) IN
           /\ \E G \in Seq(S) : F = G \o seqs[n] /\ F \in Seq(S)
           /\ InRange(F) = UNION {InRange(seqs[k]) : k \in 1..n}
           /\ /\ \A k \in 1..n : Distinct(seqs[k])
              /\ \A j, k \in 1..n : j # k => InRange(seqs[j]) \cap InRange(seqs[k]) = {}
              => Distinct(F)
<1> DEFINE F == Rehearsal!FlattenSeq(seqs)
           Apart == /\ \A k \in 1..n : Distinct(seqs[k])
                    /\ \A j, k \in 1..n : j # k => InRange(seqs[j]) \cap InRange(seqs[k]) = {}
<1>1. PICK f : Folded(f, seqs, n) /\ F = f[n]
  BY Flatten
<1>2. \A i \in 1..n : f[i] = IF i = 1 THEN seqs[i] ELSE f[i - 1] \o seqs[i]
  BY <1>1, Zenon DEF Folded
<1>3. \A i \in 1..n : seqs[i] \in Seq(S)
  OBVIOUS
<1> DEFINE Good(i) == /\ f[i] \in Seq(S)
                      /\ InRange(f[i]) = UNION {InRange(seqs[k]) : k \in 1..i}
                      /\ Apart => Distinct(f[i])
           Goods == {i \in Nat : i + 1 <= n => Good(i + 1)}
<1> HIDE DEF F, Apart, Good
<1>4. Good(1)
  <2>1. f[1] = seqs[1] /\ 1 \in 1..n
    BY <1>2
  <2>2. UNION {InRange(seqs[k]) : k \in 1..1} = InRange(seqs[1])
    OBVIOUS
  <2> QED
    BY <1>3, <2>1, <2>2 DEF Good, Apart
<1>5. 0 \in Goods
  BY <1>4
<1>6. ASSUME NEW m \in Nat, m \in Goods PROVE m + 1 \in Goods
  <2> SUFFICES ASSUME m + 2 <= n PROVE Good(m + 2)
    BY <1>6
  <2> DEFINE i == m + 1
  <2>1. Good(i) /\ i \in 1..n /\ i + 1 \in 1..n /\ i + 1 = m + 2
    BY <1>6
  <2> HIDE DEF i, Goods
  <2>2. f[i + 1] = f[i] \o seqs[i + 1]
    <3>1. i + 1 # 1 /\ i + 1 - 1 = i
      BY <2>1
    <3>2. ASSUME NEW j \in 1..n, j # 1 PROVE f[j] = f[j - 1] \o seqs[j]
      BY <1>2, <3>2, Zenon
    <3>3. PICK j \in 1..n : j = i + 1 /\ j - 1 = i /\ j # 1
      BY <2>1, <3>1
    <3>4. f[j] = f[j - 1] \o seqs[j]
      BY <3>2, <3>3
    <3> QED
      BY <3>3, <3>4, Zenon
  <2>3. f[i] \in Seq(S) /\ seqs[i + 1] \in Seq(S)
    BY <1>3, <2>1 DEF Good
  <2>4. /\ f[i + 1] \in Seq(S)
        /\ InRange(f[i + 1]) = InRange(f[i]) \cup InRange(seqs[i + 1])
        /\ Distinct(f[i]) /\ Distinct(seqs[i + 1]) /\ InRange(f[i]) \cap InRange(seqs[i + 1]) = {} => Distinct(f[i + 1])
    BY <2>2, <2>3, Concat
  <2>5. InRange(f[i]) = UNION {InRange(seqs[k]) : k \in 1..i}
    BY <2>1 DEF Good
  <2>6. InRange(f[i + 1]) = UNION {InRange(seqs[k]) : k \in 1..i + 1}
    <3>1. 1..i + 1 = (1..i) \cup {i + 1}
      BY <2>1
    <3> QED
      BY <2>4, <2>5, <3>1, Zenon
  <2>7. ASSUME Apart PROVE Distinct(f[i + 1])
    <3>1. Distinct(f[i]) /\ Distinct(seqs[i + 1])
      BY <2>1, <2>7 DEF Good, Apart
    <3>2. \A k \in 1..i : k \in 1..n /\ k # i + 1
      BY <2>1
    <3>3. \A k \in 1..i : InRange(seqs[k]) \cap InRange(seqs[i + 1]) = {}
      BY <2>1, <2>7, <3>2 DEF Apart
    <3>4. InRange(f[i]) \cap InRange(seqs[i + 1]) = {}
      BY <2>5, <3>3
    <3> QED
      BY <2>4, <3>1, <3>4
  <2>8. Good(i + 1)
    BY <2>4, <2>6, <2>7 DEF Good
  <2> QED
    BY <2>1, <2>8
<1> HIDE DEF Goods
<1>7. Nat \subseteq Goods
  BY <1>5, <1>6, Induct
<1>8. ASSUME NEW i \in 1..n PROVE Good(i)
  <2>1. i - 1 \in Nat /\ i - 1 + 1 = i /\ i <= n
    OBVIOUS
  <2>2. i - 1 \in Goods
    BY <1>7, <2>1
  <2> QED
    BY <2>1, <2>2 DEF Goods
<1>9. \E G \in Seq(S) : F = G \o seqs[n]
  <2>1. CASE n = 1
    <3>1. F = <<>> \o seqs[1] /\ <<>> \in Seq(S)
      BY <1>1, <1>2, <1>3, <2>1
    <3> QED
      BY <2>1, <3>1
  <2>2. CASE n # 1
    <3>1. n - 1 \in 1..n /\ n \in 1..n
      BY <2>2
    <3>2. f[n - 1] \in Seq(S)
      BY <1>8, <3>1 DEF Good
    <3> QED
      BY <1>1, <1>2, <2>2, <3>1, <3>2
  <2> QED
    BY <2>1, <2>2
<1>10. Good(n)
  BY <1>8
<1> QED
  BY <1>1, <1>9, <1>10 DEF Good, F, Apart

LEMMA LastTwo ==
    ASSUME NEW S, NEW s \in Seq(S), NEW t \in Seq(S), Len(t) >= 2, NEW u, u = s \o t
    PROVE  /\ Len(u) \in Nat /\ Len(u) >= 2
           /\ u[Len(u)] = t[Len(t)] /\ u[Len(u) - 1] = t[Len(t) - 1]
  OBVIOUS

LEMMA One ==
    ASSUME NEW S, NEW x \in S
    PROVE  <<x>> \in Seq(S) /\ InRange(<<x>>) = {x} /\ Distinct(<<x>>)
  BY DEF InRange, Distinct

LEMMA Two ==
    ASSUME NEW S, NEW x \in S, NEW y \in S, x # y
    PROVE  <<x, y>> \in Seq(S) /\ InRange(<<x, y>>) = {x, y} /\ Distinct(<<x, y>>) /\ Len(<<x, y>>) = 2
<1>1. DOMAIN <<x, y>> = 1..2 /\ Len(<<x, y>>) = 2 /\ \A i \in 1..2 : i = 1 \/ i = 2
  OBVIOUS
<1> QED
  BY <1>1 DEF InRange, Distinct

LEMMA Zero == ASSUME NEW S PROVE <<>> \in Seq(S) /\ InRange(<<>>) = {} /\ Distinct(<<>>)
  BY DEF InRange, Distinct

-----------------------------------------------------------------------------
(* MigrationRehearsal: what exit 0 stands for.                              *)

\* Every folder has files.
BatchInv ==
    /\ Len(batch) \in Nat \ {0} /\ DOMAIN batch = 1..Len(batch)
    /\ \A k \in 1..Len(batch) : Len(batch[k]) \in Nat \ {0} /\ DOMAIN batch[k] = 1..Len(batch[k])

\* What the driver asks the session to do.
What == {"start", "pre", "before", "file", "after", "post", "rollback", "end", "final"}
Question == [what : What, folder : Nat, file : Nat]

LEMMA AskIs ==
    /\ \A w \in What, k \in Nat, i \in Nat : Rehearsal!Ask(w, k, i) \in Question
    /\ \A w, k, i : /\ Rehearsal!Ask(w, k, i).what = w /\ Rehearsal!Ask(w, k, i).folder = k
                    /\ Rehearsal!Ask(w, k, i).file = i
  BY DEF Rehearsal!Ask, Question

(* The part of one folder. *)
LEMMA FolderAsks ==
    ASSUME BatchInv, NEW k \in 1..Len(batch)
    PROVE  /\ Rehearsal!OfFolder(k) \in Seq(Question)
           /\ Distinct(Rehearsal!OfFolder(k))
           /\ InRange(Rehearsal!OfFolder(k)) =
                  {Rehearsal!Ask(w, k, 0) : w \in {"pre", "before", "after", "post"}}
                  \cup {Rehearsal!Ask("file", k, i) : i \in Rehearsal!DataFiles(k)}
<1> DEFINE n == Len(batch[k])
           D == Rehearsal!DataFiles(k)
           seqs == [i \in DOMAIN batch[k] |-> IF i \in D THEN <<Rehearsal!Ask("file", k, i)>> ELSE <<>>]
           F == Rehearsal!FlattenSeq(seqs)
           A == <<Rehearsal!Ask("pre", k, 0), Rehearsal!Ask("before", k, 0)>>
           B == <<Rehearsal!Ask("after", k, 0), Rehearsal!Ask("post", k, 0)>>
<1>1. k \in Nat /\ n \in Nat \ {0} /\ DOMAIN batch[k] = 1..n /\ D \subseteq 1..n
  BY DEF BatchInv, Rehearsal!DataFiles
<1>2. Rehearsal!OfFolder(k) = (A \o F) \o B
  BY DEF Rehearsal!OfFolder
<1>3. /\ \A w \in {"pre", "before", "after", "post"} : Rehearsal!Ask(w, k, 0) \in Question
       /\ \A i \in 1..n : Rehearsal!Ask("file", k, i) \in Question
  <2> HIDE DEF n
  <2>1. \A i \in 1..n : i \in Nat
    BY <1>1
  <2>2. 0 \in Nat /\ "file" \in What /\ \A w \in {"pre", "before", "after", "post"} : w \in What
    BY DEF What
  <2>3. \A i \in Nat : Rehearsal!Ask("file", k, i) \in Question
    BY <1>1, <2>2, AskIs, Zenon
  <2>4. \A w \in {"pre", "before", "after", "post"} : Rehearsal!Ask(w, k, 0) \in Question
    BY <1>1, <2>2, AskIs, Zenon
  <2> QED
    BY <2>1, <2>3, <2>4
<1>4. /\ Rehearsal!Ask("pre", k, 0) # Rehearsal!Ask("before", k, 0)
       /\ Rehearsal!Ask("after", k, 0) # Rehearsal!Ask("post", k, 0)
  BY AskIs
<1>5. /\ A \in Seq(Question) /\ Distinct(A)
      /\ InRange(A) = {Rehearsal!Ask("pre", k, 0), Rehearsal!Ask("before", k, 0)}
  BY <1>3, <1>4, Two
<1>6. /\ B \in Seq(Question) /\ Distinct(B)
      /\ InRange(B) = {Rehearsal!Ask("after", k, 0), Rehearsal!Ask("post", k, 0)}
  BY <1>3, <1>4, Two
<1>7. \A i \in 1..n :
          /\ seqs[i] \in Seq(Question) /\ Distinct(seqs[i])
          /\ InRange(seqs[i]) = IF i \in D THEN {Rehearsal!Ask("file", k, i)} ELSE {}
  <2> SUFFICES ASSUME NEW i \in 1..n
               PROVE  /\ seqs[i] \in Seq(Question) /\ Distinct(seqs[i])
                      /\ InRange(seqs[i]) = IF i \in D THEN {Rehearsal!Ask("file", k, i)} ELSE {}
    OBVIOUS
  <2> DEFINE ask == Rehearsal!Ask("file", k, i)
  <2>1. ask \in Question
    BY <1>3
  <2>2. seqs[i] = IF i \in D THEN <<ask>> ELSE <<>>
    BY <1>1
  <2> HIDE DEF ask, seqs, n, D
  <2>3. CASE i \in D
    BY <2>1, <2>2, <2>3, One DEF ask
  <2>4. CASE i \notin D
    BY <2>2, <2>4, Zero
  <2> QED
    BY <2>3, <2>4
<1>8. seqs \in [1..n -> Seq(Question)]
  <2>1. DOMAIN seqs = 1..n /\ seqs = [i \in 1..n |-> seqs[i]]
    BY <1>1
  <2> HIDE DEF seqs
  <2> QED
    BY <1>7, <2>1
<1>9. \A i, j \in 1..n : i # j => InRange(seqs[i]) \cap InRange(seqs[j]) = {}
  <2>1. \A i, j : i # j => Rehearsal!Ask("file", k, i) # Rehearsal!Ask("file", k, j)
    BY AskIs
  <2> HIDE DEF seqs, D, n
  <2> QED
    BY <1>7, <2>1
<1>10. /\ F \in Seq(Question) /\ Distinct(F)
      /\ InRange(F) = UNION {InRange(seqs[i]) : i \in 1..n}
  <2> HIDE DEF seqs, n
  <2>1. \A i \in 1..n : Distinct(seqs[i])
    BY <1>7
  <2> QED
    BY <1>1, <1>8, <1>9, <2>1, FlattenIs
<1>11. InRange(F) = {Rehearsal!Ask("file", k, i) : i \in D}
  <2> HIDE DEF seqs, F, D, n
  <2>1. ASSUME NEW x \in InRange(F) PROVE \E i \in D : x = Rehearsal!Ask("file", k, i)
    <3>1. PICK i \in 1..n : x \in InRange(seqs[i])
      BY <1>10, <2>1
    <3> QED
      BY <1>7, <3>1
  <2>2. ASSUME NEW i \in D PROVE Rehearsal!Ask("file", k, i) \in InRange(F)
    <3>1. i \in 1..n
      BY <1>1
    <3>2. Rehearsal!Ask("file", k, i) \in InRange(seqs[i])
      BY <1>7, <3>1
    <3> QED
      BY <1>10, <3>1, <3>2
  <2> QED
    BY <2>1, <2>2
<1> HIDE DEF A, B, F, seqs
<1>12. /\ A \o F \in Seq(Question) /\ Distinct(A \o F)
       /\ InRange(A \o F) = InRange(A) \cup InRange(F)
  <2>1. InRange(A) \cap InRange(F) = {}
    BY <1>5, <1>11, AskIs
  <2> QED
    BY <1>5, <1>10, <2>1, Concat
<1>13. InRange(A \o F) \cap InRange(B) = {}
  BY <1>5, <1>6, <1>11, <1>12, AskIs
<1>14. /\ (A \o F) \o B \in Seq(Question) /\ Distinct((A \o F) \o B)
       /\ InRange((A \o F) \o B) = InRange(A \o F) \cup InRange(B)
  <2> DEFINE AF == A \o F
  <2>1. AF \in Seq(Question) /\ Distinct(AF) /\ InRange(AF) \cap InRange(B) = {}
    BY <1>12, <1>13
  <2> HIDE DEF AF
  <2>2. /\ AF \o B \in Seq(Question) /\ Distinct(AF \o B)
        /\ InRange(AF \o B) = InRange(AF) \cup InRange(B)
    BY <1>6, <2>1, Concat
  <2> QED
    BY <2>2 DEF AF
<1> QED
  BY <1>2, <1>5, <1>6, <1>11, <1>12, <1>14

(* The driver asks no question twice; it ends with the metrics and the last *)
(* value of the last folder, and has every data file.                       *)
LEMMA DriverAsks ==
    ASSUME BatchInv
    PROVE  LET N == Len(batch) IN
           /\ Rehearsal!Driver \in Seq(Question) /\ Distinct(Rehearsal!Driver)
           /\ Len(Rehearsal!Driver) >= 2
           /\ Rehearsal!Driver[Len(Rehearsal!Driver)] = Rehearsal!Ask("final", N, 0)
           /\ Rehearsal!Driver[Len(Rehearsal!Driver) - 1] = Rehearsal!Ask("end", N, 0)
           /\ \A k \in 1..N : \A i \in Rehearsal!DataFiles(k) : Rehearsal!Ask("file", k, i) \in InRange(Rehearsal!Driver)
           /\ \A a \in InRange(Rehearsal!Driver) : a.what # "file" => a.file = 0
<1> DEFINE N == Len(batch)
           start == [k \in 1..N |-> Rehearsal!Ask("start", k, 0)]
           folders == [k \in 1..N |-> Rehearsal!OfFolder(k)]
           ends == [k \in 1..N |-> <<Rehearsal!Ask("end", k, 0), Rehearsal!Ask("final", k, 0)>>]
           A == start
           B == Rehearsal!FlattenSeq(folders)
           C == <<Rehearsal!Ask("rollback", 0, 0)>>
           D == Rehearsal!FlattenSeq(ends)
           AB == A \o B
           ABC == AB \o C
           Whole == ABC \o D
           Inner == {"pre", "before", "file", "after", "post"}
<1>1. N \in Nat \ {0} /\ Rehearsal!Folders = 1..N
  BY DEF BatchInv, Rehearsal!Folders
<1>2. Rehearsal!Driver = Whole
  BY <1>1 DEF Rehearsal!Driver
<1>3. \A k \in 1..N : k \in Nat
  BY <1>1
<1>4. 0 \in Nat /\ \A w \in {"start", "rollback", "end", "final"} : w \in What
  BY DEF What
<1>5. \A w \in {"start", "rollback", "end", "final"} : \A k \in Nat : Rehearsal!Ask(w, k, 0) \in Question
  BY <1>4, AskIs, Zenon
<1> HIDE DEF N
<1>6. /\ A \in Seq(Question) /\ Distinct(A)
      /\ \A a \in InRange(A) : a.what = "start" /\ a.file = 0
  <2>1. \A k \in 1..N : A[k] \in Question /\ A[k].what = "start" /\ A[k].file = 0 /\ A[k].folder = k
    BY <1>3, <1>5, AskIs
  <2>2. A \in [1..N -> Question]
    BY <2>1
  <2>3. DOMAIN A = 1..N /\ Len(A) = N
    BY <1>1
  <2> HIDE DEF A, start
  <2> QED
    BY <1>1, <2>1, <2>2, <2>3 DEF InRange, Distinct
<1>7. /\ B \in Seq(Question) /\ Distinct(B)
      /\ \A a \in InRange(B) : a.what \in Inner /\ (a.what # "file" => a.file = 0)
      /\ \A k \in 1..N : \A i \in Rehearsal!DataFiles(k) : Rehearsal!Ask("file", k, i) \in InRange(B)
  <2>1. \A k \in 1..N :
            /\ folders[k] \in Seq(Question) /\ Distinct(folders[k])
            /\ InRange(folders[k]) =
                  {Rehearsal!Ask(w, k, 0) : w \in {"pre", "before", "after", "post"}}
                  \cup {Rehearsal!Ask("file", k, i) : i \in Rehearsal!DataFiles(k)}
    BY FolderAsks DEF N
  <2>2. folders \in [1..N -> Seq(Question)]
    BY <2>1
  <2> HIDE DEF folders
  <2>3. \A k \in 1..N : \A a \in InRange(folders[k]) :
            a.what \in Inner /\ (a.what # "file" => a.file = 0) /\ a.folder = k
    <3> SUFFICES ASSUME NEW k \in 1..N, NEW a \in InRange(folders[k])
                 PROVE  a.what \in Inner /\ (a.what # "file" => a.file = 0) /\ a.folder = k
      OBVIOUS
    <3>1. CASE \E w \in {"pre", "before", "after", "post"} : a = Rehearsal!Ask(w, k, 0)
      BY <3>1, AskIs
    <3>2. CASE \E i \in Rehearsal!DataFiles(k) : a = Rehearsal!Ask("file", k, i)
      BY <3>2, AskIs
    <3> QED
      BY <2>1, <3>1, <3>2
  <2>4. \A j, k \in 1..N : j # k => InRange(folders[j]) \cap InRange(folders[k]) = {}
    BY <2>3
  <2>5. \A k \in 1..N : Distinct(folders[k])
    BY <2>1
  <2>6. B \in Seq(Question) /\ Distinct(B) /\ InRange(B) = UNION {InRange(folders[k]) : k \in 1..N}
    BY <1>1, <2>2, <2>4, <2>5, FlattenIs
  <2>7. ASSUME NEW k \in 1..N, NEW i \in Rehearsal!DataFiles(k)
        PROVE  Rehearsal!Ask("file", k, i) \in InRange(B)
    <3>1. Rehearsal!Ask("file", k, i) \in InRange(folders[k])
      BY <2>1
    <3> HIDE DEF B
    <3> QED
      BY <2>6, <3>1
  <2> HIDE DEF B
  <2> QED
    BY <2>3, <2>6, <2>7
<1>8. /\ C \in Seq(Question) /\ Distinct(C)
      /\ \A a \in InRange(C) : a.what = "rollback" /\ a.file = 0
  <2> DEFINE x == Rehearsal!Ask("rollback", 0, 0)
  <2>1. x \in Question /\ x.what = "rollback" /\ x.file = 0
    BY <1>4, <1>5, AskIs
  <2> HIDE DEF x
  <2>2. <<x>> \in Seq(Question) /\ InRange(<<x>>) = {x} /\ Distinct(<<x>>)
    BY <2>1, One
  <2> QED
    BY <2>1, <2>2 DEF x
<1>9. /\ D \in Seq(Question) /\ Distinct(D)
      /\ \A a \in InRange(D) : a.what \in {"end", "final"} /\ a.file = 0
      /\ \E G \in Seq(Question) : D = G \o <<Rehearsal!Ask("end", N, 0), Rehearsal!Ask("final", N, 0)>>
  <2>1. ASSUME NEW k \in 1..N
        PROVE  /\ ends[k] \in Seq(Question) /\ Distinct(ends[k])
               /\ \A a \in InRange(ends[k]) : a.what \in {"end", "final"} /\ a.file = 0 /\ a.folder = k
    <3> DEFINE x == Rehearsal!Ask("end", k, 0)
               y == Rehearsal!Ask("final", k, 0)
    <3>1. x \in Question /\ y \in Question
      BY <1>3, <1>5
    <3>2. x.what = "end" /\ y.what = "final" /\ x.file = 0 /\ y.file = 0 /\ x.folder = k /\ y.folder = k
      BY AskIs
    <3>3. ends[k] = <<x, y>>
      OBVIOUS
    <3> HIDE DEF x, y, ends
    <3>4. <<x, y>> \in Seq(Question) /\ InRange(<<x, y>>) = {x, y} /\ Distinct(<<x, y>>)
      BY <3>1, <3>2, Two
    <3> QED
      BY <3>2, <3>3, <3>4
  <2>2. ends \in [1..N -> Seq(Question)]
    BY <2>1
  <2>3. ends[N] = <<Rehearsal!Ask("end", N, 0), Rehearsal!Ask("final", N, 0)>>
    BY <1>1
  <2> HIDE DEF ends
  <2>4. \A j, k \in 1..N : j # k => InRange(ends[j]) \cap InRange(ends[k]) = {}
    BY <2>1
  <2>5. \A k \in 1..N : Distinct(ends[k])
    BY <2>1
  <2>6. /\ \E G \in Seq(Question) : D = G \o ends[N] /\ D \in Seq(Question)
        /\ Distinct(D) /\ InRange(D) = UNION {InRange(ends[k]) : k \in 1..N}
    BY <1>1, <2>2, <2>4, <2>5, FlattenIs
  <2> HIDE DEF D
  <2>7. \A a \in InRange(D) : a.what \in {"end", "final"} /\ a.file = 0
    BY <2>1, <2>6
  <2> QED
    BY <2>3, <2>6, <2>7
<1> HIDE DEF A, B, C, D, start, folders, ends
<1>10. /\ AB \in Seq(Question) /\ Distinct(AB) /\ InRange(AB) = InRange(A) \cup InRange(B)
  <2>1. InRange(A) \cap InRange(B) = {}
    BY <1>6, <1>7
  <2> QED
    BY <1>6, <1>7, <2>1, Concat
<1> HIDE DEF AB
<1>11. /\ ABC \in Seq(Question) /\ Distinct(ABC) /\ InRange(ABC) = InRange(AB) \cup InRange(C)
  <2>1. InRange(AB) \cap InRange(C) = {}
    BY <1>6, <1>7, <1>8, <1>10
  <2> QED
    BY <1>8, <1>10, <2>1, Concat
<1> HIDE DEF ABC
<1>12. /\ Whole \in Seq(Question) /\ Distinct(Whole) /\ InRange(Whole) = InRange(ABC) \cup InRange(D)
  <2>1. InRange(ABC) \cap InRange(D) = {}
    BY <1>6, <1>7, <1>8, <1>9, <1>10, <1>11
  <2>2. D \in Seq(Question) /\ Distinct(D)
    BY <1>9
  <2> QED
    BY <1>11, <2>1, <2>2, Concat
<1>13. \A a \in InRange(Whole) : a.what # "file" => a.file = 0
  BY <1>6, <1>7, <1>8, <1>9, <1>10, <1>11, <1>12
<1>14. /\ Len(Whole) >= 2
       /\ Whole[Len(Whole)] = Rehearsal!Ask("final", N, 0)
       /\ Whole[Len(Whole) - 1] = Rehearsal!Ask("end", N, 0)
  <2> DEFINE T == <<Rehearsal!Ask("end", N, 0), Rehearsal!Ask("final", N, 0)>>
  <2>1. PICK G \in Seq(Question) : D = G \o T
    BY <1>9
  <2>2. Len(T) = 2 /\ T[1] = Rehearsal!Ask("end", N, 0) /\ T[2] = Rehearsal!Ask("final", N, 0) /\ T \in Seq(Question)
    BY <1>1, <1>5
  <2> HIDE DEF T
  <2>3. Len(D) \in Nat /\ Len(D) >= 2 /\ D[Len(D)] = T[2] /\ D[Len(D) - 1] = T[1]
    <3>1. Len(D) \in Nat /\ Len(D) >= 2 /\ D[Len(D)] = T[Len(T)] /\ D[Len(D) - 1] = T[Len(T) - 1]
      <4>1. Len(T) >= 2
        BY <2>2
      <4>2. T \in Seq(Question)
        BY <2>2
      <4> QED
        BY <2>1, <4>1, <4>2, LastTwo, Zenon
    <3> QED
      BY <2>2, <3>1
  <2>4. Len(Whole) >= 2 /\ Whole[Len(Whole)] = D[Len(D)] /\ Whole[Len(Whole) - 1] = D[Len(D) - 1]
    BY <1>9, <1>11, <2>3, LastTwo
  <2> QED
    BY <2>2, <2>3, <2>4
<1>15. \A k \in 1..N : \A i \in Rehearsal!DataFiles(k) : Rehearsal!Ask("file", k, i) \in InRange(Whole)
  BY <1>7, <1>10, <1>11, <1>12
<1> HIDE DEF Whole
<1> QED
  BY <1>2, <1>12, <1>13, <1>14, <1>15 DEF N

Truths == {"true", "false", "error"}
Judged == {"pre", "before", "after", "post", "end"}
Answer == [what : What, folder : Nat, file : Nat, result : Truths \cup {"value", "complete", "done"}, value : Nat]

(* What is printed answers the driver in its order. *)
AnswersInv ==
    /\ out \in Seq(Answer) /\ Len(out) <= Len(Rehearsal!Driver)
    /\ \A i \in 1..Len(out) :
           /\ out[i].what = Rehearsal!Driver[i].what /\ out[i].folder = Rehearsal!Driver[i].folder
           /\ out[i].file = Rehearsal!Driver[i].file
           /\ out[i].what \in Judged => out[i].result \in Truths

(* How far the command and its session are; a session that stopped at a    *)
(* precondition has printed one that is not true.                           *)
CourseInv ==
    /\ committed \in Nat /\ own \in Nat
    /\ session \in {"none", "running", "ended", "failed", "lost", "refused"}
    /\ stage \in {"review", "probe", "run", "over"}
    /\ stage \in {"review", "probe"} => out = <<>> /\ session = "none"
    /\ stage = "run" => session # "none"
    /\ stage = "over" => session # "running"
    /\ stage # "over" => verdict.exit = "none"
    /\ session = "running" => Len(out) < Len(Rehearsal!Driver)
    /\ session = "refused" => \E i \in 1..Len(out) : out[i].what = "pre" /\ out[i].result # "true"

(* What RehearsedIsProven claims of the end of a session. *)
Proven ==
    /\ \A k \in Rehearsal!Folders : \A i \in DOMAIN batch[k] : \E o \in Rehearsal!Of("file", k) : o.file = i
    /\ session = "ended" /\ Len(out) = Len(Rehearsal!Driver)
    /\ \A k \in Rehearsal!Folders, what \in {"pre", "post"} \cup Rehearsal!Metrics :
           \A o \in Rehearsal!Of(what, k) : o.result = "true"
    /\ \A k \in Rehearsal!Folders : \A a \in Rehearsal!Of("start", k), b \in Rehearsal!Of("final", k) :
           a.value = b.value /\ b.result = "value"

LEMMA WorstIs ==
    ASSUME NEW S, Rehearsal!Worst(S) = "true" PROVE "error" \notin S /\ "false" \notin S
  BY DEF Rehearsal!Worst

(* Two answers to the same question are one. *)
LEMMA AnsweredOnce ==
    ASSUME BatchInv, AnswersInv, NEW i \in 1..Len(out), NEW j \in 1..Len(Rehearsal!Driver),
           out[i].what # "file",
           out[i].what = Rehearsal!Driver[j].what, out[i].folder = Rehearsal!Driver[j].folder
    PROVE  i = j
<1> DEFINE D == Rehearsal!Driver
<1>1. D \in Seq(Question) /\ Distinct(D) /\ \A a \in InRange(D) : a.what # "file" => a.file = 0
  BY DriverAsks
<1>2. Len(out) \in Nat /\ Len(D) \in Nat /\ Len(out) <= Len(D) /\ out[i].what = D[i].what /\ out[i].folder = D[i].folder
  BY <1>1 DEF AnswersInv
<1> HIDE DEF D
<1>3. /\ i \in 1..Len(D) /\ j \in 1..Len(D)
      /\ D[i] \in Question /\ D[j] \in Question /\ D[i] \in InRange(D) /\ D[j] \in InRange(D)
  BY <1>1, <1>2 DEF InRange, D
<1>4. D[i].what = D[j].what /\ D[i].folder = D[j].folder
  BY <1>2 DEF D
<1>5. D[i].file = 0 /\ D[j].file = 0
  BY <1>1, <1>2, <1>3, <1>4
<1>6. D[i] = D[j]
  BY <1>3, <1>4, <1>5 DEF Question
<1> QED
  BY <1>1, <1>3, <1>6 DEF Distinct

(* The sets of answers as positions of what was printed. *)
LEMMA OutOf ==
    ASSUME AnswersInv, NEW w, NEW k
    PROVE  /\ \A o \in Rehearsal!Printed(w) : \E i \in 1..Len(out) : o = out[i] /\ out[i].what = w
           /\ \A o \in Rehearsal!Of(w, k) : \E i \in 1..Len(out) : o = out[i] /\ out[i].what = w /\ out[i].folder = k
           /\ \A i \in 1..Len(out) : out[i].what = w /\ out[i].folder = k => out[i] \in Rehearsal!Of(w, k)
           /\ Rehearsal!Of(w, k) \subseteq Rehearsal!Printed(w)
<1>1. DOMAIN out = 1..Len(out)
  BY DEF AnswersInv
<1> QED
  BY <1>1 DEF Rehearsal!Printed, Rehearsal!Of, Rehearsal!ToSet

(* One answer at most has the name and the folder of a question that is not *)
(* a file.                                                                  *)
LEMMA OfOnce ==
    ASSUME BatchInv, AnswersInv, NEW w, w # "file", NEW k,
           NEW a \in Rehearsal!Of(w, k), NEW b \in Rehearsal!Of(w, k)
    PROVE  a = b
<1>1. PICK i \in 1..Len(out) : a = out[i] /\ out[i].what = w /\ out[i].folder = k
  BY OutOf
<1>2. PICK j \in 1..Len(out) : b = out[j] /\ out[j].what = w /\ out[j].folder = k
  BY OutOf
<1>3. /\ j \in 1..Len(Rehearsal!Driver)
      /\ Rehearsal!Driver[j].what = w /\ Rehearsal!Driver[j].folder = k
  <2>1. Len(out) \in Nat /\ Len(Rehearsal!Driver) \in Nat
    BY DriverAsks DEF AnswersInv
  <2> QED
    BY <1>2, <2>1 DEF AnswersInv
<1>4. i = j
  BY <1>1, <1>3, AnsweredOnce
<1> QED
  BY <1>1, <1>2, <1>4

(* An exit 0 is proven.  The metric at the end of the last folder was seen,  *)
(* so that all before it was printed, every file among it; hence the values *)
(* were compared, and the last of them was seen as well.                    *)
LEMMA ProvenEnough ==
    ASSUME BatchInv, AnswersInv, CourseInv, stage = "run", session # "running",
           NEW proof \in Rehearsal!Proofs, Rehearsal!ExitOf(proof) = "rehearsed"
    PROVE  Proven
<1> DEFINE D == Rehearsal!Driver
           N == Len(batch)
<1>1. /\ ~Rehearsal!SessionFailed /\ ~(~Rehearsal!RolledBack /\ session = "ended")
      /\ "error" \notin Rehearsal!CheckResults \cup Rehearsal!MetricResults \cup {proof}
      /\ "false" \notin Rehearsal!CheckResults \cup Rehearsal!MetricResults
      /\ \A k \in Rehearsal!Folders : Rehearsal!DataFiles(k) = DOMAIN batch[k]
      /\ proof = "true"
  BY DEF Rehearsal!ExitOf
<1>2. ASSUME NEW o \in Rehearsal!Printed("pre") \cup Rehearsal!Printed("post") PROVE o.result = "true"
  <2>1. o.result \in Rehearsal!CheckResults
    BY DEF Rehearsal!CheckResults
  <2>2. PICK i \in 1..Len(out) : o = out[i] /\ out[i].what \in {"pre", "post"}
    <3>1. PICK w \in {"pre", "post"} : o \in Rehearsal!Printed(w)
      OBVIOUS
    <3>2. PICK i \in 1..Len(out) : o = out[i] /\ out[i].what = w
      BY <3>1, OutOf
    <3> QED
      BY <3>2
  <2>3. o.result \in Truths
    BY <2>2 DEF AnswersInv, Judged
  <2> QED
    BY <1>1, <2>1, <2>3 DEF Truths
<1>3. session = "ended"
  <2>1. session \in {"ended", "failed", "lost", "refused"}
    BY DEF CourseInv
  <2>2. session \notin {"failed", "lost"}
    BY <1>1, <1>2 DEF Rehearsal!SessionFailed
  <2>3. session # "refused"
    <3> SUFFICES ASSUME session = "refused" PROVE FALSE
      OBVIOUS
    <3>1. PICK i \in 1..Len(out) : out[i].what = "pre" /\ out[i].result # "true"
      BY DEF CourseInv
    <3>2. out[i] \in Rehearsal!Printed("pre")
      BY <3>1, OutOf
    <3> QED
      BY <1>2, <3>1, <3>2
  <2> QED
    BY <2>1, <2>2, <2>3
<1>4. Rehearsal!RolledBack
  BY <1>1, <1>3
<1>5. /\ N \in Nat \ {0} /\ Rehearsal!Folders = 1..N /\ N \in 1..N
  BY DEF BatchInv, Rehearsal!Folders
<1>6. /\ D \in Seq(Question) /\ Distinct(D) /\ Len(D) >= 2 /\ Len(D) \in Nat
      /\ D[Len(D)] = Rehearsal!Ask("final", N, 0) /\ D[Len(D) - 1] = Rehearsal!Ask("end", N, 0)
      /\ \A k \in 1..N : \A i \in Rehearsal!DataFiles(k) : Rehearsal!Ask("file", k, i) \in InRange(D)
  BY DriverAsks
<1>7. /\ Len(out) \in Nat /\ Len(out) <= Len(D)
      /\ \A i \in 1..Len(out) : out[i].what = D[i].what /\ out[i].folder = D[i].folder /\ out[i].file = D[i].file
  BY DEF AnswersInv
<1> HIDE DEF D, N
<1>8. ASSUME NEW w \in {"before", "after", "end"}, NEW k \in 1..N
      PROVE  Rehearsal!Of(w, k) # {} /\ \A o \in Rehearsal!Of(w, k) : o.result = "true"
  <2>1. Rehearsal!MetricResult(w, k) \in Rehearsal!MetricResults
    BY <1>5, <1>8 DEF Rehearsal!MetricResults, Rehearsal!Metrics
  <2>2. Rehearsal!MetricResult(w, k) \notin {"error", "false"}
    BY <1>1, <2>1
  <2>3. Rehearsal!Of(w, k) # {}
    BY <2>2 DEF Rehearsal!MetricResult
  <2>4. ASSUME NEW o \in Rehearsal!Of(w, k) PROVE o.result = "true"
    <3>1. Rehearsal!MetricResult(w, k) = (CHOOSE p \in Rehearsal!Of(w, k) : TRUE).result
      BY <2>3 DEF Rehearsal!MetricResult
    <3>2. (CHOOSE p \in Rehearsal!Of(w, k) : TRUE) = o
      BY <2>3, OfOnce
    <3>3. o.result \notin {"error", "false"}
      BY <2>2, <3>1, <3>2
    <3>4. PICK i \in 1..Len(out) : o = out[i] /\ out[i].what = w
      BY OutOf
    <3>5. o.result \in Truths
      BY <1>8, <3>4 DEF AnswersInv, Judged
    <3> QED
      BY <3>3, <3>5 DEF Truths
  <2> QED
    BY <2>3, <2>4
<1>9. Len(out) >= Len(D) - 1
  <2>1. PICK o \in Rehearsal!Of("end", N) : TRUE
    BY <1>5, <1>8
  <2>2. PICK i \in 1..Len(out) : out[i].what = "end" /\ out[i].folder = N
    BY <2>1, OutOf
  <2>3. Len(D) - 1 \in 1..Len(D) /\ D[Len(D) - 1].what = "end" /\ D[Len(D) - 1].folder = N
    BY <1>6, AskIs
  <2>4. i = Len(D) - 1
    BY <2>2, <2>3, AnsweredOnce DEF D
  <2> QED
    BY <1>7, <2>4
<1>10. ASSUME NEW k \in 1..N, NEW i \in DOMAIN batch[k]
       PROVE  \E o \in Rehearsal!Of("file", k) : o.file = i
  <2>1. Rehearsal!Ask("file", k, i) \in InRange(D)
    BY <1>1, <1>5, <1>6
  <2>2. PICK j \in 1..Len(D) : D[j] = Rehearsal!Ask("file", k, i)
    BY <2>1 DEF InRange
  <2>3. D[j].what = "file" /\ D[j].folder = k /\ D[j].file = i
    BY <2>2, AskIs
  <2>4. D[Len(D)].what = "final"
    BY <1>6, AskIs
  <2>5. j # Len(D)
    BY <2>3, <2>4
  <2>6. j \in 1..Len(out)
    BY <1>6, <1>7, <1>9, <2>5
  <2>7. out[j].what = "file" /\ out[j].folder = k /\ out[j].file = i
    BY <1>7, <2>3, <2>6
  <2>8. out[j] \in Rehearsal!Of("file", k)
    BY <2>6, <2>7, OutOf
  <2> QED
    BY <2>7, <2>8
<1>11. Rehearsal!RanData
  <2>1. 1 \in 1..N /\ 1 \in DOMAIN batch[1]
    BY <1>5 DEF BatchInv, N
  <2>2. PICK o \in Rehearsal!Of("file", 1) : TRUE
    BY <1>10, <2>1
  <2> QED
    BY <2>2, OutOf DEF Rehearsal!RanData
<1>12. ASSUME NEW k \in 1..N
       PROVE  /\ \E o \in Rehearsal!Of("final", k) : o.result = "value"
              /\ \A a \in Rehearsal!Of("start", k), b \in Rehearsal!Of("final", k) : a.value = b.value
  <2>1. proof = Rehearsal!Worst({Rehearsal!ProofInSession} \cup Rehearsal!RollbackMetrics)
    BY <1>4, <1>11 DEF Rehearsal!Proofs
  <2>2. Rehearsal!ProofInSession \notin {"error", "false"}
    BY <1>1, <2>1, WorstIs
  <2>3. Rehearsal!Same(k, Rehearsal!Of("final", k)) \notin {"error", "false"}
    <3> DEFINE Sames == {Rehearsal!Same(q, Rehearsal!Of("final", q)) : q \in Rehearsal!Folders}
    <3>1. Rehearsal!ProofInSession = Rehearsal!Worst(Sames)
      BY DEF Rehearsal!ProofInSession
    <3>2. Rehearsal!Same(k, Rehearsal!Of("final", k)) \in Sames
      BY <1>5
    <3> HIDE DEF Sames
    <3>3. "error" \notin Sames /\ "false" \notin Sames
      BY <2>2, <3>1 DEF Rehearsal!Worst
    <3> QED
      BY <3>2, <3>3
  <2> QED
    BY <2>3 DEF Rehearsal!Same
<1>13. Len(out) = Len(D)
  <2>1. PICK o \in Rehearsal!Of("final", N) : TRUE
    BY <1>5, <1>12
  <2>2. PICK i \in 1..Len(out) : out[i].what = "final" /\ out[i].folder = N
    BY <2>1, OutOf
  <2>3. Len(D) \in 1..Len(D) /\ D[Len(D)].what = "final" /\ D[Len(D)].folder = N
    BY <1>6, AskIs
  <2>4. i = Len(D)
    BY <2>2, <2>3, AnsweredOnce DEF D
  <2> QED
    BY <1>7, <2>4
<1>14. ASSUME NEW k \in 1..N, NEW b \in Rehearsal!Of("final", k) PROVE b.result = "value"
  <2>1. PICK o \in Rehearsal!Of("final", k) : o.result = "value"
    BY <1>12
  <2>2. o = b
    BY OfOnce
  <2> QED
    BY <2>1, <2>2
<1>15. ASSUME NEW k \in 1..N, NEW w \in {"pre", "post"} \cup Rehearsal!Metrics, NEW o \in Rehearsal!Of(w, k)
       PROVE  o.result = "true"
  <2>1. CASE w \in {"pre", "post"}
    BY <1>2, <2>1, OutOf
  <2>2. CASE w \in Rehearsal!Metrics
    BY <1>8, <2>2 DEF Rehearsal!Metrics
  <2> QED
    BY <2>1, <2>2
<1> QED
  BY <1>3, <1>5, <1>10, <1>12, <1>13, <1>14, <1>15 DEF Proven, D

(* The inductive invariant of RehearsedIsProven. *)
RehearsedInv == BatchInv /\ AnswersInv /\ CourseInv /\ (verdict.exit = "rehearsed" => Proven)

LEMMA RehearsedInit == ASSUME Rehearsal!Init PROVE RehearsedInv
<1>1. BatchInv
  <2>1. PICK n \in 1..MaxFolders : batch \in [1..n -> UNION {[1..m -> Rehearsal!Kind] : m \in 1..MaxFiles}]
    BY DEF Rehearsal!Init
  <2>2. n \in Nat \ {0} /\ Len(batch) = n /\ DOMAIN batch = 1..n
    BY <2>1
  <2>3. ASSUME NEW k \in 1..n PROVE Len(batch[k]) \in Nat \ {0} /\ DOMAIN batch[k] = 1..Len(batch[k])
    <3>1. batch[k] \in UNION {[1..m -> Rehearsal!Kind] : m \in 1..MaxFiles}
      BY <2>1
    <3>2. PICK m \in 1..MaxFiles : batch[k] \in [1..m -> Rehearsal!Kind]
      BY <3>1
    <3> QED
      BY <3>2
  <2> QED
    BY <2>2, <2>3 DEF BatchInv
<1>2. Rehearsal!Driver \in Seq(Question)
  BY <1>1, DriverAsks
<1>3. AnswersInv
  <2>1. out = <<>>
    BY DEF Rehearsal!Init
  <2>2. Len(Rehearsal!Driver) \in Nat
    BY <1>2
  <2>3. out \in Seq(Answer) /\ Len(out) = 0
    BY <2>1
  <2> QED
    BY <2>3, <2>2 DEF AnswersInv
<1>4. CourseInv /\ verdict.exit = "none"
  BY DEF Rehearsal!Init, CourseInv
<1> QED
  BY <1>1, <1>3, <1>4 DEF RehearsedInv

LEMMA DriverKept ==
    ASSUME batch' = batch
    PROVE  Rehearsal!Driver' = Rehearsal!Driver /\ (BatchInv => BatchInv') /\ Rehearsal!Folders' = Rehearsal!Folders
  BY DEF Rehearsal!Driver, Rehearsal!Folders, Rehearsal!OfFolder, Rehearsal!DataFiles, Rehearsal!Ask, BatchInv

LEMMA AnswersKept ==
    ASSUME AnswersInv, UNCHANGED <<batch, out>>
    PROVE  AnswersInv'
  BY DriverKept DEF AnswersInv

LEMMA ProvenKept ==
    ASSUME Proven, UNCHANGED <<batch, out, session>>
    PROVE  Proven'
<1>1. \A w, k : Rehearsal!Of(w, k)' = Rehearsal!Of(w, k)
  BY DEF Rehearsal!Of, Rehearsal!Printed, Rehearsal!ToSet
<1> QED
  BY <1>1, DriverKept DEF Proven, Rehearsal!Metrics

(* The session prints the answer to the next question. *)
LEMMA Answered ==
    ASSUME BatchInv, AnswersInv, CourseInv, session = "running", batch' = batch,
           NEW result \in Truths \cup {"value", "complete", "done"}, NEW value \in Nat,
           Rehearsal!Shows(result, value),
           Rehearsal!Next1.what \in Judged => result \in Truths
    PROVE  /\ AnswersInv' /\ Len(out') = Len(out) + 1
           /\ Rehearsal!Next1.what # "final" => Len(out') < Len(Rehearsal!Driver')
           /\ out'[Len(out')].what = Rehearsal!Next1.what /\ out'[Len(out')].result = result
<1> DEFINE D == Rehearsal!Driver
           q == D[Len(out) + 1]
           o == [what |-> q.what, folder |-> q.folder, file |-> q.file, result |-> result, value |-> value]
<1>1. /\ D \in Seq(Question) /\ Len(D) \in Nat /\ D[Len(D)] = Rehearsal!Ask("final", Len(batch), 0)
      /\ Len(out) \in Nat /\ Len(out) < Len(D) /\ out \in Seq(Answer)
  BY DriverAsks DEF AnswersInv, CourseInv
<1>2. q \in Question /\ out' = Append(out, o) /\ Rehearsal!Next1 = q
  BY <1>1 DEF Rehearsal!Shows, Rehearsal!Next1
<1>3. o \in Answer
  BY <1>2 DEF Question, Answer
<1>4. /\ o.what = q.what /\ o.folder = q.folder /\ o.file = q.file /\ o.result = result
  OBVIOUS
<1>5. q = D[Len(out) + 1]
  OBVIOUS
<1> HIDE DEF o, q, D
<1>6. /\ out' \in Seq(Answer) /\ Len(out') = Len(out) + 1 /\ out'[Len(out) + 1] = o
      /\ \A i \in 1..Len(out) : out'[i] = out[i]
  BY <1>1, <1>2, <1>3
<1>7. Rehearsal!Driver' = D
  BY DriverKept DEF D
<1>8. AnswersInv'
  <2> SUFFICES ASSUME NEW i \in 1..Len(out')
               PROVE  /\ out'[i].what = D[i].what /\ out'[i].folder = D[i].folder
                      /\ out'[i].file = D[i].file
                      /\ out'[i].what \in Judged => out'[i].result \in Truths
    BY <1>1, <1>6, <1>7 DEF AnswersInv
  <2>1. CASE i = Len(out) + 1
    BY <1>2, <1>4, <1>6, <1>5, <2>1
  <2>2. CASE i # Len(out) + 1
    <3>1. i \in 1..Len(out)
      BY <1>1, <1>6, <2>2
    <3> QED
      BY <1>6, <3>1 DEF AnswersInv, D
  <2> QED
    BY <2>1, <2>2
<1>9. Rehearsal!Next1.what # "final" => Len(out') < Len(Rehearsal!Driver')
  <2> SUFFICES ASSUME q.what # "final" PROVE Len(out) + 1 < Len(D)
    BY <1>2, <1>6, <1>7
  <2>1. D[Len(D)].what = "final"
    BY <1>1, AskIs
  <2>2. Len(out) + 1 # Len(D)
    BY <1>5, <2>1
  <2> QED
    BY <1>1, <2>2
<1> QED
  BY <1>2, <1>4, <1>6, <1>8, <1>9

LEMMA RehearsedStep == RehearsedInv /\ [Rehearsal!Next]_(Rehearsal!vars) => RehearsedInv'
<1> SUFFICES ASSUME RehearsedInv, [Rehearsal!Next]_(Rehearsal!vars) PROVE RehearsedInv'
  OBVIOUS
<1>1. BatchInv /\ AnswersInv /\ CourseInv /\ (verdict.exit = "rehearsed" => Proven)
  BY DEF RehearsedInv
<1>2. batch' = batch
  BY DEF Rehearsal!Next, Rehearsal!MateCommits, Rehearsal!EditFolder, Rehearsal!Review, Rehearsal!Probe,
         Rehearsal!Conclude, Rehearsal!Kill, Rehearsal!StartValue, Rehearsal!Precondition, Rehearsal!RunFile,
         Rehearsal!Observe, Rehearsal!RollBack, Rehearsal!FinalValue, Rehearsal!LoseSession, Rehearsal!Expire,
         Rehearsal!vars
<1>3. BatchInv' /\ Rehearsal!Driver' = Rehearsal!Driver
  BY <1>1, <1>2, DriverKept
<1>4. Rehearsal!Driver \in Seq(Question) /\ Len(Rehearsal!Driver) \in Nat /\ Len(Rehearsal!Driver) >= 2
  BY <1>1, DriverAsks
\* Steps that print nothing.
<1>5. ASSUME out' = out, CourseInv', verdict' = verdict, session' = session \/ stage # "over" PROVE RehearsedInv'
  <2>1. AnswersInv'
    BY <1>1, <1>2, <1>5, AnswersKept
  <2>2. verdict'.exit = "rehearsed" => Proven'
    <3> SUFFICES ASSUME verdict.exit = "rehearsed" PROVE Proven'
      BY <1>5
    <3>1. stage = "over"
      BY <1>1 DEF CourseInv
    <3> QED
      BY <1>1, <1>2, <1>5, <3>1, ProvenKept
  <2> QED
    BY <1>3, <1>5, <2>1, <2>2 DEF RehearsedInv
\* Steps of the session that print.
<1>6. ASSUME session = "running", AnswersInv', CourseInv', UNCHANGED <<stage, verdict>> PROVE RehearsedInv'
  <2>1. verdict'.exit # "rehearsed"
    BY <1>1, <1>6 DEF CourseInv
  <2> QED
    BY <1>3, <1>6, <2>1 DEF RehearsedInv
<1>7. CASE Rehearsal!MateCommits \/ Rehearsal!EditFolder
  <2>1. CourseInv'
    BY <1>1, <1>3, <1>7 DEF CourseInv, Rehearsal!MateCommits, Rehearsal!EditFolder, Rehearsal!db
  <2> QED
    BY <1>5, <1>7, <2>1 DEF Rehearsal!MateCommits, Rehearsal!EditFolder
<1>8. CASE Rehearsal!Review \/ Rehearsal!Probe
  <2>1. out' = out /\ stage \in {"review", "probe"} /\ out = <<>>
    BY <1>1, <1>8 DEF CourseInv, Rehearsal!Review, Rehearsal!Probe
  <2>2. /\ UNCHANGED <<committed, own>>
        /\ \/ stage' = "over" /\ session' = session
           \/ stage' = "probe" /\ session' = session
           \/ stage' = "run" /\ session' = "running"
        /\ verdict'.exit # "rehearsed" /\ (stage' # "over" => verdict' = verdict)
    <3>1. verdict.exit = "none" /\ session = "none"
      BY <1>1, <2>1 DEF CourseInv
    <3>2. ASSUME NEW code, Rehearsal!Refuse(code) PROVE stage' = "over" /\ verdict'.exit = code
      <4>1. stage' = "over" /\ verdict' = [exit |-> code, proof |-> "not needed"]
        BY <3>2 DEF Rehearsal!Refuse, Rehearsal!End
      <4> QED
        BY <4>1
    <3>3. UNCHANGED <<committed, own>>
      BY <1>8 DEF Rehearsal!Review, Rehearsal!Probe, Rehearsal!db
    <3>4. CASE Rehearsal!Review
      BY <3>1, <3>2, <3>3, <3>4 DEF Rehearsal!Review
    <3>5. CASE Rehearsal!Probe
      BY <3>1, <3>2, <3>3, <3>5 DEF Rehearsal!Probe
    <3> QED
      BY <1>8, <3>4, <3>5
  <2>3. CourseInv' /\ verdict'.exit # "rehearsed"
    BY <1>1, <1>3, <1>4, <2>1, <2>2 DEF CourseInv
  <2>4. AnswersInv'
    BY <1>1, <1>2, <2>1, AnswersKept
  <2> QED
    BY <1>3, <2>3, <2>4 DEF RehearsedInv
<1>9. CASE Rehearsal!Conclude
  <2>1. UNCHANGED <<batch, committed, out, own, session>> /\ stage = "run" /\ session # "running" /\ stage' = "over"
    BY <1>9 DEF Rehearsal!Conclude, Rehearsal!db, Rehearsal!End
  <2>2. PICK proof \in Rehearsal!Proofs : verdict'.exit = Rehearsal!ExitOf(proof) \/ verdict'.exit = "error"
    BY <1>9 DEF Rehearsal!Conclude, Rehearsal!End
  <2>3. verdict'.exit = "rehearsed" => Proven
    BY <1>1, <2>1, <2>2, ProvenEnough
  <2>4. verdict'.exit = "rehearsed" => Proven'
    BY <2>1, <2>3, ProvenKept
  <2>5. AnswersInv'
    BY <1>1, <1>2, <2>1, AnswersKept
  <2>6. CourseInv'
    BY <1>1, <1>3, <2>1 DEF CourseInv
  <2> QED
    BY <1>3, <2>4, <2>5, <2>6 DEF RehearsedInv
<1>10. CASE Rehearsal!Kill \/ Rehearsal!LoseSession \/ Rehearsal!Expire
  <2>1. out' = out /\ verdict' = verdict /\ (session' = session \/ stage # "over")
    BY <1>1, <1>10 DEF CourseInv, Rehearsal!Kill, Rehearsal!LoseSession, Rehearsal!Expire
  <2>2. CourseInv'
    BY <1>1, <1>3, <1>10 DEF CourseInv, Rehearsal!Kill, Rehearsal!LoseSession, Rehearsal!Expire, Rehearsal!db,
       Rehearsal!Stop
  <2> QED
    BY <1>5, <2>1, <2>2
<1>11. ASSUME NEW result \in Truths \cup {"value", "complete", "done"}, NEW value \in Nat,
              session = "running", Rehearsal!Shows(result, value),
              Rehearsal!Next1.what \in Judged => result \in Truths
       PROVE  /\ AnswersInv' /\ Len(out') = Len(out) + 1 /\ Len(out) \in Nat
              /\ Rehearsal!Next1.what # "final" => Len(out') < Len(Rehearsal!Driver')
              /\ out'[Len(out')].what = Rehearsal!Next1.what /\ out'[Len(out')].result = result
  <2>1. Len(out) \in Nat
    BY <1>1 DEF AnswersInv
  <2> QED
    BY <1>1, <1>2, <1>11, <2>1, Answered
<1>12. Rehearsal!Seen \in Nat
  BY <1>1 DEF CourseInv, Rehearsal!Seen
<1>13. CASE Rehearsal!StartValue
  <2>1. session = "running" /\ Rehearsal!Next1.what = "start" /\ UNCHANGED <<committed, stage, verdict>>
    BY <1>13 DEF Rehearsal!StartValue, Rehearsal!db
  <2>2. CASE Rehearsal!SayValue /\ UNCHANGED <<own, session>>
    <3>1. AnswersInv' /\ Len(out') < Len(Rehearsal!Driver')
      BY <1>11, <1>12, <2>1, <2>2 DEF Rehearsal!SayValue, Judged
    <3>2. CourseInv'
      BY <1>1, <2>1, <2>2, <3>1 DEF CourseInv
    <3> QED
      BY <1>6, <2>1, <3>1, <3>2
  <2>3. CASE Rehearsal!Stop("failed") /\ UNCHANGED out
    <3>1. CourseInv'
      BY <1>1, <2>1, <2>3 DEF CourseInv, Rehearsal!Stop
    <3> QED
      BY <1>1, <1>5, <2>1, <2>3, <3>1 DEF CourseInv
  <2> QED
    BY <1>13, <2>2, <2>3 DEF Rehearsal!StartValue
<1>14. CASE Rehearsal!Precondition
  <2>1. session = "running" /\ Rehearsal!Next1.what = "pre" /\ UNCHANGED <<committed, stage, verdict>>
    BY <1>14 DEF Rehearsal!Precondition, Rehearsal!db
  <2>2. PICK truth \in Truths : /\ Rehearsal!Say(truth)
                                /\ IF truth = "true" THEN UNCHANGED <<own, session>> ELSE Rehearsal!Stop("refused")
    BY <1>14 DEF Rehearsal!Precondition, Rehearsal!Truth, Truths
  <2>3. /\ AnswersInv' /\ Len(out') = Len(out) + 1 /\ Len(out) \in Nat /\ Len(out') < Len(Rehearsal!Driver')
        /\ out'[Len(out')].what = "pre" /\ out'[Len(out')].result = truth
    BY <1>11, <2>1, <2>2 DEF Rehearsal!Say
  <2>4. truth # "true" => \E i \in 1..Len(out') : out'[i].what = "pre" /\ out'[i].result # "true"
    BY <2>3
  <2>5. CourseInv'
    BY <1>1, <2>1, <2>2, <2>3, <2>4 DEF CourseInv, Rehearsal!Stop
  <2> QED
    BY <1>6, <2>1, <2>3, <2>5
<1>15. CASE Rehearsal!RunFile
  <2>1. session = "running" /\ Rehearsal!Next1.what = "file" /\ UNCHANGED <<stage, verdict>>
    BY <1>15 DEF Rehearsal!RunFile
  <2>2. CASE Rehearsal!Say("complete") /\ session' = session
    <3>1. AnswersInv' /\ Len(out') < Len(Rehearsal!Driver')
      BY <1>11, <2>1, <2>2 DEF Rehearsal!Say, Judged
    <3>2. committed' \in Nat /\ own' \in Nat
      BY <1>1, <1>15 DEF CourseInv, Rehearsal!RunFile, Rehearsal!Stop
    <3>3. CourseInv'
      BY <1>1, <2>1, <2>2, <3>1, <3>2 DEF CourseInv
    <3> QED
      BY <1>6, <2>1, <3>1, <3>3
  <2>3. CASE Rehearsal!Stop("failed") /\ UNCHANGED <<out, committed>>
    <3>1. CourseInv'
      BY <1>1, <2>1, <2>3 DEF CourseInv, Rehearsal!Stop
    <3> QED
      BY <1>1, <1>5, <2>1, <2>3, <3>1 DEF CourseInv
  <2> QED
    BY <1>15, <2>2, <2>3 DEF Rehearsal!RunFile
<1>16. CASE Rehearsal!Observe
  <2>1. /\ session = "running" /\ Rehearsal!Next1.what \in {"before", "after", "post", "end"}
        /\ UNCHANGED <<committed, own, session, stage, verdict>>
    BY <1>16 DEF Rehearsal!Observe, Rehearsal!db
  <2>2. PICK truth \in Truths : Rehearsal!Say(truth)
    BY <1>16 DEF Rehearsal!Observe, Rehearsal!Truth, Truths
  <2>3. AnswersInv' /\ Len(out') < Len(Rehearsal!Driver')
    BY <1>11, <2>1, <2>2 DEF Rehearsal!Say
  <2>4. CourseInv'
    BY <1>1, <2>1, <2>3 DEF CourseInv
  <2> QED
    BY <1>6, <2>1, <2>3, <2>4
<1>17. CASE Rehearsal!RollBack
  <2>1. /\ session = "running" /\ Rehearsal!Next1.what = "rollback" /\ own' = 0
        /\ UNCHANGED <<committed, session, stage, verdict>>
    BY <1>17 DEF Rehearsal!RollBack, Rehearsal!db
  <2>2. AnswersInv' /\ Len(out') < Len(Rehearsal!Driver')
    BY <1>11, <1>17, <2>1 DEF Rehearsal!RollBack, Rehearsal!Say, Judged
  <2>3. CourseInv'
    BY <1>1, <2>1, <2>2 DEF CourseInv
  <2> QED
    BY <1>6, <2>1, <2>2, <2>3
<1>18. CASE Rehearsal!FinalValue
  <2>1. /\ session = "running" /\ Rehearsal!Next1.what = "final" /\ UNCHANGED <<committed, stage, verdict>>
        /\ IF Len(out) + 1 = Len(Rehearsal!Driver) THEN Rehearsal!Stop("ended") ELSE UNCHANGED <<own, session>>
    BY <1>18 DEF Rehearsal!FinalValue, Rehearsal!db
  <2>2. AnswersInv' /\ Len(out') = Len(out) + 1 /\ Len(out) \in Nat
    BY <1>11, <1>12, <1>18, <2>1 DEF Rehearsal!FinalValue, Rehearsal!Say, Rehearsal!SayValue, Judged, Truths
  <2>3. Len(out) < Len(Rehearsal!Driver)
    BY <1>1, <2>1 DEF CourseInv
  <2>4. CourseInv'
    BY <1>1, <1>3, <1>4, <2>1, <2>2, <2>3 DEF CourseInv, Rehearsal!Stop
  <2> QED
    BY <1>6, <2>1, <2>2, <2>4
<1>19. CASE UNCHANGED Rehearsal!vars
  <2>1. UNCHANGED <<batch, committed, out, own, session, stage, verdict>>
    BY <1>19 DEF Rehearsal!vars, Rehearsal!db
  <2>2. CourseInv'
    BY <1>1, <1>3, <2>1 DEF CourseInv
  <2> QED
    BY <1>5, <2>1, <2>2
<1> QED
  BY <1>7, <1>8, <1>9, <1>10, <1>13, <1>14, <1>15, <1>16, <1>17, <1>18, <1>19 DEF Rehearsal!Next

LEMMA RehearsedEnough == ASSUME RehearsedInv PROVE Rehearsal!RehearsedIsProven
  BY DEF RehearsedInv, Proven, Rehearsal!RehearsedIsProven

-----------------------------------------------------------------------------
(* EnvironmentReadiness: what was compared is what was there.  The sessions *)
(* leave, of every section that was read whole and without a key twice,     *)
(* exactly what the environment held; a comparison that nothing blocks and  *)
(* a script rest on nothing else.  While nobody changes the databases, each *)
(* row that the script is for has a statement or is there.                  *)

ReadyStage ==
    {"source", "source dba", "target", "target dba", "compare", "script", "report", "over"}

CaptureType ==
    [error : BOOLEAN, identity : Databases \cup {None}, complete : SUBSET Readiness!Sections,
     rows : SUBSET Readiness!Row, twice : SUBSET Readiness!Sections, truth : SUBSET Readiness!Row]

ReadyTypes ==
    /\ setup \in Readiness!Setup
    /\ capture \in [Readiness!Side -> CaptureType]
    /\ stage \in ReadyStage
    /\ changes \in Nat
    /\ db = [d \in Databases |-> db[d]]
    /\ stage # "over" => db \in [Databases -> Contents]

Unique(rows) == \A r, q \in rows : Readiness!Key(r) = Readiness!Key(q) => r = q

(* A section that was read whole and in which no key was seen twice is what *)
(* the environment held in scope, each row under a key of its own.          *)
CaptureOf(e, c) ==
    /\ c.identity \in {None, setup.reach[e]}
    /\ c.complete # {} => c.identity # None
    /\ \A s \in c.complete \ c.twice :
         /\ {r \in Readiness!InSections(c.rows, {s}) : s = "object-grants" => r.name \notin Stray}
              = Readiness!InSections(c.truth, {s})
         /\ Unique(Readiness!InSections(c.truth, {s}))
    /\ \A r \in c.truth :
         /\ r \in UNION Contents
         /\ Readiness!InScope(r)
         /\ r.section \in setup.sections \cup {"versions"}
         /\ r.section \in {"object-grants", "roles"} => r.value \in {"plain", "option"}

(* While nobody changes the databases, what was read is what they hold.     *)
TruthIsNow(e, c) == \A r \in c.truth : r \in db[setup.reach[e]]
NowIsTruth(e, c) ==
    \A r \in db[setup.reach[e]] :
        r.section \in c.complete /\ Readiness!InScope(r) => r \in c.truth

(* What the script is to bring to the target, and what is there.            *)
Wanted(r) ==
    /\ r.section \in setup.sections \cap Readiness!DbaCaptureSections
    /\ r.section = "network-aces" => r.value = "grant"
    /\ r.section = "ords" => r.value # "off"
Closed(r) ==
    \E t \in db[setup.reach["target"]] :
        t.section = r.section /\ t.name = r.name /\ t.value \in {r.value, "option"}
Scripted == setup.emit /\ (stage = "report" \/ (stage = "over" /\ verdict \in {0, 1}))

CommandInv ==
    /\ verdict # None => stage = "over"
    /\ verdict \in {0, 1} => ~Readiness!Blocked
    /\ verdict = 0 => Readiness!Different = {}
    /\ stage \in {"script", "report"} => ~Readiness!Blocked
    /\ stage \notin {"report", "over"} => script = {}
    /\ script # {} => ~Readiness!Blocked
    /\ script \subseteq Readiness!Statements

ClosingInv ==
    changes = 0 =>
        /\ stage # "over" =>
             \A e \in Readiness!Side : TruthIsNow(e, capture[e]) /\ NowIsTruth(e, capture[e])
        /\ Scripted => NowIsTruth("source", capture["source"])
        /\ Scripted => \A r \in capture["source"].truth : Wanted(r) => r \in script \/ Closed(r)

ReadyInv ==
    /\ ReadyTypes
    /\ \A e \in Readiness!Side : CaptureOf(e, capture[e])
    /\ CommandInv
    /\ ClosingInv

LEMMA FiniteHere == \A S : Readiness!IsFiniteSet(S) = IsFiniteSet(S)
  BY Zenon DEF Readiness!IsFiniteSet, IsFiniteSet

LEMMA KeySection ==
    \A r, q : Readiness!Key(r) = Readiness!Key(q) =>
        /\ r.section = q.section
        /\ r.section # "network-aces" => r.name = q.name
<1> SUFFICES ASSUME NEW r, NEW q, Readiness!Key(r) = Readiness!Key(q)
             PROVE  r.section = q.section /\ (r.section # "network-aces" => r.name = q.name)
  OBVIOUS
<1>1. /\ Readiness!Key(r).section = r.section /\ Readiness!Key(q).section = q.section
  BY DEF Readiness!Key
<1>2. r.section = q.section
  BY <1>1
<1>3. ASSUME r.section # "network-aces" PROVE r.name = q.name
  <2>1. Readiness!Key(r).name = r.name /\ Readiness!Key(q).name = q.name
    BY <1>2, <1>3 DEF Readiness!Key
  <2> QED
    BY <2>1
<1> QED
  BY <1>2, <1>3

(* What a database can hold, or a part of it.                               *)
Content(rows) ==
    /\ IsFiniteSet(rows) /\ rows \subseteq Readiness!Row /\ rows \subseteq UNION Contents
    /\ \A r, q \in rows : Readiness!Key(r) = Readiness!Key(q) => r.order = q.order
    /\ \A r \in rows : r.section \in {"object-grants", "roles"} => r.value \in {"plain", "option"}

LEMMA PartOfContent ==
    ASSUME NEW rows \in Contents, NEW held \in SUBSET rows PROVE Content(held)
<1>1. Readiness!ConstantsFit
  BY ReadinessAssumption
<1>2. Content(rows)
  BY <1>1, FiniteHere DEF Readiness!ConstantsFit, Content
<1>3. IsFiniteSet(held)
  BY <1>2, FS_Subset DEF Content
<1> QED
  BY <1>2, <1>3 DEF Content

(* However tied rows are exchanged on the pages, a section in which no key  *)
(* was seen twice was seen whole: an injection of a finite set into itself  *)
(* is onto.                                                                 *)
LEMMA SeenWhole ==
    ASSUME NEW rows, Content(rows), NEW f \in Readiness!Shown(rows), NEW s,
           s \notin Readiness!SeenTwice(rows, f)
    PROVE  /\ Readiness!InSections(Readiness!Seen(rows, f), {s}) = Readiness!InSections(rows, {s})
           /\ Unique(Readiness!InSections(rows, {s}))
<1> DEFINE tied == Readiness!Tied(rows)
           T == {r \in tied : r.section = s}
           g == [r \in T |-> f[r]]
<1>1. /\ f \in [tied -> tied]
      /\ \A r \in tied : f[r] \in rows /\ f[r].section = r.section
      /\ tied \subseteq rows
  BY DEF Readiness!Shown, Readiness!Peers, Readiness!Tied
<1>2. \A p, q \in T : p # q => Readiness!Key(f[p]) # Readiness!Key(f[q])
  BY DEF Readiness!SeenTwice
<1>3. g \in Injection(T, T)
  BY <1>1, <1>2 DEF Injection, IsInjective
<1>4. IsFiniteSet(T)
  BY <1>1, FS_Subset DEF Content
<1>5. g \in Surjection(T, T)
  BY <1>3, <1>4, FS_Injection
<1>6. \A r \in T : \E p \in T : f[p] = r
  BY <1>5 DEF Surjection
<1>7. Readiness!InSections(Readiness!Seen(rows, f), {s}) = Readiness!InSections(rows, {s})
  BY <1>1, <1>6 DEF Readiness!InSections, Readiness!Seen
<1>8. ASSUME NEW r \in Readiness!InSections(rows, {s}), NEW q \in Readiness!InSections(rows, {s}),
             Readiness!Key(r) = Readiness!Key(q), r # q
      PROVE  FALSE
  <2>1. r \in rows /\ q \in rows /\ r.section = s /\ q.section = s /\ r.order = q.order
    BY <1>8 DEF Content, Readiness!InSections
  <2>2. r \in T /\ q \in T
    BY <1>8, <2>1 DEF Readiness!Tied, Readiness!Peers
  <2>3. PICK a \in T, b \in T : f[a] = r /\ f[b] = q
    BY <1>6, <2>2
  <2> QED
    BY <1>2, <1>8, <2>3
<1> QED
  BY <1>7, <1>8 DEF Unique

LEMMA SeenIsThere ==
    ASSUME NEW rows, NEW f \in Readiness!Shown(rows)
    PROVE  /\ Readiness!Seen(rows, f) \subseteq rows
           /\ \A s \in Readiness!SeenTwice(rows, f) : \E r \in rows : r.section = s
  BY DEF Readiness!Shown, Readiness!Peers, Readiness!Tied, Readiness!Seen, Readiness!SeenTwice

(* A capture after a session: what it read is as SeenWhole says, and what   *)
(* it did not read is what it was.                                          *)
AsTaken(c, e, sections, read, rows, d) ==
    /\ d \in CaptureType
    /\ d.error = c.error /\ d.identity = c.identity
    /\ d.complete = (c.complete \ sections) \cup read
    /\ \A s \in d.complete \ d.twice :
         \/ /\ s \in read
            /\ Readiness!InSections(d.rows, {s}) = Readiness!InSections(rows, {s})
            /\ Readiness!InSections(d.truth, {s})
                 = {r \in Readiness!InSections(db[setup.reach[e]], {s}) : Readiness!InScope(r)}
            /\ Unique(Readiness!InSections(rows, {s}))
         \/ /\ s \in c.complete \ c.twice /\ s \notin sections
            /\ Readiness!InSections(d.rows, {s}) = Readiness!InSections(c.rows, {s})
            /\ Readiness!InSections(d.truth, {s}) = Readiness!InSections(c.truth, {s})
    /\ d.truth = {r \in c.truth : r.section \notin sections}
                 \cup {r \in db[setup.reach[e]] : r.section \in sections /\ Readiness!InScope(r)}

LEMMA TakenIs ==
    ASSUME ReadyTypes, NEW c \in CaptureType, NEW e \in Readiness!Side,
           NEW sections \in SUBSET Readiness!Sections, NEW read \in SUBSET sections,
           NEW rows, Content(rows), \A r \in rows : r.section \in read,
           Content(db[setup.reach[e]]),
           NEW f \in Readiness!Shown(rows)
    PROVE  AsTaken(c, e, sections, read, rows, Readiness!Taken(c, e, sections, read, rows, f))
<1> DEFINE d == Readiness!Taken(c, e, sections, read, rows, f)
           here == {r \in db[setup.reach[e]] : r.section \in sections /\ Readiness!InScope(r)}
           kept == Readiness!InSections(c.rows, Readiness!Sections \ sections)
<1>1. Readiness!Rows(e, sections, FALSE) = here
  BY DEF Readiness!Rows, Readiness!InSections
<1>2. /\ c.rows \subseteq Readiness!Row /\ c.truth \subseteq Readiness!Row
      /\ c.complete \subseteq Readiness!Sections
      /\ \A r \in Readiness!Row : r.section \in Readiness!Sections
  BY DEF CaptureType, Readiness!Row
<1>3. d = [c EXCEPT !.rows = kept \cup Readiness!Seen(rows, f),
                    !.twice = (c.twice \ sections) \cup Readiness!SeenTwice(rows, f),
                    !.complete = (c.complete \ sections) \cup read,
                    !.truth = Readiness!InSections(c.truth, Readiness!Sections \ sections) \cup here]
  BY <1>1 DEF Readiness!Taken
<1> HIDE DEF d
<1>4. /\ d.rows = kept \cup Readiness!Seen(rows, f)
      /\ d.twice = (c.twice \ sections) \cup Readiness!SeenTwice(rows, f)
      /\ d.complete = (c.complete \ sections) \cup read
      /\ d.truth = Readiness!InSections(c.truth, Readiness!Sections \ sections) \cup here
      /\ d.error = c.error /\ d.identity = c.identity
  BY <1>3 DEF CaptureType
<1>5. d.truth = {r \in c.truth : r.section \notin sections} \cup here
  BY <1>2, <1>4 DEF Readiness!InSections
<1>6. /\ Readiness!Seen(rows, f) \subseteq rows
      /\ Readiness!SeenTwice(rows, f) \subseteq read
  BY SeenIsThere
<1>7. d \in CaptureType
  <2>1. /\ d.rows \subseteq Readiness!Row /\ d.truth \subseteq Readiness!Row
        /\ d.twice \subseteq Readiness!Sections /\ d.complete \subseteq Readiness!Sections
    BY <1>2, <1>4, <1>5, <1>6 DEF Content, CaptureType, Readiness!InSections
  <2> QED
    BY <1>3, <1>4, <2>1 DEF CaptureType
<1>8. ASSUME NEW s \in d.complete \ d.twice, s \in read
      PROVE  /\ Readiness!InSections(d.rows, {s}) = Readiness!InSections(rows, {s})
             /\ Readiness!InSections(d.truth, {s})
                  = {r \in Readiness!InSections(db[setup.reach[e]], {s}) : Readiness!InScope(r)}
             /\ Unique(Readiness!InSections(rows, {s}))
  <2>1. s \notin Readiness!SeenTwice(rows, f)
    BY <1>4, <1>8
  <2>2. /\ Readiness!InSections(Readiness!Seen(rows, f), {s}) = Readiness!InSections(rows, {s})
        /\ Unique(Readiness!InSections(rows, {s}))
    BY <2>1, SeenWhole
  <2>3. Readiness!InSections(d.rows, {s}) = Readiness!InSections(Readiness!Seen(rows, f), {s})
    BY <1>4, <1>8 DEF Readiness!InSections
  <2>4. Readiness!InSections(d.truth, {s})
           = {r \in Readiness!InSections(db[setup.reach[e]], {s}) : Readiness!InScope(r)}
    BY <1>5, <1>8 DEF Readiness!InSections
  <2> QED
    BY <2>2, <2>3, <2>4
<1>9. ASSUME NEW s \in d.complete \ d.twice, s \notin read
      PROVE  /\ s \in c.complete \ c.twice /\ s \notin sections
             /\ Readiness!InSections(d.rows, {s}) = Readiness!InSections(c.rows, {s})
             /\ Readiness!InSections(d.truth, {s}) = Readiness!InSections(c.truth, {s})
  <2>1. s \in c.complete \ c.twice /\ s \notin sections /\ s \in Readiness!Sections
    BY <1>2, <1>4, <1>9
  <2>2. Readiness!InSections(d.rows, {s}) = Readiness!InSections(c.rows, {s})
    BY <1>4, <1>6, <1>9, <2>1 DEF Readiness!InSections
  <2>3. Readiness!InSections(d.truth, {s}) = Readiness!InSections(c.truth, {s})
    BY <1>5, <2>1 DEF Readiness!InSections
  <2> QED
    BY <2>1, <2>2, <2>3
<1> QED
  BY <1>4, <1>5, <1>7, <1>8, <1>9 DEF d, AsTaken

Reading == {"source", "source dba", "target", "target dba"}

(* A session that leaves a capture which knows what it should.              *)
LEMMA ReadingInv ==
    ASSUME ReadyInv, NEW e \in Readiness!Side, NEW d \in CaptureType,
           capture' = [capture EXCEPT ![e] = d],
           UNCHANGED <<db, changes, setup, script, verdict>>,
           stage \in Reading, stage' \in Reading \cup {"compare"},
           CaptureOf(e, d),
           changes = 0 => TruthIsNow(e, d) /\ NowIsTruth(e, d)
    PROVE  ReadyInv'
<1>1. /\ capture' \in [Readiness!Side -> CaptureType]
      /\ \A o \in Readiness!Side : capture'[o] = IF o = e THEN d ELSE capture[o]
      /\ stage # "over" /\ stage' # "over" /\ stage' \in ReadyStage
      /\ stage \notin {"report", "over"} /\ stage' \notin {"report", "over"}
  BY DEF ReadyInv, ReadyTypes, Reading, ReadyStage
<1>2. ReadyTypes'
  BY <1>1 DEF ReadyInv, ReadyTypes
<1>3. \A o \in Readiness!Side : CaptureOf(o, capture[o])'
  BY <1>1 DEF ReadyInv, CaptureOf, Readiness!InScope
<1>4. script' = {} /\ verdict' = None /\ stage' \notin {"script", "report", "over"}
  BY <1>1 DEF ReadyInv, CommandInv, Reading
<1>5. None \notin {0, 1, 2, 130}
  BY ReadinessAssumption DEF Readiness!ConstantsFit
<1>6. CommandInv'
  BY <1>4, <1>5 DEF CommandInv
<1>7. ~Scripted'
  BY <1>4 DEF Scripted
<1>8. ClosingInv'
  BY <1>1, <1>7 DEF ReadyInv, ClosingInv, TruthIsNow, NowIsTruth, Readiness!InScope, Readiness!Side
<1> QED
  BY <1>2, <1>3, <1>6, <1>8 DEF ReadyInv

LEMMA NoneCaptured ==
    /\ Readiness!NotCaptured \in CaptureType
    /\ [Readiness!NotCaptured EXCEPT !.error = TRUE] \in CaptureType
  BY DEF Readiness!NotCaptured, CaptureType

LEMMA ReadyInit == ASSUME Readiness!Init PROVE ReadyInv
<1>1. Readiness!ConstantsFit
  BY ReadinessAssumption
<1>2. /\ db \in [Databases -> Contents] /\ changes = 0 /\ setup \in Setups
      /\ \A e \in Readiness!Side : capture[e] = Readiness!NotCaptured
      /\ capture \in [Readiness!Side -> CaptureType]
      /\ stage = "source" /\ script = {} /\ verdict = None
  BY NoneCaptured DEF Readiness!Init
<1>3. ReadyTypes
  BY <1>1, <1>2 DEF ReadyTypes, ReadyStage, Readiness!ConstantsFit
<1>4. \A e \in Readiness!Side : CaptureOf(e, capture[e])
  BY <1>2 DEF CaptureOf, Readiness!NotCaptured
<1>5. CommandInv
  BY <1>1, <1>2 DEF CommandInv, Readiness!ConstantsFit
<1>6. ClosingInv
  BY <1>2 DEF ClosingInv, TruthIsNow, NowIsTruth, Scripted, Readiness!NotCaptured, Readiness!Side
<1> QED
  BY <1>3, <1>4, <1>5, <1>6 DEF ReadyInv

LEMMA AfterReading ==
    \A e \in Readiness!Side :
        /\ e \in Reading /\ Readiness!DbaStage(e) \in Reading
        /\ Readiness!NextSide(e) \in Reading \cup {"compare"}
        /\ Readiness!AfterBase(e) \in Reading \cup {"compare"}
  BY DEF Readiness!Side, Reading, Readiness!DbaStage, Readiness!NextSide, Readiness!AfterBase

LEMMA BaseFailsInv ==
    ASSUME ReadyInv, NEW e \in Readiness!Side, Readiness!BaseFails(e)
    PROVE  ReadyInv'
<1> DEFINE d == [Readiness!NotCaptured EXCEPT !.error = TRUE]
<1>1. /\ d \in CaptureType /\ d.identity = None /\ d.complete = {} /\ d.truth = {}
      /\ CaptureOf(e, d) /\ TruthIsNow(e, d) /\ NowIsTruth(e, d)
  BY NoneCaptured DEF Readiness!NotCaptured, CaptureOf, TruthIsNow, NowIsTruth
<1>2. /\ capture' = [capture EXCEPT ![e] = d]
      /\ UNCHANGED <<db, changes, setup, script, verdict>>
      /\ stage \in Reading /\ stage' \in Reading \cup {"compare"}
  BY AfterReading DEF Readiness!BaseFails
<1> QED
  BY <1>1, <1>2, ReadingInv

(* What a session reads.                                                    *)
LEMMA Read ==
    ASSUME ReadyInv, stage # "over", NEW e \in Readiness!Side, NEW read, NEW dba \in BOOLEAN
    PROVE  /\ Content(Readiness!Rows(e, read, dba)) /\ Content(db[setup.reach[e]])
           /\ \A r \in Readiness!Rows(e, read, dba) : r.section \in read
           /\ Readiness!Rows(e, read, TRUE) = {r \in db[setup.dbaReach[e]] : r.section \in read}
           /\ Readiness!Rows(e, read, FALSE)
                = {r \in db[setup.reach[e]] : r.section \in read /\ Readiness!InScope(r)}
<1>1. setup.reach[e] \in Databases /\ setup.dbaReach[e] \in Databases
  BY DEF ReadyInv, ReadyTypes, Readiness!Setup
<1>2. db[setup.reach[e]] \in Contents /\ db[setup.dbaReach[e]] \in Contents
  BY <1>1 DEF ReadyInv, ReadyTypes
<1>3. /\ Readiness!Rows(e, read, TRUE) = {r \in db[setup.dbaReach[e]] : r.section \in read}
      /\ Readiness!Rows(e, read, FALSE)
           = {r \in db[setup.reach[e]] : r.section \in read /\ Readiness!InScope(r)}
  BY DEF Readiness!Rows, Readiness!InSections
<1>4. \/ Readiness!Rows(e, read, dba) \in SUBSET db[setup.reach[e]]
      \/ Readiness!Rows(e, read, dba) \in SUBSET db[setup.dbaReach[e]]
  BY <1>3
<1> QED
  BY <1>2, <1>3, <1>4, PartOfContent

LEMMA SectionsSelected ==
    ASSUME ReadyInv
    PROVE  /\ Readiness!NormalSections \subseteq setup.sections \cup {"versions"}
           /\ Readiness!DbaSelected \subseteq setup.sections
           /\ Readiness!NormalSections \subseteq Readiness!Sections
           /\ Readiness!DbaSelected \subseteq Readiness!Sections
           /\ setup.sections \subseteq Readiness!Sections /\ setup.sections # {}
           /\ Readiness!DbaCaptureSections \subseteq Readiness!Sections
  BY DEF ReadyInv, ReadyTypes, Readiness!Setup, Readiness!Selections, Readiness!NormalSections,
         Readiness!DbaSelected, Readiness!Sections, Readiness!DbaCaptureSections

LEMMA BaseCaptureInv ==
    ASSUME ReadyInv, NEW e \in Readiness!Side, Readiness!BaseCapture(e)
    PROVE  ReadyInv'
<1> DEFINE all == Readiness!NormalSections
           here == db[setup.reach[e]]
<1>1. stage = e /\ stage \in Reading /\ stage # "over" /\ stage' \in Reading \cup {"compare"}
  BY AfterReading DEF Readiness!BaseCapture, Reading
<1>2. PICK read \in SUBSET all :
        \E f \in Readiness!Shown(Readiness!Rows(e, read, FALSE)) :
           capture' = [capture EXCEPT ![e] =
             [Readiness!Taken(Readiness!NotCaptured, e, all, read, Readiness!Rows(e, read, FALSE), f)
                EXCEPT !.identity = setup.reach[e]]]
  BY Zenon DEF Readiness!BaseCapture
<1> DEFINE rows == Readiness!Rows(e, read, FALSE)
<1>3. PICK f \in Readiness!Shown(rows) :
           capture' = [capture EXCEPT ![e] =
             [Readiness!Taken(Readiness!NotCaptured, e, all, read, rows, f)
                EXCEPT !.identity = setup.reach[e]]]
  BY <1>2
<1> DEFINE t == Readiness!Taken(Readiness!NotCaptured, e, all, read, rows, f)
           d == [t EXCEPT !.identity = setup.reach[e]]
<1>4. /\ Content(rows) /\ Content(here) /\ \A r \in rows : r.section \in read
      /\ rows = {r \in here : r.section \in read /\ Readiness!InScope(r)}
  BY <1>1, Read
<1>5. /\ all \in SUBSET Readiness!Sections /\ read \in SUBSET all
      /\ all \subseteq setup.sections \cup {"versions"}
  BY <1>2, SectionsSelected
<1>6. ReadyTypes /\ Readiness!NotCaptured \in CaptureType
  BY NoneCaptured DEF ReadyInv
<1>7. /\ t \in CaptureType
      /\ t.complete = read
      /\ \A s \in t.complete \ t.twice :
           /\ s \in read
           /\ Readiness!InSections(t.rows, {s}) = Readiness!InSections(rows, {s})
           /\ Readiness!InSections(t.truth, {s})
                = {r \in Readiness!InSections(here, {s}) : Readiness!InScope(r)}
           /\ Unique(Readiness!InSections(rows, {s}))
      /\ t.truth = {r \in here : r.section \in all /\ Readiness!InScope(r)}
  <2>1. Readiness!NotCaptured.complete = {} /\ Readiness!NotCaptured.truth = {}
    BY DEF Readiness!NotCaptured
  <2>3. f \in Readiness!Shown(rows) /\ Content(db[setup.reach[e]])
    BY <1>3, <1>4
  <2>4. AsTaken(Readiness!NotCaptured, e, all, read, rows, t)
    <3> HIDE DEF rows, all
    <3> QED
      BY <1>4, <1>5, <1>6, <2>3, TakenIs
  <2> HIDE DEF rows, t, all
  <2> QED
    BY <2>1, <2>4 DEF AsTaken
<1> HIDE DEF t
<1>8. setup.reach[e] \in Databases /\ None \notin Databases
  BY ReadinessAssumption DEF ReadyInv, ReadyTypes, Readiness!Setup, Readiness!ConstantsFit
<1>9. /\ d \in CaptureType /\ d.identity = setup.reach[e] /\ d.complete = t.complete
      /\ d.rows = t.rows /\ d.truth = t.truth /\ d.twice = t.twice
  BY <1>7, <1>8 DEF CaptureType
<1> HIDE DEF d
<1>10. ASSUME NEW s \in d.complete \ d.twice
       PROVE  /\ {r \in Readiness!InSections(d.rows, {s}) : s = "object-grants" => r.name \notin Stray}
                   = Readiness!InSections(d.truth, {s})
              /\ Unique(Readiness!InSections(d.truth, {s}))
  <2>1. /\ s \in read /\ Readiness!InSections(d.rows, {s}) = Readiness!InSections(rows, {s})
        /\ Readiness!InSections(d.truth, {s})
             = {r \in Readiness!InSections(here, {s}) : Readiness!InScope(r)}
        /\ Unique(Readiness!InSections(rows, {s}))
    BY <1>7, <1>9
  <2>2. Readiness!InSections(rows, {s}) = {r \in Readiness!InSections(here, {s}) : Readiness!InScope(r)}
    BY <1>4, <2>1 DEF Readiness!InSections
  <2>3. \A r \in Readiness!InSections(rows, {s}) : s = "object-grants" => r.name \notin Stray
    BY <1>4 DEF Readiness!InSections, Readiness!InScope, Readiness!ScopedSections
  <2> QED
    BY <2>1, <2>2, <2>3
<1>11. CaptureOf(e, d)
  <2>1. ASSUME NEW r \in d.truth
        PROVE  /\ r \in UNION Contents /\ Readiness!InScope(r)
               /\ r.section \in setup.sections \cup {"versions"}
               /\ r.section \in {"object-grants", "roles"} => r.value \in {"plain", "option"}
    BY <1>4, <1>5, <1>7, <1>9 DEF Content
  <2> QED
    BY <1>8, <1>9, <1>10, <2>1 DEF CaptureOf
<1>12. TruthIsNow(e, d) /\ NowIsTruth(e, d)
  BY <1>5, <1>7, <1>9 DEF TruthIsNow, NowIsTruth
<1> QED
  <2>1. capture' = [capture EXCEPT ![e] = d] /\ UNCHANGED <<db, changes, setup, script, verdict>>
    BY <1>3 DEF d, t, Readiness!BaseCapture
  <2> QED
    BY <1>1, <1>9, <1>11, <1>12, <2>1, ReadingInv

LEMMA DbaUnmerged ==
    ASSUME ReadyInv, NEW e \in Readiness!Side,
           stage = Readiness!DbaStage(e), stage' = Readiness!NextSide(e),
           capture' = [capture EXCEPT ![e] = [capture[e] EXCEPT !.error = TRUE]],
           UNCHANGED <<db, changes, setup, script, verdict>>
    PROVE  ReadyInv'
<1> DEFINE c == capture[e]
           d == [c EXCEPT !.error = TRUE]
<1>1. /\ c \in CaptureType /\ CaptureOf(e, c)
      /\ stage \in Reading /\ stage' \in Reading \cup {"compare"} /\ stage # "over"
  BY AfterReading DEF ReadyInv, ReadyTypes, Reading
<1>2. /\ d \in CaptureType /\ d.identity = c.identity /\ d.complete = c.complete
      /\ d.rows = c.rows /\ d.truth = c.truth /\ d.twice = c.twice
  BY <1>1 DEF CaptureType
<1>3. capture' = [capture EXCEPT ![e] = d]
  OBVIOUS
<1>4. changes = 0 => TruthIsNow(e, c) /\ NowIsTruth(e, c)
  BY <1>1 DEF ReadyInv, ClosingInv
<1> HIDE DEF c, d
<1>5. CaptureOf(e, d)
  BY <1>1, <1>2 DEF CaptureOf
<1>6. changes = 0 => TruthIsNow(e, d) /\ NowIsTruth(e, d)
  BY <1>2, <1>4 DEF TruthIsNow, NowIsTruth
<1> QED
  BY <1>1, <1>2, <1>3, <1>5, <1>6, ReadingInv

LEMMA DbaFailsInv ==
    ASSUME ReadyInv, NEW e \in Readiness!Side, Readiness!DbaFails(e)
    PROVE  ReadyInv'
<1>1. /\ capture \in [Readiness!Side -> CaptureType]
      /\ capture' = [capture EXCEPT ![e].error = TRUE]
      /\ stage = Readiness!DbaStage(e) /\ stage' = Readiness!NextSide(e)
      /\ UNCHANGED <<db, changes, setup, script, verdict>>
  BY DEF Readiness!DbaFails, ReadyInv, ReadyTypes
<1>2. capture' = [capture EXCEPT ![e] = [capture[e] EXCEPT !.error = TRUE]]
  BY <1>1
<1> QED
  BY <1>1, <1>2, DbaUnmerged

(* What the alias saw of the environment's own database takes the place of  *)
(* what the environment saw of the same sections.                           *)
LEMMA MergedOf ==
    ASSUME ReadyInv, stage # "over", NEW e \in Readiness!Side,
           setup.dbaReach[e] = setup.reach[e], capture[e].identity # None,
           NEW read \in SUBSET Readiness!DbaSelected,
           NEW d,
           AsTaken(capture[e], e, Readiness!DbaSelected, read, Readiness!Rows(e, read, TRUE), d)
    PROVE  /\ CaptureOf(e, d)
           /\ changes = 0 => TruthIsNow(e, d) /\ NowIsTruth(e, d)
<1> DEFINE all == Readiness!DbaSelected
           here == db[setup.reach[e]]
           rows == Readiness!Rows(e, read, TRUE)
           c == capture[e]
<1>1. /\ c \in CaptureType /\ CaptureOf(e, c)
      /\ changes = 0 => TruthIsNow(e, c) /\ NowIsTruth(e, c)
  BY DEF ReadyInv, ReadyTypes, ClosingInv
<1>2. /\ Content(here) /\ rows = {r \in here : r.section \in read}
  BY Read
<1>3. /\ d.identity = c.identity
      /\ d.complete = (c.complete \ all) \cup read
      /\ \A s \in d.complete \ d.twice :
           \/ /\ s \in read
              /\ Readiness!InSections(d.rows, {s}) = Readiness!InSections(rows, {s})
              /\ Readiness!InSections(d.truth, {s})
                   = {r \in Readiness!InSections(here, {s}) : Readiness!InScope(r)}
              /\ Unique(Readiness!InSections(rows, {s}))
           \/ /\ s \in c.complete \ c.twice /\ s \notin all
              /\ Readiness!InSections(d.rows, {s}) = Readiness!InSections(c.rows, {s})
              /\ Readiness!InSections(d.truth, {s}) = Readiness!InSections(c.truth, {s})
      /\ d.truth = {r \in c.truth : r.section \notin all}
                   \cup {r \in here : r.section \in all /\ Readiness!InScope(r)}
  BY DEF AsTaken
<1>4. c.identity # None
  OBVIOUS
<1>5. /\ all \subseteq setup.sections /\ all \subseteq Readiness!DbaCaptureSections
      /\ read \subseteq all
  BY DEF Readiness!DbaSelected
<1> HIDE DEF all, here, rows, c
<1>6. ASSUME NEW s \in d.complete \ d.twice
      PROVE  /\ {r \in Readiness!InSections(d.rows, {s}) : s = "object-grants" => r.name \notin Stray}
                  = Readiness!InSections(d.truth, {s})
             /\ Unique(Readiness!InSections(d.truth, {s}))
  <2>1. CASE s \in read /\ Readiness!InSections(d.rows, {s}) = Readiness!InSections(rows, {s})
             /\ Readiness!InSections(d.truth, {s})
                  = {r \in Readiness!InSections(here, {s}) : Readiness!InScope(r)}
             /\ Unique(Readiness!InSections(rows, {s}))
    <3>1. Readiness!InSections(rows, {s}) = Readiness!InSections(here, {s})
      BY <1>2, <2>1 DEF Readiness!InSections
    <3>2. \A r \in Readiness!InSections(here, {s}) :
             Readiness!InScope(r) <=> (s = "object-grants" => r.name \notin Stray)
      BY <1>5, <2>1 DEF Readiness!InSections, Readiness!InScope, Readiness!ScopedSections,
                        Readiness!DbaCaptureSections, Readiness!DbaSections
    <3>3. Unique(Readiness!InSections(d.truth, {s}))
      BY <2>1, <3>1 DEF Unique
    <3> QED
      BY <2>1, <3>1, <3>2, <3>3
  <2>2. CASE s \in c.complete \ c.twice
             /\ Readiness!InSections(d.rows, {s}) = Readiness!InSections(c.rows, {s})
             /\ Readiness!InSections(d.truth, {s}) = Readiness!InSections(c.truth, {s})
    BY <1>1, <2>2 DEF CaptureOf
  <2> QED
    BY <1>3, <2>1, <2>2
<1>7. ASSUME NEW r \in d.truth
      PROVE  /\ r \in UNION Contents /\ Readiness!InScope(r)
             /\ r.section \in setup.sections \cup {"versions"}
             /\ r.section \in {"object-grants", "roles"} => r.value \in {"plain", "option"}
  <2>1. CASE r \in c.truth
    BY <1>1, <2>1 DEF CaptureOf
  <2>2. CASE r \in here /\ r.section \in all /\ Readiness!InScope(r)
    BY <1>2, <1>5, <2>2 DEF Content
  <2> QED
    BY <1>3, <2>1, <2>2
<1>8. d.identity \in {None, setup.reach[e]}
  BY <1>1, <1>3 DEF CaptureOf
<1>9. CaptureOf(e, d)
  BY <1>3, <1>4, <1>6, <1>7, <1>8 DEF CaptureOf
<1>10. changes = 0 => TruthIsNow(e, d) /\ NowIsTruth(e, d)
  BY <1>1, <1>3, <1>5 DEF TruthIsNow, NowIsTruth, here
<1> QED
  BY <1>9, <1>10

LEMMA DbaCaptureInv ==
    ASSUME ReadyInv, NEW e \in Readiness!Side, Readiness!DbaCapture(e)
    PROVE  ReadyInv'
<1> DEFINE all == Readiness!DbaSelected
           c == capture[e]
<1>1. /\ stage = Readiness!DbaStage(e) /\ stage' = Readiness!NextSide(e)
      /\ stage \in Reading /\ stage # "over" /\ stage' \in Reading \cup {"compare"}
      /\ UNCHANGED <<db, changes, setup, script, verdict>>
  BY AfterReading DEF Readiness!DbaCapture, Reading
<1>2. PICK missing \in SUBSET (all \cap {"ords"}) :
        \E f \in Readiness!Shown(Readiness!Rows(e, all \ missing, TRUE)) :
          capture' = [capture EXCEPT ![e] =
            Readiness!Merge(capture[e], e, all \ missing, Readiness!Rows(e, all \ missing, TRUE), f)]
  BY Zenon DEF Readiness!DbaCapture
<1> DEFINE read == all \ missing
           rows == Readiness!Rows(e, read, TRUE)
<1>3. PICK f \in Readiness!Shown(rows) :
        capture' = [capture EXCEPT ![e] = Readiness!Merge(c, e, read, rows, f)]
  BY <1>2
<1>4. CASE ~Readiness!SameScope(c.identity, setup.dbaReach[e])
  <2>1. Readiness!Merge(c, e, read, rows, f) = [c EXCEPT !.error = TRUE]
    BY <1>4 DEF Readiness!Merge
  <2>2. capture' = [capture EXCEPT ![e] = [capture[e] EXCEPT !.error = TRUE]]
    BY <1>3, <2>1
  <2> QED
    BY <1>1, <2>2, DbaUnmerged
<1>5. CASE Readiness!SameScope(c.identity, setup.dbaReach[e])
  <2> DEFINE d == Readiness!Taken(c, e, all, read, rows, f)
  <2>1. capture' = [capture EXCEPT ![e] = d]
    BY <1>3, <1>5 DEF Readiness!Merge
  <2>2. c \in CaptureType /\ CaptureOf(e, c) /\ ReadyTypes
    BY DEF ReadyInv, ReadyTypes
  <2>3. c.identity # None /\ setup.dbaReach[e] = setup.reach[e]
    BY <1>5, <2>2 DEF Readiness!SameScope, CaptureOf
  <2>4. /\ Content(rows) /\ Content(db[setup.reach[e]]) /\ \A r \in rows : r.section \in read
    BY <1>1, Read
  <2>5. all \in SUBSET Readiness!Sections /\ read \in SUBSET all
    BY SectionsSelected
  <2>6. AsTaken(c, e, all, read, rows, d)
    <3> HIDE DEF all, read, rows, c
    <3> QED
      BY <1>3, <2>2, <2>4, <2>5, TakenIs
  <2> HIDE DEF d
  <2>7. d \in CaptureType
    BY <2>6 DEF AsTaken
  <2>8. CaptureOf(e, d) /\ (changes = 0 => TruthIsNow(e, d) /\ NowIsTruth(e, d))
    BY <1>1, <2>3, <2>5, <2>6, MergedOf
  <2> QED
    BY <1>1, <2>1, <2>7, <2>8, ReadingInv
<1> QED
  BY <1>4, <1>5

(* Nothing blocks: the two captures know each selected section, under keys  *)
(* of its own, and two databases.                                           *)
LEMMA Unblocked ==
    ASSUME ReadyInv, ~Readiness!Blocked
    PROVE  /\ setup.reach["source"] # setup.reach["target"]
           /\ \A e \in Readiness!Side, s \in setup.sections :
                /\ s \in capture[e].complete
                /\ Readiness!Found(e, s) = Readiness!TruthOf(e, s)
                /\ Unique(Readiness!TruthOf(e, s))
<1>1. \A e \in Readiness!Side : CaptureOf(e, capture[e])
  BY DEF ReadyInv
<1>2. \A e \in Readiness!Side, s \in setup.sections :
        s \in capture[e].complete \ capture[e].twice
  BY DEF Readiness!Blocked, Readiness!SectionBlocked
<1>3. \A e \in Readiness!Side, s \in setup.sections :
        /\ Readiness!Found(e, s) = Readiness!TruthOf(e, s)
        /\ Unique(Readiness!TruthOf(e, s))
  BY <1>1, <1>2 DEF CaptureOf, Readiness!Found, Readiness!TruthOf
<1>4. \A e \in Readiness!Side : capture[e].complete # {}
  BY <1>2, SectionsSelected
<1>5. \A e \in Readiness!Side :
        capture[e].identity # None /\ capture[e].identity = setup.reach[e]
  BY <1>1, <1>4 DEF CaptureOf
<1>6. setup.reach["source"] # setup.reach["target"]
  BY <1>5 DEF Readiness!Blocked, Readiness!SameScope, Readiness!Side
<1> QED
  BY <1>2, <1>3, <1>6

(* A row of the source in a compared section is found, and found alone.     *)
LEMMA FoundAlone ==
    ASSUME ReadyInv, ~Readiness!Blocked
    PROVE  /\ \A r \in Readiness!Statements :
                r \in capture["source"].truth /\ r.section \in setup.sections
           /\ \A r \in capture["source"].truth :
                r.section \in setup.sections => r \in Readiness!Found("source", r.section)
           /\ \A r, q \in capture["source"].truth :
                r.section \in setup.sections /\ Readiness!Key(r) = Readiness!Key(q) => r = q
<1>1. "source" \in Readiness!Side
  BY DEF Readiness!Side
<1>2. \A s \in setup.sections :
        /\ Readiness!Found("source", s) = Readiness!TruthOf("source", s)
        /\ Unique(Readiness!TruthOf("source", s))
  BY <1>1, Unblocked
<1>3. \A s : \A r : r \in Readiness!TruthOf("source", s)
                    <=> r \in capture["source"].truth /\ r.section = s
  BY DEF Readiness!TruthOf, Readiness!InSections
<1>4. \A r \in Readiness!Statements : \E s \in setup.sections : r \in Readiness!Found("source", s)
  BY DEF Readiness!Statements
<1>5. ASSUME NEW r \in capture["source"].truth, NEW q \in capture["source"].truth,
             r.section \in setup.sections, Readiness!Key(r) = Readiness!Key(q)
      PROVE  r = q
  <2>1. q.section = r.section
    BY <1>5, KeySection
  <2> QED
    BY <1>2, <1>3, <1>5, <2>1 DEF Unique
<1> QED
  BY <1>2, <1>3, <1>4, <1>5

(* A step of the command that reads nothing.                                *)
LEMMA CommandStep ==
    ASSUME ReadyInv, UNCHANGED <<db, changes, setup, capture>>,
           stage # "over", stage' \in ReadyStage, CommandInv',
           Scripted' /\ changes = 0 =>
               \A r \in capture["source"].truth : Wanted(r) => r \in script' \/ Closed(r)
    PROVE  ReadyInv'
<1>1. ReadyTypes'
  BY DEF ReadyInv, ReadyTypes
<1>2. \A e \in Readiness!Side : CaptureOf(e, capture[e])'
  BY DEF ReadyInv, CaptureOf, Readiness!InScope
<1>3. \A e \in Readiness!Side :
        /\ TruthIsNow(e, capture[e]) => TruthIsNow(e, capture[e])'
        /\ NowIsTruth(e, capture[e]) => NowIsTruth(e, capture[e])'
  BY DEF TruthIsNow, NowIsTruth, Readiness!InScope
<1>4. \A r : (Wanted(r)' <=> Wanted(r)) /\ (Closed(r)' <=> Closed(r))
  BY DEF Wanted, Closed
<1>5. ClosingInv'
  BY <1>3, <1>4 DEF ReadyInv, ClosingInv, Readiness!Side
<1> QED
  BY <1>1, <1>2, <1>5 DEF ReadyInv

LEMMA SameComparison ==
    ASSUME UNCHANGED <<setup, capture>>
    PROVE  /\ Readiness!Blocked' <=> Readiness!Blocked
           /\ Readiness!Different' = Readiness!Different
           /\ Readiness!Statements' = Readiness!Statements
<1>1. \A e, s : Readiness!Found(e, s)' = Readiness!Found(e, s)
  BY DEF Readiness!Found
<1>2. \A s : Readiness!SectionBlocked(s)' <=> Readiness!SectionBlocked(s)
  BY <1>1 DEF Readiness!SectionBlocked
<1>3. \A r : Readiness!Statement(r)' <=> Readiness!Statement(r)
  BY <1>1 DEF Readiness!Statement, Readiness!Missing, Readiness!Upgrade
<1>4. Readiness!Blocked' <=> Readiness!Blocked
  BY <1>2 DEF Readiness!Blocked
<1>5. Readiness!Different' = Readiness!Different
  BY <1>1 DEF Readiness!Different
<1>6. Readiness!Statements' = Readiness!Statements
  BY <1>1, <1>3 DEF Readiness!Statements
<1> QED
  BY <1>4, <1>5, <1>6

LEMMA Verdicts ==
    /\ None \notin {0, 1, 2, 130}
    /\ Readiness!ExitCode \in {0, 1, 2}
    /\ Readiness!ExitCode \in {0, 1} => ~Readiness!Blocked
    /\ Readiness!ExitCode = 0 => Readiness!Different = {}
  BY ReadinessAssumption DEF Readiness!ConstantsFit, Readiness!ExitCode

LEMMA CompareInv ==
    ASSUME ReadyInv, Readiness!Compare PROVE ReadyInv'
<1>1. /\ stage = "compare" /\ UNCHANGED <<db, changes, setup, capture, script>>
      /\ stage # "over" /\ script = {} /\ verdict = None
  BY DEF Readiness!Compare, ReadyInv, CommandInv
<1>2. CASE setup.emit /\ ~Readiness!Blocked
  <2>1. stage' = "script" /\ verdict' = verdict
    BY <1>2 DEF Readiness!Compare
  <2>2. CommandInv'
    BY <1>1, <1>2, <2>1, SameComparison, Verdicts DEF CommandInv
  <2> QED
    BY <1>1, <2>1, <2>2, CommandStep DEF Scripted, ReadyStage
<1>3. CASE ~(setup.emit /\ ~Readiness!Blocked)
  <2>1. stage' = "over" /\ verdict' = Readiness!ExitCode
    BY <1>3 DEF Readiness!Compare
  <2>2. CommandInv'
    BY <1>1, <2>1, SameComparison, Verdicts DEF CommandInv
  <2>3. ~Scripted'
    BY <1>1, <1>3, <2>1, Verdicts DEF Scripted
  <2> QED
    BY <1>1, <2>1, <2>2, <2>3, CommandStep DEF ReadyStage
<1> QED
  BY <1>2, <1>3

(* What has no statement is there already.                                  *)
LEMMA NoStatementNeeded ==
    ASSUME ReadyInv, ~Readiness!Blocked, TruthIsNow("target", capture["target"]),
           NEW r \in capture["source"].truth, Wanted(r), ~Readiness!Statement(r)
    PROVE  Closed(r)
<1> DEFINE there == Readiness!Found("target", r.section)
<1>1. r.section \in setup.sections /\ r.section \in Readiness!DbaCaptureSections
  BY DEF Wanted
<1>2. \A t \in there : t \in db[setup.reach["target"]] /\ t.section = r.section
                      /\ (t.section \in {"object-grants", "roles"} => t.value \in {"plain", "option"})
  <2>1. there = Readiness!TruthOf("target", r.section) /\ CaptureOf("target", capture["target"])
    BY <1>1, Unblocked DEF ReadyInv, Readiness!Side
  <2> QED
    BY <2>1 DEF Readiness!TruthOf, Readiness!InSections, TruthIsNow, CaptureOf
<1>3. CASE r.section \in {"object-grants", "roles"}
  <2>1. r.value \in {"plain", "option"}
    BY <1>3 DEF ReadyInv, CaptureOf, Readiness!Side
  <2>2. PICK t \in there : Readiness!Key(t) = Readiness!Key(r)
    BY <1>3 DEF Readiness!Statement, Readiness!Missing
  <2>3. r.value = "option" => t.value = "option"
    BY <1>3, <2>2 DEF Readiness!Statement, Readiness!Upgrade
  <2>4. t.name = r.name
    BY <1>2, <1>3, <2>2, KeySection
  <2> QED
    BY <1>2, <1>3, <2>1, <2>3, <2>4 DEF Closed
<1>4. CASE r.section = "network-aces"
  <2>1. PICK t \in there : Readiness!Key(t) = Readiness!Key(r)
    BY <1>4 DEF Readiness!Statement, Readiness!Missing, Wanted
  <2>2. t = r
    BY <1>2, <1>4, <2>1 DEF Readiness!Key
  <2> QED
    BY <1>2, <2>2 DEF Closed
<1>5. CASE r.section = "ords"
  <2>1. r \in there
    BY <1>5 DEF Readiness!Statement, Wanted
  <2> QED
    BY <1>2, <2>1 DEF Closed
<1> QED
  BY <1>1, <1>3, <1>4, <1>5 DEF Readiness!DbaCaptureSections, Readiness!DbaSections

LEMMA WriteScriptInv ==
    ASSUME ReadyInv, Readiness!WriteScript PROVE ReadyInv'
<1>1. /\ stage = "script" /\ stage' = "report" /\ script' = Readiness!Statements
      /\ UNCHANGED <<db, changes, setup, capture, verdict>>
      /\ verdict = None /\ ~Readiness!Blocked
  BY DEF Readiness!WriteScript, ReadyInv, CommandInv
<1>2. CommandInv'
  BY <1>1, SameComparison, Verdicts DEF CommandInv
<1>3. ASSUME changes = 0, NEW r \in capture["source"].truth, Wanted(r)
      PROVE  r \in script' \/ Closed(r)
  <2>1. TruthIsNow("target", capture["target"])
    BY <1>1, <1>3 DEF ReadyInv, ClosingInv, Readiness!Side
  <2>2. r.section \in setup.sections /\ r \in Readiness!Found("source", r.section)
    BY <1>1, <1>3, FoundAlone DEF Wanted
  <2>3. CASE Readiness!Statement(r)
    BY <1>1, <2>2, <2>3 DEF Readiness!Statements
  <2>4. CASE ~Readiness!Statement(r)
    BY <1>1, <1>3, <2>1, <2>4, NoStatementNeeded
  <2> QED
    BY <2>3, <2>4
<1> QED
  BY <1>1, <1>2, <1>3, CommandStep DEF ReadyStage

LEMMA ReportInv ==
    ASSUME ReadyInv, Readiness!Report PROVE ReadyInv'
<1>1. /\ stage = "report" /\ stage' = "over" /\ verdict' = Readiness!ExitCode
      /\ UNCHANGED <<db, changes, setup, capture, script>>
  BY DEF Readiness!Report
<1>2. CommandInv'
  BY <1>1, SameComparison, Verdicts DEF ReadyInv, CommandInv
<1>3. Scripted' => Scripted
  BY <1>1 DEF Scripted
<1> QED
  BY <1>1, <1>2, <1>3, CommandStep DEF ReadyInv, ClosingInv, ReadyStage

LEMMA EndsInv ==
    ASSUME ReadyInv, Readiness!ScriptNotWritten \/ Readiness!Interrupted PROVE ReadyInv'
<1>1. /\ stage # "over" /\ stage' = "over" /\ verdict' \in {2, 130}
      /\ UNCHANGED <<db, changes, setup, capture, script>>
  BY DEF Readiness!ScriptNotWritten, Readiness!Interrupted
<1>2. CommandInv'
  BY <1>1, SameComparison DEF ReadyInv, CommandInv
<1>3. ~Scripted'
  BY <1>1 DEF Scripted
<1> QED
  BY <1>1, <1>2, <1>3, CommandStep DEF ReadyStage

(* A statement takes nothing away from the target but a row of its own key, *)
(* and what it was to bring is there.                                       *)
LEMMA AfterStatement ==
    ASSUME NEW rows, NEW q
    PROVE  /\ \E t \in Readiness!After(rows, q) :
                t.section = q.section /\ t.name = q.name /\ t.value \in {q.value, "option"}
           /\ \A t \in rows :
                \/ t \in Readiness!After(rows, q)
                \/ Readiness!Key(t) = Readiness!Key(q) /\ t.section # "network-aces"
<1>1. CASE q.section = "network-aces"
  <2> DEFINE taken == {t.order : t \in Readiness!InSections(rows, {q.section})}
             n == CHOOSE n \in 1 .. Readiness!Cardinality(taken) + 1 : n \notin taken
             new == [q EXCEPT !.order = n]
  <2>1. Readiness!After(rows, q) = rows \cup {new}
    BY <1>1 DEF Readiness!After
  <2> HIDE DEF n
  <2>2. new.section = q.section /\ new.name = q.name /\ new.value = q.value
    OBVIOUS
  <2> QED
    BY <2>1, <2>2
<1>2. CASE q.section # "network-aces"
  <2> DEFINE old == {t \in rows : Readiness!Key(t) = Readiness!Key(q)}
  <2>1. \A t \in old : t.section = q.section /\ t.name = q.name
    BY <1>2, KeySection
  <2>2. \/ Readiness!After(rows, q) = rows /\ \E t \in old : t.value = "option"
        \/ Readiness!After(rows, q) = (rows \ old) \cup {q}
    BY <1>2 DEF Readiness!After
  <2> QED
    BY <1>2, <2>1, <2>2
<1> QED
  BY <1>1, <1>2

LEMMA RunStatementInv ==
    ASSUME ReadyInv, Readiness!RunStatement PROVE ReadyInv'
<1> DEFINE target == setup.reach["target"]
           source == setup.reach["source"]
<1>1. PICK q \in script :
        /\ script' = script \ {q}
        /\ db' = [db EXCEPT ![target] = Readiness!After(@, q)]
  BY DEF Readiness!RunStatement
<1>2. stage = "over" /\ UNCHANGED <<changes, setup, capture, stage, verdict>>
  BY DEF Readiness!RunStatement
<1>3. /\ ~Readiness!Blocked /\ q \in Readiness!Statements /\ source # target
  BY <1>1, Unblocked DEF ReadyInv, CommandInv
<1>4. /\ target \in Databases /\ source \in Databases
      /\ db' = [d \in Databases |-> db'[d]]
      /\ db'[target] = Readiness!After(db[target], q)
      /\ db'[source] = db[source]
  <2>1. target \in Databases /\ source \in Databases /\ db = [d \in Databases |-> db[d]]
    BY DEF ReadyInv, ReadyTypes, Readiness!Setup, Readiness!Side
  <2> QED
    BY <1>1, <1>3, <2>1
<1>5. ReadyTypes'
  BY <1>2, <1>4 DEF ReadyInv, ReadyTypes
<1>6. \A e \in Readiness!Side : CaptureOf(e, capture[e])'
  BY <1>2 DEF ReadyInv, CaptureOf, Readiness!InScope
<1>7. CommandInv'
  BY <1>1, <1>2, SameComparison DEF ReadyInv, CommandInv
<1>8. NowIsTruth("source", capture["source"]) => NowIsTruth("source", capture["source"])'
  BY <1>2, <1>4 DEF NowIsTruth, Readiness!InScope
<1>9. ASSUME NEW r \in capture["source"].truth, Wanted(r), r \in script \/ Closed(r)
      PROVE  r \in script' \/ Closed(r)'
  <2>1. CASE r = q
    BY <1>2, <1>4, <2>1, AfterStatement DEF Closed
  <2>2. CASE r # q /\ r \in script
    BY <1>1, <2>2
  <2>3. CASE r # q /\ Closed(r)
    <3>1. PICK t \in db[target] :
            t.section = r.section /\ t.name = r.name /\ t.value \in {r.value, "option"}
      BY <2>3 DEF Closed
    <3>2. ~(Readiness!Key(t) = Readiness!Key(q) /\ t.section # "network-aces")
      <4>1. SUFFICES ASSUME Readiness!Key(t) = Readiness!Key(q), t.section # "network-aces"
                     PROVE  FALSE
        OBVIOUS
      <4>2. q.section = r.section /\ q.name = r.name
        BY <3>1, <4>1, KeySection
      <4>3. Readiness!Key(r) = Readiness!Key(q)
        BY <3>1, <4>1, <4>2 DEF Readiness!Key
      <4> QED
        BY <1>3, <1>9, <2>3, <4>3, FoundAlone DEF Wanted
    <3>3. t \in Readiness!After(db[target], q)
      BY <3>2, AfterStatement
    <3> QED
      BY <1>2, <1>4, <3>1, <3>3 DEF Closed
  <2> QED
    BY <1>9, <2>1, <2>2, <2>3
<1>10. \A r : Wanted(r)' <=> Wanted(r)
  BY <1>2 DEF Wanted
<1>11. Scripted' <=> Scripted
  BY <1>2 DEF Scripted
<1>12. ClosingInv'
  BY <1>2, <1>8, <1>9, <1>10, <1>11 DEF ReadyInv, ClosingInv
<1> QED
  BY <1>5, <1>6, <1>7, <1>12 DEF ReadyInv

LEMMA ChangeInv ==
    ASSUME ReadyInv, Readiness!Change PROVE ReadyInv'
<1>1. PICK d \in Databases, rows \in Contents : db' = [db EXCEPT ![d] = rows]
  BY DEF Readiness!Change
<1>2. changes' = changes + 1 /\ UNCHANGED <<setup, capture, stage, script, verdict>>
  BY DEF Readiness!Change
<1>3. ReadyTypes'
  BY <1>1, <1>2 DEF ReadyInv, ReadyTypes
<1>4. \A e \in Readiness!Side : CaptureOf(e, capture[e])'
  BY <1>2 DEF ReadyInv, CaptureOf, Readiness!InScope
<1>5. CommandInv'
  BY <1>2, SameComparison DEF ReadyInv, CommandInv
<1>6. ClosingInv'
  BY <1>2 DEF ReadyInv, ReadyTypes, ClosingInv
<1> QED
  BY <1>3, <1>4, <1>5, <1>6 DEF ReadyInv

LEMMA ReadyStep ==
    ASSUME ReadyInv, [Readiness!Next]_(Readiness!vars) PROVE ReadyInv'
<1>1. ASSUME NEW e \in Readiness!Side, Readiness!BaseCapture(e) PROVE ReadyInv'
  BY <1>1, BaseCaptureInv
<1>2. ASSUME NEW e \in Readiness!Side, Readiness!BaseFails(e) PROVE ReadyInv'
  BY <1>2, BaseFailsInv
<1>3. ASSUME NEW e \in Readiness!Side, Readiness!DbaCapture(e) PROVE ReadyInv'
  BY <1>3, DbaCaptureInv
<1>4. ASSUME NEW e \in Readiness!Side, Readiness!DbaFails(e) PROVE ReadyInv'
  BY <1>4, DbaFailsInv
<1>5. CASE Readiness!Compare
  BY <1>5, CompareInv
<1>6. CASE Readiness!WriteScript
  BY <1>6, WriteScriptInv
<1>7. CASE Readiness!ScriptNotWritten \/ Readiness!Interrupted
  BY <1>7, EndsInv
<1>8. CASE Readiness!Report
  BY <1>8, ReportInv
<1>9. CASE Readiness!RunStatement
  BY <1>9, RunStatementInv
<1>10. CASE Readiness!Change
  BY <1>10, ChangeInv
<1>11. CASE UNCHANGED Readiness!vars
  <2>1. UNCHANGED <<db, changes, setup, capture, stage, script, verdict>>
    BY <1>11 DEF Readiness!vars
  <2>2. ReadyTypes' /\ (Scripted' <=> Scripted)
    BY <2>1 DEF ReadyInv, ReadyTypes, Scripted
  <2>3. \A e \in Readiness!Side :
          /\ CaptureOf(e, capture[e])'
          /\ TruthIsNow(e, capture[e])' <=> TruthIsNow(e, capture[e])
          /\ NowIsTruth(e, capture[e])' <=> NowIsTruth(e, capture[e])
    BY <2>1 DEF ReadyInv, CaptureOf, TruthIsNow, NowIsTruth, Readiness!InScope
  <2>4. CommandInv'
    BY <2>1, SameComparison DEF ReadyInv, CommandInv
  <2>5. \A r : (Wanted(r)' <=> Wanted(r)) /\ (Closed(r)' <=> Closed(r))
    BY <2>1 DEF Wanted, Closed
  <2>6. ClosingInv'
    BY <2>1, <2>2, <2>3, <2>5 DEF ReadyInv, ClosingInv, Readiness!Side
  <2> QED
    BY <2>2, <2>3, <2>4, <2>6 DEF ReadyInv
<1> QED
  BY <1>1, <1>2, <1>3, <1>4, <1>5, <1>6, <1>7, <1>8, <1>9, <1>10, <1>11 DEF Readiness!Next

LEMMA ReadyEnough ==
    ASSUME ReadyInv
    PROVE  Readiness!ReadyIsSeen /\ Readiness!NothingInvented /\ Readiness!ScriptCloses
<1>1. ASSUME verdict = 0
      PROVE  /\ setup.reach["source"] # setup.reach["target"]
             /\ \A s \in setup.sections : Readiness!TruthOf("source", s) = Readiness!TruthOf("target", s)
             /\ Readiness!TruthOf("target", "invalid-objects") = {}
  <2>1. ~Readiness!Blocked /\ Readiness!Different = {}
    BY <1>1 DEF ReadyInv, CommandInv
  <2>2. \A s \in setup.sections :
          /\ Readiness!Found("source", s) = Readiness!Found("target", s)
          /\ s = "invalid-objects" => Readiness!Found("target", s) = {}
    BY <2>1 DEF Readiness!Different, Readiness!Blocked, Readiness!SectionBlocked, Readiness!Side
  <2>3. Readiness!TruthOf("target", "invalid-objects") = {}
    <3>1. CASE "invalid-objects" \in setup.sections
      BY <2>1, <2>2, <3>1, Unblocked DEF Readiness!Side
    <3>2. CASE "invalid-objects" \notin setup.sections
      BY <3>2 DEF ReadyInv, CaptureOf, Readiness!TruthOf, Readiness!InSections, Readiness!Side
    <3> QED
      BY <3>1, <3>2
  <2> QED
    BY <2>1, <2>2, <2>3, Unblocked DEF Readiness!Side
<1>2. ASSUME NEW r \in script
      PROVE  /\ r.section \in setup.sections /\ Readiness!InScope(r)
             /\ r \in capture["source"].truth
             /\ \A t \in Readiness!TruthOf("target", r.section) :
                    Readiness!Key(t) = Readiness!Key(r) => t.value \notin {r.value, "option"}
  <2>1. ~Readiness!Blocked /\ r \in Readiness!Statements
    BY <1>2 DEF ReadyInv, CommandInv
  <2>2. r \in capture["source"].truth /\ r.section \in setup.sections
    BY <2>1, FoundAlone
  <2>3. Readiness!InScope(r) /\ (r.section \in {"object-grants", "roles"} => r.value \in {"plain", "option"})
    BY <2>2 DEF ReadyInv, CaptureOf, Readiness!Side
  <2>4. Readiness!Found("target", r.section) = Readiness!TruthOf("target", r.section)
    BY <2>1, <2>2, Unblocked DEF Readiness!Side
  <2>5. ASSUME NEW t \in Readiness!TruthOf("target", r.section),
               Readiness!Key(t) = Readiness!Key(r)
        PROVE  t.value \notin {r.value, "option"}
    <3>1. t \in Readiness!Found("target", r.section) /\ t.section = r.section
      BY <2>4, <2>5 DEF Readiness!TruthOf, Readiness!InSections
    <3>2. Readiness!Statement(r)
      BY <2>1 DEF Readiness!Statements
    <3>3. CASE r.section \in {"object-grants", "roles"}
      <4>1. Readiness!Upgrade(r)
        BY <2>5, <3>1, <3>2, <3>3 DEF Readiness!Statement, Readiness!Missing
      <4>2. PICK u \in Readiness!Found("target", r.section) :
              Readiness!Key(u) = Readiness!Key(r) /\ u.value # "option" /\ r.value = "option"
        BY <4>1 DEF Readiness!Upgrade
      <4>3. u = t
        BY <2>1, <2>2, <2>4, <2>5, <4>2, Unblocked DEF Unique, Readiness!Side
      <4> QED
        BY <4>2, <4>3
    <3>4. CASE r.section = "network-aces"
      BY <2>5, <3>1, <3>2, <3>4 DEF Readiness!Statement, Readiness!Missing
    <3>5. CASE r.section = "ords"
      <4>1. /\ r \in Readiness!Row /\ r \in UNION Contents
            /\ t \in Readiness!Row /\ t \in UNION Contents
        BY <2>2, <2>5 DEF ReadyInv, ReadyTypes, CaptureType, CaptureOf, Readiness!TruthOf,
                          Readiness!InSections, Readiness!Side
      <4>2. t.order = r.order /\ t.value # "option"
        BY <2>5, <3>1, <3>5, <4>1, ReadinessAssumption DEF Readiness!ConstantsFit
      <4>3. t.name = r.name
        BY <2>5, <3>1, <3>5, KeySection
      <4>4. t.value = r.value => t = r
        BY <3>1, <4>1, <4>2, <4>3 DEF Readiness!Row
      <4>5. r \notin Readiness!Found("target", r.section)
        BY <3>2, <3>5 DEF Readiness!Statement
      <4> QED
        BY <3>1, <4>2, <4>4, <4>5
    <3> QED
      BY <3>2, <3>3, <3>4, <3>5 DEF Readiness!Statement
  <2> QED
    BY <2>2, <2>3, <2>5
<1>3. ASSUME verdict \in {0, 1}, setup.emit, script = {}, changes = 0,
             NEW r \in db[setup.reach["source"]],
             r.section \in setup.sections \cap Readiness!DbaCaptureSections,
             Readiness!InScope(r), r.section = "network-aces" => r.value = "grant",
             r.section = "ords" => r.value # "off"
      PROVE  Closed(r)
  <2>1. stage = "over" /\ ~Readiness!Blocked
    BY <1>3, Verdicts DEF ReadyInv, CommandInv
  <2>2. Scripted
    BY <1>3, <2>1 DEF Scripted
  <2>3. r.section \in capture["source"].complete
    BY <1>3, <2>1, Unblocked DEF Readiness!Side
  <2>4. r \in capture["source"].truth
    BY <1>3, <2>2, <2>3 DEF ReadyInv, ClosingInv, NowIsTruth
  <2>5. Wanted(r)
    BY <1>3 DEF Wanted
  <2> QED
    BY <1>3, <2>2, <2>4, <2>5 DEF ReadyInv, ClosingInv
<1> QED
  BY <1>1, <1>2, <1>3 DEF Readiness!ReadyIsSeen, Readiness!NothingInvented, Readiness!ScriptCloses,
                          Closed, Readiness!InSections

-----------------------------------------------------------------------------
(* The behaviours of Environment: each is one of one part.                  *)

LEMMA LegacyHolds == Spec => [](part = "legacy" => LegacyInv)
<1> DEFINE P == part = "legacy" => LegacyInv
<1>1. Init => P
  BY LegacyInit DEF Init, InitData, InitLegacy, InitRehearsal, InitReadiness
<1>2. P /\ [Next]_vars => P'
  <2> SUFFICES ASSUME P, [Next]_vars, part' = "legacy" PROVE LegacyInv'
    OBVIOUS
  <2>1. part = "legacy"
    BY DEF Next, StepData, StepLegacy, StepRehearsal, StepReadiness, vars
  <2>2. [Legacy!Next]_(Legacy!vars)
    BY <2>1
       DEF Next, StepData, StepLegacy, StepRehearsal, StepReadiness, vars, Legacy!vars, Legacy!world,
           Legacy!facts
  <2> QED
    BY <2>1, <2>2, LegacyStep
<1> QED
  BY <1>1, <1>2, PTL DEF Spec

LEMMA DataHolds == Spec => [](part = "data" => DataInv /\ RowsInv)
<1> DEFINE P == part = "data" => DataInv /\ RowsInv
<1>1. Init => P
  BY DataInit, RowsInit DEF Init, InitData, InitLegacy, InitRehearsal, InitReadiness
<1>2. P /\ [Next]_vars => P'
  <2> SUFFICES ASSUME P, [Next]_vars, part' = "data" PROVE DataInv' /\ RowsInv'
    OBVIOUS
  <2>1. part = "data"
    BY DEF Next, StepData, StepLegacy, StepRehearsal, StepReadiness, vars
  <2>2. [Data!Next]_(Data!vars)
    BY <2>1 DEF Next, StepData, StepLegacy, StepRehearsal, StepReadiness, vars, Data!vars
  <2> QED
    BY <2>1, <2>2, DataStep, RowsStep
<1> QED
  BY <1>1, <1>2, PTL DEF Spec

LEMMA RehearsalHolds == Spec => [](part = "rehearsal" => RehearsalInv /\ RehearsedInv)
<1> DEFINE P == part = "rehearsal" => RehearsalInv /\ RehearsedInv
<1>1. Init => P
  BY RehearsalInit, RehearsedInit DEF Init, InitData, InitLegacy, InitRehearsal, InitReadiness
<1>2. P /\ [Next]_vars => P'
  <2> SUFFICES ASSUME P, [Next]_vars, part' = "rehearsal" PROVE RehearsalInv' /\ RehearsedInv'
    OBVIOUS
  <2>1. part = "rehearsal"
    BY DEF Next, StepData, StepLegacy, StepRehearsal, StepReadiness, vars
  <2>2. [Rehearsal!Next]_(Rehearsal!vars)
    BY <2>1 DEF Next, StepData, StepLegacy, StepRehearsal, StepReadiness, vars, Rehearsal!vars, Rehearsal!db
  <2> QED
    BY <2>1, <2>2, RehearsalStep, RehearsedStep
<1> QED
  BY <1>1, <1>2, PTL DEF Spec

LEMMA ReadinessHolds == Spec => [](part = "readiness" => ReadyInv)
<1> DEFINE P == part = "readiness" => ReadyInv
<1>1. Init => P
  BY ReadyInit DEF Init, InitData, InitLegacy, InitRehearsal, InitReadiness
<1>2. P /\ [Next]_vars => P'
  <2> SUFFICES ASSUME P, [Next]_vars, part' = "readiness" PROVE ReadyInv'
    OBVIOUS
  <2>1. part = "readiness"
    BY DEF Next, StepData, StepLegacy, StepRehearsal, StepReadiness, vars
  <2>2. [Readiness!Next]_(Readiness!vars)
    BY <2>1 DEF Next, StepData, StepLegacy, StepRehearsal, StepReadiness, vars, Readiness!vars
  <2> QED
    BY <2>1, <2>2, ReadyStep
<1> QED
  BY <1>1, <1>2, PTL DEF Spec

(* A build takes the rows of one export, all of them and none of another,   *)
(* and no older export than the last that had begun when it started to read *)
(* (_data_export_guard, _read_exported_reference_data of baseline.py).      *)
THEOREM OneExportTaken == Spec => []TakesOneExport
<1>1. (part = "data" => DataInv /\ RowsInv) => TakesOneExport
  BY OneExport DEF TakesOneExport
<1> QED
  BY <1>1, DataHolds, PTL

(* While nobody changes the target, a row that a data folder inserts refers *)
(* to the row with the label that the source's row referred to, whatever    *)
(* ids the two schemas gave them, and what was there stays                  *)
(* (_reference_data_bundle of baseline.py).                                 *)
THEOREM InsertsReferByLabel == Spec => []RefersByLabel
<1>1. (part = "data" => DataInv /\ RowsInv) => RefersByLabel
  BY RowsEnough DEF RefersByLabel
<1> QED
  BY <1>1, DataHolds, PTL

(* What rollouts of one manifest record is true, however they race: a       *)
(* receipt stands for a step that ran with the input it names, each has one *)
(* owner, and no step runs before the ones before it (_run_legacy_rollout). *)
THEOREM ProgressRecorded == Spec => []ProgressIsTrue
<1>1. (part = "legacy" => LegacyInv) => ProgressIsTrue
  BY LegacyEnough DEF ProgressIsTrue
<1> QED
  BY <1>1, LegacyHolds, PTL

(* Whatever fails, is lost or is killed, everybody else sees exactly what   *)
(* the teammates committed (rehearse of migration_rehearsal.py).            *)
THEOREM NothingIsLeft == Spec => []LeavesNoTrace
<1>1. (part = "rehearsal" => RehearsalInv /\ RehearsedInv) => LeavesNoTrace
  BY DEF RehearsalInv, LeavesNoTrace
<1> QED
  BY <1>1, RehearsalHolds, PTL

(* Exit 0 of a rehearsal: every file is a data file that ran to its end,    *)
(* every check and metric was seen to be true, and the session rolled back  *)
(* by itself and saw its starting values again (rehearse_batch and          *)
(* _rollback_proof_in_session of migration_rehearsal.py).                   *)
THEOREM ExitIsProven == Spec => []RehearsedIsProven
<1>1. (part = "rehearsal" => RehearsalInv /\ RehearsedInv) => RehearsedIsProven
  BY RehearsedEnough DEF RehearsedIsProven
<1> QED
  BY <1>1, RehearsalHolds, PTL

(* Exit 0 of compare-env: of every selected section the two environments    *)
(* held the same, each when it was read, nothing in it was invalid and they *)
(* are two databases, whatever pages were mixed up, aliases led elsewhere   *)
(* or sections could not be read (main_compare_env and                      *)
(* compare_environment_catalogs of compare_schema.py).                      *)
THEOREM ReadyIsProven == Spec => []ReadyIsSeen
<1>1. (part = "readiness" => ReadyInv) => ReadyIsSeen
  BY ReadyEnough DEF ReadyIsSeen
<1> QED
  BY <1>1, ReadinessHolds, PTL

(* The script of compare-env (emit_dba_script of compare_schema.py).  A     *)
(* statement stands for something that the source had, in scope, and that   *)
(* the target was without, each when it was read.  While nobody else        *)
(* changes the two databases, the whole script, its statements run in any   *)
(* order, leaves the target without none of the privileges, granting ACEs   *)
(* and ORDS mappings of the source.                                         *)
THEOREM ScriptIsProven == Spec => []ScriptIsRight
<1>1. (part = "readiness" => ReadyInv) => ScriptIsRight
  BY ReadyEnough DEF ScriptIsRight, Readiness!ScriptIsRight
<1> QED
  BY <1>1, ReadinessHolds, PTL

=============================================================================
