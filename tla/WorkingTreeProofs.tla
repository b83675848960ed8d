--------------------------- MODULE WorkingTreeProofs ---------------------------
(***************************************************************************)
(* Theorems of WorkingTree, for every set of mirrors, commands, shells,    *)
(* migration folders and template versions: what replacing a mirror keeps, *)
(* that an attempt stays on record, that archives and indexes agree, and   *)
(* what a template upgrade keeps.                                          *)
(***************************************************************************)
EXTENDS WorkingTree, FiniteSetTheorems, TLAPS

-----------------------------------------------------------------------------
(* The shape of the constants *)

\* A schema mirror holds its ords mirror, and is in no other.
LEMMA DestFacts ==
    ASSUME NEW d \in Dest
    PROVE  /\ d \in M!Within(d) /\ M!Within(d) \subseteq Dest
           /\ Parent[d] \in Dest \cup {NoDest} /\ NoDest \notin Dest
           /\ \A e \in Dest : Parent[d] # NoDest /\ Parent[d] \in M!Within(e) => Parent[d] = e
    BY MirrorAssumption DEF M!ConstantsFit, M!Within

\* The pairs of a call have nothing in common.
LEMMA PairFacts ==
    ASSUME NEW c \in Command
    PROVE  /\ Len(Pairs[c]) \in Nat /\ Len(Pairs[c]) >= 1 /\ M!PairSet(c) = 1 .. Len(Pairs[c])
           /\ \A p \in M!PairSet(c) : Pairs[c][p] \in Dest /\ Pairs[c][p] \in M!Area(c, p)
           /\ \A p \in M!PairSet(c) : M!Area(c, p) \subseteq Dest /\ M!Area(c, p) \subseteq M!Dests(c)
           /\ \A p, q \in M!PairSet(c) : Parent[Pairs[c][p]] \notin M!Area(c, q)
           /\ \A p, q \in M!PairSet(c) : p # q => M!Area(c, p) \cap M!Area(c, q) = {}
           /\ c \notin {"absent", "first", "edit", "mixed"} /\ c # NoCommand
  <1> DEFINE s == Pairs[c]
  <1>1. s \in Seq(Dest) /\ s # <<>>
    BY MirrorAssumption DEF M!ConstantsFit
  <1>2. /\ Len(s) \in Nat /\ Len(s) >= 1 /\ DOMAIN s = 1 .. Len(s)
        /\ \A p \in DOMAIN s : s[p] \in Dest
    BY <1>1
  <1>3. \A p, q \in DOMAIN s : p # q => s[p] # s[q] /\ Parent[s[p]] # s[q]
    BY MirrorAssumption DEF M!ConstantsFit
  <1>4. \A p \in DOMAIN s : s[p] \in M!Within(s[p]) /\ M!Within(s[p]) \subseteq Dest
    BY <1>2, DestFacts
  <1>5. \A p, q \in DOMAIN s : Parent[s[p]] \notin M!Within(s[q])
    <2> TAKE p, q \in DOMAIN s
    <2> SUFFICES ASSUME Parent[s[p]] \in M!Within(s[q]) PROVE FALSE
      OBVIOUS
    <2>1. s[p] \in Dest /\ s[q] \in Dest
      BY <1>2
    <2>2. Parent[s[p]] # NoDest
      BY <2>1, DestFacts DEF M!Within
    <2>3. Parent[s[p]] = s[q]
      BY <2>1, <2>2, DestFacts
    <2>4. p = q
      BY <1>3, <2>3
    <2> QED
      BY <2>1, <2>2, <2>3, <2>4, MirrorAssumption DEF M!ConstantsFit
  <1>6. \A p, q \in DOMAIN s : p # q => M!Within(s[p]) \cap M!Within(s[q]) = {}
    <2> TAKE p, q \in DOMAIN s
    <2> SUFFICES ASSUME p # q, NEW d \in M!Within(s[p]), d \in M!Within(s[q]) PROVE FALSE
      OBVIOUS
    <2>1. s[p] # s[q] /\ Parent[s[p]] # s[q] /\ Parent[s[q]] # s[p]
      BY <1>3
    <2> QED
      BY <2>1 DEF M!Within
  <1>7. \A p \in DOMAIN s : M!Within(s[p]) \subseteq M!Dests(c)
    BY DEF M!Dests, M!PairSet
  <1>8. c \notin {"absent", "first", "edit", "mixed"} /\ c # NoCommand
    BY MirrorAssumption DEF M!ConstantsFit
  <1> QED
    BY <1>2, <1>4, <1>5, <1>6, <1>7, <1>8 DEF M!PairSet, M!Area

\* What is in a call's destinations is in one of its pairs.
LEMMA InOnePair ==
    ASSUME NEW c \in Command, NEW d \in M!Dests(c)
    PROVE  \E p \in M!PairSet(c) : d \in M!Area(c, p)
    BY DEF M!Dests, M!Area

\* Of every pair, the destination and the schema mirror around it are locked.
LEMMA LockFacts ==
    ASSUME NEW c \in Command
    PROVE  /\ \A k \in M!LockPlaces(c) : k \in Nat /\ M!LockAt(c, k) \in Dest
           /\ M!Locks(c) \subseteq Dest
           /\ \A p \in M!PairSet(c) : Pairs[c][p] \in M!Locks(c)
           /\ \A p \in M!PairSet(c) : Parent[Pairs[c][p]] # NoDest => Parent[Pairs[c][p]] \in M!Locks(c)
           /\ 1 \in M!LockPlaces(c)
  <1>1. /\ Len(Pairs[c]) \in Nat /\ Len(Pairs[c]) >= 1 /\ M!PairSet(c) = 1 .. Len(Pairs[c])
        /\ \A p \in M!PairSet(c) : Pairs[c][p] \in Dest
    BY PairFacts
  <1>2. \A k \in 1 .. 2 * Len(Pairs[c]) : (k + 1) \div 2 \in M!PairSet(c)
    BY <1>1
  <1>3. \A k \in M!LockPlaces(c) : k \in Nat /\ M!LockAt(c, k) \in Dest
    <2> TAKE k \in M!LockPlaces(c)
    <2>1. k \in 1 .. 2 * Len(Pairs[c]) /\ M!LockAt(c, k) # NoDest
      BY DEF M!LockPlaces
    <2>2. Pairs[c][(k + 1) \div 2] \in Dest
      BY <1>1, <1>2, <2>1
    <2>3. Parent[Pairs[c][(k + 1) \div 2]] \in Dest \cup {NoDest}
      BY <2>2, DestFacts
    <2>4. k \in Nat
      BY <1>1, <2>1
    <2> QED
      BY <2>1, <2>2, <2>3, <2>4 DEF M!LockAt
  <1>4. ASSUME NEW p \in M!PairSet(c)
        PROVE  /\ Pairs[c][p] \in M!Locks(c)
               /\ Parent[Pairs[c][p]] # NoDest => Parent[Pairs[c][p]] \in M!Locks(c)
               /\ p = 1 => 1 \in M!LockPlaces(c)
    <2> DEFINE n == Len(Pairs[c])
    <2>0. n \in Nat /\ p \in Nat /\ 1 <= p /\ p <= n
      BY <1>1
    <2> HIDE DEF n
    <2>1. /\ 2 * p - 1 \in 1 .. 2 * n /\ 2 * p \in 1 .. 2 * n
          /\ ((2 * p - 1) + 1) \div 2 = p /\ (2 * p - 1) % 2 = 1
          /\ (2 * p + 1) \div 2 = p /\ (2 * p) % 2 # 1
      BY <2>0
    <2>2. M!LockAt(c, 2 * p - 1) = Pairs[c][p] /\ M!LockAt(c, 2 * p) = Parent[Pairs[c][p]]
      BY <2>1 DEF M!LockAt
    <2>3. Pairs[c][p] # NoDest
      BY <1>1, DestFacts
    <2>4. 2 * p - 1 \in M!LockPlaces(c) /\ (Parent[Pairs[c][p]] # NoDest => 2 * p \in M!LockPlaces(c))
      BY <2>1, <2>2, <2>3 DEF M!LockPlaces, n
    <2>5. p = 1 => 2 * p - 1 = 1
      OBVIOUS
    <2> QED
      BY <2>2, <2>4, <2>5 DEF M!Locks
  <1>5. 1 \in M!LockPlaces(c)
    BY <1>1, <1>4
  <1>6. M!Locks(c) \subseteq Dest
    BY <1>3 DEF M!Locks
  <1> QED
    BY <1>3, <1>4, <1>5, <1>6

-----------------------------------------------------------------------------
(* Types and bounds *)

LEMMA TypeInit == ASSUME M!Init PROVE M!TypeOK /\ M!InBounds
  <1>1. Dest # {} => M!Absent \in M!Content \cup {M!Absent} /\ "first" \in M!Content
    BY DEF M!Content
  <1>2. M!InBounds
    BY DEF M!Init, M!InBounds, M!Working, M!Moving
  <1>3. M!TypeOK
    BY <1>1
       DEF M!Init, M!TypeOK, M!First, M!PC, M!LockFile, M!NoLock,
           M!Content
  <1> QED
    BY <1>2, <1>3

\* The other commands are where they were.
LEMMA BoundsFrame ==
    ASSUME NEW c \in Command, M!InBounds,
           \A o \in Command \ {c} : pc'[o] = pc[o] /\ idx'[o] = idx[o],
           pc'[c] \in {"create", "break", "createAgain"} => idx'[c] \in M!LockPlaces(c),
           M!Working(c)' \/ pc'[c] = "discard" => idx'[c] \in M!PairSet(c)
    PROVE  M!InBounds'
    BY DEF M!InBounds, M!Working, M!Moving, M!LockPlaces, M!LockAt,
           M!PairSet

\* Ending a process
LEMMA TypeEnds ==
    ASSUME M!TypeOK, NEW c \in Command, M!Ends(c)
    PROVE  /\ staged' \in [Command -> SUBSET Nat] /\ pc' \in [Command -> M!PC] /\ idx' \in [Command -> Nat]
           /\ acquired' \in [Command -> SUBSET Dest] /\ moved' \in [Command -> SUBSET Nat]
           /\ installed' \in [Command -> SUBSET Nat] /\ broken' \in [Command -> BOOLEAN]
           /\ before' \in [Command -> [Dest -> M!Content \cup {M!Absent}]]
           /\ pc'[c] = "over" /\ \A o \in Command \ {c} : pc'[o] = pc[o] /\ idx'[o] = idx[o]
  <1>1. M!First \in [Dest -> M!Content \cup {M!Absent}]
    BY DEF M!First, M!Content
  <1>2. "over" \in M!PC /\ 1 \in Nat
    BY DEF M!PC
  <1> QED
    BY <1>1, <1>2 DEF M!TypeOK, M!Ends, M!At, M!Goto

LEMMA TypeStage ==
    ASSUME M!TypeOK, M!InBounds, NEW c \in Command, M!Stage(c)
    PROVE  M!TypeOK' /\ M!InBounds'
  <1>1. M!PairSet(c) \subseteq Nat /\ 1 \in M!LockPlaces(c)
    BY PairFacts, LockFacts
  <1>2. M!TypeOK'
    BY <1>1
       DEF M!TypeOK, M!Stage, M!At, M!Goto, M!PC, M!treeVars,
           M!lockVars
  <1>3. /\ \A o \in Command \ {c} : pc'[o] = pc[o] /\ idx'[o] = idx[o]
        /\ pc'[c] = "create" /\ idx'[c] = 1
    BY DEF M!TypeOK, M!Stage, M!At, M!Goto
  <1>4. M!InBounds'
    BY <1>1, <1>3, BoundsFrame DEF M!Working, M!Moving
  <1> QED
    BY <1>2, <1>4

\* The next place after the index, or the moves
LEMMA NextPlace ==
    ASSUME M!TypeOK, NEW c \in Command, M!TakeNext(c)
    PROVE  /\ pc' \in [Command -> M!PC] /\ idx' \in [Command -> Nat]
           /\ \A o \in Command \ {c} : pc'[o] = pc[o] /\ idx'[o] = idx[o]
           /\ \/ pc'[c] = "recheck" /\ \A k \in M!LockPlaces(c) : k <= idx[c]
              \/ /\ pc'[c] = "create" /\ idx'[c] \in M!LockPlaces(c)
                 /\ \A k \in M!LockPlaces(c) : k < idx'[c] => k <= idx[c]
  <1>1. /\ \A k \in M!LockPlaces(c) : k \in Nat
        /\ idx[c] \in Nat /\ pc \in [Command -> M!PC] /\ idx \in [Command -> Nat]
    BY LockFacts DEF M!TypeOK
  <1>2. CASE M!Remaining(c) = {}
    <2>1. M!At(c, "recheck", 1)
      BY <1>2 DEF M!TakeNext
    <2>2. \A k \in M!LockPlaces(c) : k <= idx[c]
      BY <1>1, <1>2 DEF M!Remaining
    <2> QED
      BY <1>1, <2>1, <2>2 DEF M!At, M!Goto, M!PC
  <1>3. CASE M!Remaining(c) # {}
    <2>1. PICK k \in M!Remaining(c) : (\A l \in M!Remaining(c) : k <= l) /\ M!At(c, "create", k)
      BY <1>3 DEF M!TakeNext
    <2>2. k \in M!LockPlaces(c) /\ k \in Nat
      BY <1>1 DEF M!Remaining
    <2>3. \A l \in M!LockPlaces(c) : l < k => l <= idx[c]
      BY <1>1, <2>1, <2>2 DEF M!Remaining
    <2>4. /\ pc' \in [Command -> M!PC] /\ idx' \in [Command -> Nat] /\ pc'[c] = "create" /\ idx'[c] = k
          /\ \A o \in Command \ {c} : pc'[o] = pc[o] /\ idx'[o] = idx[o]
      BY <1>1, <2>1, <2>2 DEF M!At, M!Goto, M!PC
    <2> QED
      BY <2>2, <2>3, <2>4
  <1> QED
    BY <1>2, <1>3

LEMMA TypeLocking ==
    ASSUME M!TypeOK, M!InBounds, NEW c \in Command,
           M!CreateLock(c) \/ M!JudgeHolder(c) \/ M!BreakLock(c) \/ M!LoseRetry(c) \/ M!ReleaseLocks(c)
    PROVE  M!TypeOK' /\ M!InBounds'
  <1>1. CASE M!CreateLock(c)
    <2>1. idx[c] \in M!LockPlaces(c)
      BY <1>1 DEF M!CreateLock, M!InBounds
    <2>2. M!Wanted(c) \in Dest
      BY <2>1, LockFacts DEF M!Wanted
    <2>3. /\ lock' \in [Dest -> M!LockFile] /\ acquired' \in [Command -> SUBSET Dest]
      BY <1>1, <2>2 DEF M!CreateLock, M!TypeOK, M!LockFile
    <2>4. pc' \in [Command -> M!PC] /\ idx' \in [Command -> Nat]
      BY <1>1, NextPlace DEF M!CreateLock
    <2>5. M!TypeOK'
      BY <1>1, <2>3, <2>4 DEF M!CreateLock, M!TypeOK, M!treeVars, M!moveVars
    <2>6. M!InBounds'
      BY <1>1, NextPlace, BoundsFrame DEF M!CreateLock, M!Working, M!Moving
    <2> QED
      BY <2>5, <2>6
  <1>2. CASE M!JudgeHolder(c)
    <2>1. /\ pc' \in [Command -> M!PC] /\ pc'[c] \in {"break", "release"} /\ pc[c] = "create"
          /\ \A o \in Command \ {c} : pc'[o] = pc[o] /\ idx'[o] = idx[o]
          /\ idx' = idx
      BY <1>2 DEF M!JudgeHolder, M!TypeOK, M!Goto, M!PC
    <2>2. M!TypeOK'
      BY <1>2, <2>1
         DEF M!JudgeHolder, M!TypeOK, M!treeVars, M!lockVars, M!moveVars
    <2>3. M!InBounds'
      BY <2>1, BoundsFrame DEF M!Working, M!Moving, M!InBounds
    <2> QED
      BY <2>2, <2>3
  <1>3. CASE M!BreakLock(c)
    <2>1. /\ pc' \in [Command -> M!PC] /\ pc'[c] = "createAgain" /\ pc[c] = "break"
          /\ \A o \in Command \ {c} : pc'[o] = pc[o] /\ idx'[o] = idx[o]
          /\ idx' = idx
      BY <1>3 DEF M!BreakLock, M!TypeOK, M!Goto, M!PC
    <2>2. lock' \in [Dest -> M!LockFile] /\ raced' \in BOOLEAN
      BY <1>3 DEF M!BreakLock, M!TypeOK, M!LockFile, M!NoLock
    <2>3. M!TypeOK'
      BY <1>3, <2>1, <2>2 DEF M!BreakLock, M!TypeOK, M!treeVars, M!moveVars
    <2>4. M!InBounds'
      BY <2>1, BoundsFrame DEF M!Working, M!Moving, M!InBounds
    <2> QED
      BY <2>3, <2>4
  <1>4. CASE M!LoseRetry(c)
    <2>1. /\ pc' \in [Command -> M!PC] /\ pc'[c] = "release"
          /\ \A o \in Command \ {c} : pc'[o] = pc[o] /\ idx'[o] = idx[o]
      BY <1>4 DEF M!LoseRetry, M!TypeOK, M!Goto, M!PC
    <2>2. M!TypeOK'
      BY <1>4, <2>1
         DEF M!LoseRetry, M!TypeOK, M!treeVars, M!lockVars, M!moveVars
    <2>3. M!InBounds'
      BY <2>1, BoundsFrame DEF M!Working, M!Moving, M!InBounds
    <2> QED
      BY <2>2, <2>3
  <1>5. CASE M!ReleaseLocks(c)
    <2>1. lock' \in [Dest -> M!LockFile] /\ raced' \in BOOLEAN
      BY <1>5 DEF M!ReleaseLocks, M!RemoveLocks, M!TypeOK, M!LockFile, M!NoLock
    <2>2. M!TypeOK'
      BY <1>5, <2>1, TypeEnds DEF M!ReleaseLocks, M!TypeOK, M!treeVars
    <2>3. M!InBounds'
      BY <1>5, TypeEnds, BoundsFrame DEF M!ReleaseLocks, M!Working, M!Moving
    <2> QED
      BY <2>2, <2>3
  <1> QED
    BY <1>1, <1>2, <1>3, <1>4, <1>5

\* A step to another place of the same command
LEMMA Arrives ==
    ASSUME M!TypeOK, NEW c \in Command, NEW place \in M!PC, NEW n \in Nat,
           M!At(c, place, n) \/ (M!Goto(c, place) /\ idx' = idx /\ idx[c] = n)
    PROVE  /\ pc' \in [Command -> M!PC] /\ idx' \in [Command -> Nat]
           /\ pc'[c] = place /\ idx'[c] = n
           /\ \A o \in Command \ {c} : pc'[o] = pc[o] /\ idx'[o] = idx[o]
  <1>1. pc' = [pc EXCEPT ![c] = place]
    BY DEF M!At, M!Goto
  <1>2. idx' = [idx EXCEPT ![c] = n] \/ (idx' = idx /\ idx[c] = n)
    BY DEF M!At
  <1>3. pc \in [Command -> M!PC] /\ idx \in [Command -> Nat]
    BY DEF M!TypeOK
  <1>4. /\ pc' \in [Command -> M!PC] /\ pc'[c] = place
        /\ \A o \in Command \ {c} : pc'[o] = pc[o]
    BY <1>1, <1>3
  <1>5. /\ idx' \in [Command -> Nat] /\ idx'[c] = n
        /\ \A o \in Command \ {c} : idx'[o] = idx[o]
    BY <1>2, <1>3
  <1> QED
    BY <1>4, <1>5

\* Moving directories keeps their type.
LEMMA TypeDirs ==
    ASSUME M!TypeOK, NEW c \in Command, NEW D
    PROVE  /\ [d \in Dest |-> IF d \in D THEN M!Absent ELSE dir[d]] \in [Dest -> M!Content \cup {M!Absent}]
           /\ [d \in Dest |-> IF d \in D THEN c ELSE dir[d]] \in [Dest -> M!Content \cup {M!Absent}]
           /\ [d \in Dest |-> IF d \in D THEN backup[c][d] ELSE dir[d]] \in [Dest -> M!Content \cup {M!Absent}]
           /\ [d \in Dest |-> IF d \in D THEN dir[d] ELSE backup[c][d]] \in [Dest -> M!Content \cup {M!Absent}]
           /\ [d \in Dest |-> IF d \in D THEN M!Absent ELSE backup[c][d]] \in [Dest -> M!Content \cup {M!Absent}]
    BY DEF M!TypeOK, M!Content

LEMMA TypeMoves ==
    ASSUME M!TypeOK, M!InBounds, NEW c \in Command,
           M!Recheck(c) \/ M!MoveAside(c) \/ M!NoteAside(c) \/ M!MoveIn(c) \/ M!NoteIn(c)
           \/ M!Disarm(c) \/ M!LeaveTry(c)
    PROVE  M!TypeOK' /\ M!InBounds'
  <1>1. /\ Len(Pairs[c]) \in Nat /\ M!PairSet(c) = 1 .. Len(Pairs[c]) /\ 1 \in M!PairSet(c)
        /\ M!PairSet(c) \subseteq Nat
    BY PairFacts
  <1>2. idx[c] \in Nat /\ (M!Working(c) => idx[c] \in M!PairSet(c))
    BY DEF M!InBounds, M!TypeOK
  <1>3. CASE M!Recheck(c)
    <2>1. \E place \in {"aside", "release"} : M!At(c, place, 1)
      BY <1>3 DEF M!Recheck
    <2>2. /\ pc' \in [Command -> M!PC] /\ idx' \in [Command -> Nat]
          /\ pc'[c] \in {"aside", "release"} /\ idx'[c] = 1
          /\ \A o \in Command \ {c} : pc'[o] = pc[o] /\ idx'[o] = idx[o]
      BY <2>1, Arrives DEF M!PC
    <2>3. before' \in [Command -> [Dest -> M!Content \cup {M!Absent}]]
      BY <1>3 DEF M!Recheck, M!TypeOK
    <2>4. M!TypeOK'
      BY <1>3, <2>2, <2>3 DEF M!Recheck, M!TypeOK, M!treeVars, M!lockVars
    <2> QED
      BY <1>1, <2>2, <2>4, BoundsFrame
  <1>4. CASE M!MoveAside(c)
    <2>1. \E place \in {"in", "asideDone"} : M!Goto(c, place)
      BY <1>4 DEF M!MoveAside
    <2>2. /\ pc' \in [Command -> M!PC] /\ idx' \in [Command -> Nat]
          /\ pc'[c] \in {"in", "asideDone"} /\ idx'[c] = idx[c] /\ pc[c] = "aside"
          /\ \A o \in Command \ {c} : pc'[o] = pc[o] /\ idx'[o] = idx[o]
      BY <1>2, <1>4, <2>1, Arrives DEF M!PC, M!MoveAside
    <2>3. /\ [d \in Dest |-> IF d \in M!Within(M!Target(c)) THEN M!Absent ELSE dir[d]] \in [Dest -> M!Content \cup {M!Absent}]
          /\ [d \in Dest |-> IF d \in M!Within(M!Target(c)) THEN dir[d] ELSE backup[c][d]] \in [Dest -> M!Content \cup {M!Absent}]
      BY TypeDirs
    <2>4. dir' \in [Dest -> M!Content \cup {M!Absent}]
      BY <1>4, <2>3 DEF M!MoveAside, M!TypeOK
    <2>5. backup' \in [Command -> [Dest -> M!Content \cup {M!Absent}]]
      BY <1>4, <2>3 DEF M!MoveAside, M!TypeOK
    <2>6. dir' \in [Dest -> M!Content \cup {M!Absent}] /\ backup' \in [Command -> [Dest -> M!Content \cup {M!Absent}]]
      BY <2>4, <2>5
    <2>7. M!TypeOK'
      BY <1>4, <2>2, <2>6 DEF M!MoveAside, M!TypeOK, M!lockVars
    <2> QED
      BY <1>2, <2>2, <2>7, BoundsFrame DEF M!Working, M!Moving
  <1>5. CASE M!NoteAside(c)
    <2>1. /\ pc' \in [Command -> M!PC] /\ idx' \in [Command -> Nat]
          /\ pc'[c] = "in" /\ idx'[c] = idx[c] /\ pc[c] = "asideDone"
          /\ \A o \in Command \ {c} : pc'[o] = pc[o] /\ idx'[o] = idx[o]
      BY <1>2, <1>5, Arrives DEF M!PC, M!NoteAside
    <2>2. moved' \in [Command -> SUBSET Nat]
      BY <1>2, <1>5 DEF M!NoteAside, M!TypeOK
    <2>3. M!TypeOK'
      BY <1>5, <2>1, <2>2 DEF M!NoteAside, M!TypeOK, M!treeVars, M!lockVars
    <2> QED
      BY <1>2, <2>1, <2>3, BoundsFrame DEF M!Working, M!Moving
  <1>6. CASE M!MoveIn(c)
    <2>1. /\ pc' \in [Command -> M!PC] /\ idx' \in [Command -> Nat]
          /\ pc'[c] = "inDone" /\ idx'[c] = idx[c] /\ pc[c] = "in"
          /\ \A o \in Command \ {c} : pc'[o] = pc[o] /\ idx'[o] = idx[o]
      BY <1>2, <1>6, Arrives DEF M!PC, M!MoveIn
    <2>2. [dir EXCEPT ![M!Target(c)] = "mixed"] \in [Dest -> M!Content \cup {M!Absent}]
      BY DEF M!TypeOK, M!Content
    <2>3. dir' \in [Dest -> M!Content \cup {M!Absent}] /\ staged' \in [Command -> SUBSET Nat]
      BY <1>6, <2>2, TypeDirs DEF M!MoveIn, M!TypeOK
    <2>4. M!TypeOK'
      BY <1>6, <2>1, <2>3 DEF M!MoveIn, M!TypeOK, M!lockVars
    <2> QED
      BY <1>2, <2>1, <2>4, BoundsFrame DEF M!Working, M!Moving
  <1>7. CASE M!NoteIn(c)
    <2>1. idx[c] \in M!PairSet(c)
      BY <1>2, <1>7 DEF M!NoteIn, M!Working, M!Moving
    <2>2. PICK place \in {"aside", "disarm"}, n \in M!PairSet(c) : M!At(c, place, n)
      BY <1>1, <1>7, <2>1 DEF M!NoteIn
    <2>3. /\ pc' \in [Command -> M!PC] /\ idx' \in [Command -> Nat]
          /\ pc'[c] \in {"aside", "disarm"} /\ idx'[c] \in M!PairSet(c)
          /\ \A o \in Command \ {c} : pc'[o] = pc[o] /\ idx'[o] = idx[o]
      BY <1>1, <2>2, Arrives DEF M!PC
    <2>4. installed' \in [Command -> SUBSET Nat]
      BY <1>2, <1>7 DEF M!NoteIn, M!TypeOK
    <2>5. M!TypeOK'
      BY <1>7, <2>3, <2>4 DEF M!NoteIn, M!TypeOK, M!treeVars, M!lockVars
    <2> QED
      BY <2>3, <2>5, BoundsFrame
  <1>8. CASE M!Disarm(c) \/ M!LeaveTry(c)
    <2>1. /\ pc' \in [Command -> M!PC] /\ idx' \in [Command -> Nat]
          /\ pc'[c] = "discard" /\ idx'[c] \in M!PairSet(c)
          /\ \A o \in Command \ {c} : pc'[o] = pc[o] /\ idx'[o] = idx[o]
      BY <1>1, <1>8, Arrives DEF M!PC, M!Disarm, M!LeaveTry
    <2>2. /\ moved' \in [Command -> SUBSET Nat] /\ installed' \in [Command -> SUBSET Nat]
          /\ before' \in [Command -> [Dest -> M!Content \cup {M!Absent}]]
      <3>1. /\ moved' = [moved EXCEPT ![c] = {}] /\ installed' = [installed EXCEPT ![c] = {}]
            /\ before' = [before EXCEPT ![c] = M!First]
        BY <1>8 DEF M!Disarm, M!LeaveTry, M!NothingToUndo
      <3>2. M!First \in [Dest -> M!Content \cup {M!Absent}]
        BY DEF M!First, M!Content
      <3> QED
        BY <3>1, <3>2 DEF M!TypeOK
    <2>3. lock' \in [Dest -> M!LockFile] /\ raced' \in BOOLEAN /\ acquired' \in [Command -> SUBSET Dest]
      BY <1>8 DEF M!Disarm, M!LeaveTry, M!RemoveLocks, M!TypeOK, M!LockFile, M!NoLock, M!lockVars
    <2>4. M!TypeOK'
      BY <1>8, <2>1, <2>2, <2>3 DEF M!Disarm, M!LeaveTry, M!TypeOK, M!treeVars
    <2> QED
      BY <2>1, <2>4, BoundsFrame
  <1> QED
    BY <1>3, <1>4, <1>5, <1>6, <1>7, <1>8

LEMMA TypeFailures ==
    ASSUME M!TypeOK, M!InBounds, NEW c \in Command,
           \/ M!DiscardBackup(c) \/ M!Unwind(c) \/ M!StopPipeline(c) \/ M!Signal(c)
           \/ M!UnwindIn(c) \/ M!UnwindAside(c) \/ M!Kill(c)
    PROVE  M!TypeOK' /\ M!InBounds'
  <1>1. /\ Len(Pairs[c]) \in Nat /\ M!PairSet(c) = 1 .. Len(Pairs[c]) /\ Len(Pairs[c]) \in M!PairSet(c)
        /\ 1 \in Nat /\ M!PairSet(c) \subseteq Nat
    BY PairFacts
  <1>2. idx[c] \in Nat /\ (M!Working(c) \/ pc[c] = "discard" => idx[c] \in M!PairSet(c))
    BY DEF M!InBounds, M!TypeOK
  <1>3. CASE M!DiscardBackup(c)
    <2>1. idx[c] \in M!PairSet(c)
      BY <1>2, <1>3 DEF M!DiscardBackup
    <2>2. PICK place \in {"discard", "release", "over"}, n \in M!PairSet(c) : M!At(c, place, n)
      BY <1>1, <1>3, <2>1 DEF M!DiscardBackup
    <2>3. /\ pc' \in [Command -> M!PC] /\ idx' \in [Command -> Nat]
          /\ idx'[c] \in M!PairSet(c) /\ pc'[c] \in {"discard", "release", "over"}
          /\ \A o \in Command \ {c} : pc'[o] = pc[o] /\ idx'[o] = idx[o]
      BY <1>1, <2>2, Arrives DEF M!PC
    <2>4. [d \in Dest |-> IF d \in M!Within(M!Target(c)) THEN M!Absent ELSE backup[c][d]] \in [Dest -> M!Content \cup {M!Absent}]
      BY TypeDirs
    <2>5. backup' \in [Command -> [Dest -> M!Content \cup {M!Absent}]]
      BY <1>3, <2>4 DEF M!DiscardBackup, M!TypeOK
    <2>6. lostEdits' \subseteq Dest
      <3>1. M!Within(M!Target(c)) \subseteq Dest
        BY DEF M!Within
      <3> QED
        BY <1>3, <3>1 DEF M!DiscardBackup, M!TypeOK
    <2>7. M!TypeOK'
      BY <1>3, <2>3, <2>5, <2>6 DEF M!DiscardBackup, M!TypeOK, M!lockVars
    <2> QED
      BY <2>3, <2>7, BoundsFrame
  <1>4. CASE M!Unwind(c)
    <2>1. /\ pc' \in [Command -> M!PC] /\ idx' \in [Command -> Nat]
          /\ pc'[c] = "unwindIn" /\ idx'[c] \in M!PairSet(c)
          /\ \A o \in Command \ {c} : pc'[o] = pc[o] /\ idx'[o] = idx[o]
      BY <1>1, <1>4, Arrives DEF M!PC, M!Unwind
    <2>2. broken' \in [Command -> BOOLEAN]
      BY <1>4 DEF M!Unwind, M!TypeOK
    <2>3. M!TypeOK'
      BY <1>4, <2>1, <2>2 DEF M!Unwind, M!TypeOK, M!treeVars, M!lockVars
    <2> QED
      BY <2>1, <2>3, BoundsFrame
  <1>5. CASE M!StopPipeline(c)
    <2>1. /\ pc' \in [Command -> M!PC] /\ idx' \in [Command -> Nat] /\ pc'[c] = "release"
          /\ \A o \in Command \ {c} : pc'[o] = pc[o] /\ idx'[o] = idx[o]
      BY <1>1, <1>5, Arrives DEF M!PC, M!StopPipeline
    <2>2. broken' \in [Command -> BOOLEAN]
      BY <1>5 DEF M!StopPipeline, M!TypeOK
    <2>3. M!TypeOK'
      BY <1>5, <2>1, <2>2 DEF M!StopPipeline, M!TypeOK, M!treeVars, M!lockVars
    <2> QED
      BY <2>1, <2>3, BoundsFrame DEF M!Working, M!Moving
  <1>6. CASE M!Signal(c)
    <2>1. /\ pc' \in [Command -> M!PC] /\ idx' \in [Command -> Nat] /\ pc'[c] = "release"
          /\ \A o \in Command \ {c} : pc'[o] = pc[o] /\ idx'[o] = idx[o]
      BY <1>1, <1>6, Arrives DEF M!PC, M!Signal
    <2>2. M!TypeOK'
      BY <1>6, <2>1
         DEF M!Signal, M!TypeOK, M!treeVars, M!lockVars, M!moveVars
    <2> QED
      BY <2>1, <2>2, BoundsFrame DEF M!Working, M!Moving
  <1>7. CASE M!UnwindIn(c)
    <2>1. /\ pc' \in [Command -> M!PC] /\ idx' \in [Command -> Nat]
          /\ pc'[c] = "unwindAside" /\ idx'[c] = idx[c] /\ pc[c] = "unwindIn"
          /\ \A o \in Command \ {c} : pc'[o] = pc[o] /\ idx'[o] = idx[o]
      BY <1>2, <1>7, Arrives DEF M!PC, M!UnwindIn
    <2>2. /\ dir' \in [Dest -> M!Content \cup {M!Absent}] /\ staged' \in [Command -> SUBSET Nat]
          /\ broken' \in [Command -> BOOLEAN]
      <3>1. [d \in Dest |-> IF d \in M!Within(M!Target(c)) THEN M!Absent ELSE dir[d]] \in [Dest -> M!Content \cup {M!Absent}]
        BY TypeDirs
      <3>2. dir' \in [Dest -> M!Content \cup {M!Absent}]
        BY <1>7, <3>1 DEF M!UnwindIn, M!TypeOK
      <3>3. staged' = staged \/ staged' = [staged EXCEPT ![c] = @ \cup {idx[c]}]
        BY <1>7 DEF M!UnwindIn
      <3>4. staged' \in [Command -> SUBSET Nat]
        <4>1. staged \in [Command -> SUBSET Nat]
          BY DEF M!TypeOK
        <4>2. staged[c] \cup {idx[c]} \in SUBSET Nat
          BY <1>2, <4>1
        <4> QED
          BY <3>3, <4>1, <4>2
      <3>5. broken' \in [Command -> BOOLEAN]
        BY <1>7 DEF M!UnwindIn, M!TypeOK
      <3> QED
        BY <3>2, <3>4, <3>5
    <2>3. M!TypeOK'
      BY <1>7, <2>1, <2>2 DEF M!UnwindIn, M!TypeOK, M!lockVars
    <2> QED
      BY <1>2, <2>1, <2>3, BoundsFrame DEF M!Working
  <1>8. CASE M!UnwindAside(c)
    <2>1. idx[c] \in M!PairSet(c)
      BY <1>2, <1>8 DEF M!UnwindAside, M!Working
    <2>2. PICK place \in {"unwindIn", "release"}, n \in Nat :
              M!At(c, place, n) /\ (place = "unwindIn" => n \in M!PairSet(c))
      BY <1>1, <1>8, <2>1 DEF M!UnwindAside
    <2>3. /\ pc' \in [Command -> M!PC] /\ idx' \in [Command -> Nat]
          /\ pc'[c] \in {"unwindIn", "release"} /\ (pc'[c] = "unwindIn" => idx'[c] \in M!PairSet(c))
          /\ \A o \in Command \ {c} : pc'[o] = pc[o] /\ idx'[o] = idx[o]
      BY <2>2, Arrives DEF M!PC
    <2>4. /\ dir' \in [Dest -> M!Content \cup {M!Absent}] /\ broken' \in [Command -> BOOLEAN]
          /\ backup' \in [Command -> [Dest -> M!Content \cup {M!Absent}]]
      <3>1. /\ [d \in Dest |-> IF d \in M!Within(M!Target(c)) THEN M!Absent ELSE backup[c][d]] \in [Dest -> M!Content \cup {M!Absent}]
            /\ [d \in Dest |-> IF d \in M!Within(M!Target(c)) THEN backup[c][d] ELSE dir[d]] \in [Dest -> M!Content \cup {M!Absent}]
        BY TypeDirs
      <3>2. dir' \in [Dest -> M!Content \cup {M!Absent}] /\ broken' \in [Command -> BOOLEAN]
        BY <1>8, <3>1 DEF M!UnwindAside, M!TypeOK
      <3>3. backup' \in [Command -> [Dest -> M!Content \cup {M!Absent}]]
        BY <1>8, <3>1 DEF M!UnwindAside, M!TypeOK
      <3> QED
        BY <3>2, <3>3
    <2>5. M!TypeOK'
      BY <1>8, <2>3, <2>4 DEF M!UnwindAside, M!TypeOK, M!lockVars
    <2> QED
      BY <2>3, <2>5, BoundsFrame DEF M!Working, M!Moving
  <1>9. CASE M!Kill(c)
    <2>1. M!TypeOK'
      BY <1>9, TypeEnds DEF M!Kill, M!TypeOK, M!treeVars
    <2> QED
      BY <1>9, <2>1, TypeEnds, BoundsFrame DEF M!Kill, M!Working, M!Moving
  <1> QED
    BY <1>3, <1>4, <1>5, <1>6, <1>7, <1>8, <1>9

\* Developers move no command.
LEMMA TypeDevelopers ==
    ASSUME M!TypeOK, M!InBounds, NEW d \in Dest, M!Edit(d) \/ M!Commit(d)
    PROVE  M!TypeOK' /\ M!InBounds'
  <1>1. /\ dir' \in [Dest -> M!Content \cup {M!Absent}] /\ head' \in [Dest -> M!Content]
        /\ saved' \subseteq Dest /\ late' \subseteq Dest /\ lostEdits' \subseteq Dest
        /\ UNCHANGED <<M!lockVars, M!moveVars, pc, idx>>
    BY DEF M!Edit, M!Commit, M!TypeOK, M!Content
  <1>2. M!TypeOK'
    BY <1>1 DEF M!TypeOK, M!lockVars, M!moveVars
  <1>3. M!InBounds'
    BY <1>1 DEF M!InBounds, M!Working, M!Moving
  <1> QED
    BY <1>2, <1>3

LEMMA TypeStep == ASSUME M!TypeOK, M!InBounds, M!Next PROVE M!TypeOK' /\ M!InBounds'
  <1>1. Editable \subseteq Dest
    BY MirrorAssumption DEF M!ConstantsFit
  <1> QED
    BY <1>1, TypeStage, TypeLocking, TypeMoves, TypeFailures, TypeDevelopers
       DEF M!Next, M!Proceed

-----------------------------------------------------------------------------
(* What the moves do to each directory *)

LEMMA AsideEffect ==
    ASSUME M!TypeOK, NEW c \in Command, M!MoveAside(c)
    PROVE  /\ \A o \in Command \ {c} : backup'[o] = backup[o]
           /\ \/ /\ dir[M!Target(c)] = M!Absent /\ pc'[c] = "in"
                 /\ UNCHANGED <<dir, backup>>
              \/ /\ dir[M!Target(c)] # M!Absent /\ pc'[c] = "asideDone"
                 /\ \A d \in M!Within(M!Target(c)) : dir'[d] = M!Absent /\ backup'[c][d] = dir[d]
                 /\ \A d \in Dest \ M!Within(M!Target(c)) : dir'[d] = dir[d] /\ backup'[c][d] = backup[c][d]
  <1>1. backup \in [Command -> [Dest -> M!Content \cup {M!Absent}]] /\ pc \in [Command -> M!PC]
    BY DEF M!TypeOK
  <1>2. M!Within(M!Target(c)) \subseteq Dest
    BY DEF M!Within
  <1>3. CASE dir[M!Target(c)] = M!Absent
    BY <1>1, <1>3 DEF M!MoveAside, M!Goto
  <1>4. CASE dir[M!Target(c)] # M!Absent
    <2> DEFINE D == M!Within(M!Target(c))
               b == [d \in Dest |-> IF d \in D THEN dir[d] ELSE backup[c][d]]
    <2>1. /\ backup' = [backup EXCEPT ![c] = b]
          /\ dir' = [d \in Dest |-> IF d \in D THEN M!Absent ELSE dir[d]]
          /\ pc' = [pc EXCEPT ![c] = "asideDone"]
      BY <1>4 DEF M!MoveAside, M!Goto
    <2>2. backup'[c] = b /\ \A o \in Command \ {c} : backup'[o] = backup[o]
      BY <1>1, <2>1
    <2>3. \A d \in D : dir'[d] = M!Absent /\ b[d] = dir[d]
      BY <1>2, <2>1
    <2>4. \A d \in Dest \ D : dir'[d] = dir[d] /\ b[d] = backup[c][d]
      BY <2>1
    <2> QED
      BY <1>1, <1>4, <2>1, <2>2, <2>3, <2>4
  <1> QED
    BY <1>3, <1>4

LEMMA BackEffect ==
    ASSUME M!TypeOK, NEW c \in Command, M!UnwindAside(c)
    PROVE  /\ \A o \in Command \ {c} : backup'[o] = backup[o]
           /\ \/ /\ idx[c] \notin moved[c]
                 /\ UNCHANGED <<dir, backup, broken>>
              \/ /\ idx[c] \in moved[c] /\ dir[M!Target(c)] = M!Absent
                 /\ broken' = broken
                 /\ \A d \in M!Within(M!Target(c)) : dir'[d] = backup[c][d] /\ backup'[c][d] = M!Absent
                 /\ \A d \in Dest \ M!Within(M!Target(c)) : dir'[d] = dir[d] /\ backup'[c][d] = backup[c][d]
              \/ idx[c] \in moved[c] /\ broken'[c] /\ UNCHANGED <<dir, backup>>
  <1>1. backup \in [Command -> [Dest -> M!Content \cup {M!Absent}]] /\ broken \in [Command -> BOOLEAN]
    BY DEF M!TypeOK
  <1>2. M!Within(M!Target(c)) \subseteq Dest
    BY DEF M!Within
  <1> DEFINE D == M!Within(M!Target(c))
             b == [d \in Dest |-> IF d \in D THEN M!Absent ELSE backup[c][d]]
  <1>3. CASE idx[c] \notin moved[c]
    BY <1>3 DEF M!UnwindAside
  <1>4. CASE /\ idx[c] \in moved[c] /\ dir[M!Target(c)] = M!Absent /\ broken' = broken
             /\ backup' = [backup EXCEPT ![c] = b]
             /\ dir' = [d \in Dest |-> IF d \in D THEN backup[c][d] ELSE dir[d]]
    <2>1. backup'[c] = b /\ \A o \in Command \ {c} : backup'[o] = backup[o]
      BY <1>1, <1>4
    <2>2. \A d \in D : dir'[d] = backup[c][d] /\ b[d] = M!Absent
      BY <1>2, <1>4
    <2>3. \A d \in Dest \ D : dir'[d] = dir[d] /\ b[d] = backup[c][d]
      BY <1>4
    <2> QED
      BY <1>4, <2>1, <2>2, <2>3
  <1>5. CASE idx[c] \in moved[c] /\ broken' = [broken EXCEPT ![c] = TRUE] /\ UNCHANGED <<dir, backup>>
    BY <1>1, <1>5
  <1> QED
    BY <1>3, <1>4, <1>5 DEF M!UnwindAside

LEMMA DiscardEffect ==
    ASSUME M!TypeOK, NEW c \in Command, M!DiscardBackup(c)
    PROVE  /\ \A o \in Command \ {c} : backup'[o] = backup[o]
           /\ \A d \in M!Within(M!Target(c)) : backup'[c][d] \in {backup[c][d], M!Absent}
           /\ \A d \in Dest \ M!Within(M!Target(c)) : backup'[c][d] = backup[c][d]
  <1>1. backup \in [Command -> [Dest -> M!Content \cup {M!Absent}]]
    BY DEF M!TypeOK
  <1>2. M!Within(M!Target(c)) \subseteq Dest
    BY DEF M!Within
  <1> DEFINE D == M!Within(M!Target(c))
             b == [d \in Dest |-> IF d \in D THEN M!Absent ELSE backup[c][d]]
  <1>3. CASE backup' = [backup EXCEPT ![c] = b]
    <2>1. backup'[c] = b /\ \A o \in Command \ {c} : backup'[o] = backup[o]
      BY <1>1, <1>3
    <2>2. /\ \A d \in D : b[d] = M!Absent
          /\ \A d \in Dest \ D : b[d] = backup[c][d]
      BY <1>2
    <2> QED
      BY <2>1, <2>2
  <1>4. CASE backup' = backup
    BY <1>4
  <1> QED
    BY <1>3, <1>4 DEF M!DiscardBackup

-----------------------------------------------------------------------------
(* Where a developer's edit can be *)

\* A command only carries edits that were committed or came late.
LEMMA EditFrame ==
    ASSUME M!EditIsKnown, UNCHANGED <<head, saved, late, lostEdits>>,
           \A d \in Dest : dir'[d] = "edit" => dir[d] = "edit" \/ d \in saved \cup late,
           \A o \in Command, d \in Dest :
               backup'[o][d] = "edit" => backup[o][d] = "edit" \/ d \in saved \cup late,
           \A o \in Command : M!Moving(o)' =>
               M!Moving(o) \/ \A d \in M!Dests(o) : dir[d] = "edit" => d \in saved \cup late
    PROVE  M!EditIsKnown'
  <1>1. \A o \in Command : M!Dests(o) \subseteq Dest
    BY DEF M!Dests, M!Within
  <1>2. (\A d \in Dest : head[d] = "edit" => d \in saved)' /\ M!OnlyLateEditsAreLost'
    BY DEF M!EditIsKnown, M!OnlyLateEditsAreLost
  <1>3. (\A o \in Command, d \in Dest : backup[o][d] = "edit" => d \in saved \cup late)'
    BY DEF M!EditIsKnown
  <1>4. ASSUME NEW o \in Command, M!Moving(o)', NEW d \in M!Dests(o), dir'[d] = "edit"
        PROVE  d \in saved \cup late
    <2>1. CASE M!Moving(o)
      BY <1>1, <1>4, <2>1 DEF M!EditIsKnown
    <2>2. CASE ~M!Moving(o)
      BY <1>1, <1>4, <2>2
    <2> QED
      BY <2>1, <2>2
  <1> QED
    BY <1>2, <1>3, <1>4 DEF M!EditIsKnown, M!Dests, M!Within, M!PairSet

\* The steps that move no directory and do not begin to
LEMMA EditQuiet ==
    ASSUME M!TypeOK, M!EditIsKnown, NEW c \in Command,
           \/ M!Stage(c) \/ M!CreateLock(c) \/ M!JudgeHolder(c) \/ M!BreakLock(c) \/ M!LoseRetry(c)
           \/ M!ReleaseLocks(c) \/ M!NoteAside(c) \/ M!NoteIn(c) \/ M!Disarm(c) \/ M!LeaveTry(c)
           \/ M!Unwind(c) \/ M!StopPipeline(c) \/ M!Signal(c) \/ M!Kill(c)
    PROVE  M!EditIsKnown'
  <1>1. UNCHANGED <<dir, head, saved, late, lostEdits, backup>>
    BY DEF M!Stage, M!CreateLock, M!JudgeHolder, M!BreakLock,
           M!LoseRetry, M!ReleaseLocks, M!NoteAside, M!NoteIn, M!Disarm,
           M!LeaveTry, M!Unwind, M!StopPipeline, M!Signal, M!Kill, M!treeVars,
           M!moveVars
  <1>2. \A o \in Command : M!Moving(o)' => M!Moving(o)
    <2>1. CASE M!CreateLock(c)
      BY <2>1, NextPlace DEF M!CreateLock, M!Moving
    <2>2. CASE M!Stage(c) \/ M!JudgeHolder(c) \/ M!BreakLock(c) \/ M!LoseRetry(c) \/ M!Signal(c)
      BY <2>2
         DEF M!Stage, M!JudgeHolder, M!BreakLock, M!LoseRetry, M!Signal,
             M!At, M!Goto, M!Moving, M!TypeOK
    <2>3. CASE M!NoteAside(c) \/ M!NoteIn(c) \/ M!Disarm(c) \/ M!LeaveTry(c)
      BY <2>3
         DEF M!NoteAside, M!NoteIn, M!Disarm, M!LeaveTry, M!At, M!Goto,
             M!Moving, M!TypeOK
    <2>4. CASE M!Unwind(c) \/ M!StopPipeline(c) \/ M!ReleaseLocks(c) \/ M!Kill(c)
      BY <2>4
         DEF M!Unwind, M!StopPipeline, M!ReleaseLocks, M!Kill, M!Ends,
             M!At, M!Goto, M!Moving, M!TypeOK
    <2> QED
      BY <2>1, <2>2, <2>3, <2>4
  <1> QED
    BY <1>1, <1>2, EditFrame

LEMMA EditRecheck ==
    ASSUME M!TypeOK, M!EditIsKnown, NEW c \in Command, M!Recheck(c)
    PROVE  M!EditIsKnown'
  <1>1. UNCHANGED <<dir, head, saved, late, lostEdits, backup>>
    BY DEF M!Recheck, M!treeVars
  <1>2. \A o \in Command \ {c} : pc'[o] = pc[o]
    BY DEF M!Recheck, M!At, M!Goto, M!TypeOK
  <1>3. M!Moving(c)' => \A p \in M!PairSet(c) : ~M!Dirty(Pairs[c][p])
    BY DEF M!Recheck, M!At, M!Goto, M!Moving, M!TypeOK
  <1>4. ASSUME M!Moving(c)', NEW d \in M!Dests(c), dir[d] = "edit"
        PROVE  d \in saved \cup late
    <2>1. PICK p \in M!PairSet(c) : d \in M!Area(c, p)
      BY InOnePair
    <2>2. dir[d] = head[d]
      BY <1>3, <1>4, <2>1 DEF M!Dirty, M!Area
    <2>3. d \in Dest
      BY <2>1 DEF M!Area, M!Within
    <2> QED
      BY <1>4, <2>2, <2>3 DEF M!EditIsKnown
  <1>5. \A o \in Command : M!Moving(o)' =>
            M!Moving(o) \/ \A d \in M!Dests(o) : dir[d] = "edit" => d \in saved \cup late
    BY <1>2, <1>4 DEF M!Moving
  <1> QED
    BY <1>1, <1>5, EditFrame

LEMMA EditMoves ==
    ASSUME M!TypeOK, M!InBounds, M!EditIsKnown, NEW c \in Command,
           M!MoveAside(c) \/ M!MoveIn(c) \/ M!UnwindIn(c) \/ M!UnwindAside(c)
    PROVE  M!EditIsKnown'
  <1>1. UNCHANGED <<head, saved, late, lostEdits>>
    BY DEF M!MoveAside, M!MoveIn, M!UnwindIn, M!UnwindAside
  <1>2. \A o \in Command : M!Moving(o)' => M!Moving(o)
    BY DEF M!MoveAside, M!MoveIn, M!UnwindIn, M!UnwindAside, M!At,
           M!Goto, M!Moving, M!TypeOK
  <1>3. \A d \in Dest : backup[c][d] = "edit" => d \in saved \cup late
    BY DEF M!EditIsKnown
  <1>4. idx[c] \in M!PairSet(c) /\ M!Within(M!Target(c)) = M!Area(c, idx[c]) /\ M!Area(c, idx[c]) \subseteq M!Dests(c)
    BY PairFacts
       DEF M!MoveAside, M!MoveIn, M!UnwindIn, M!UnwindAside, M!InBounds,
           M!Working, M!Moving, M!Target, M!Area
  <1>5. CASE M!MoveAside(c)
    <2>1. \A d \in M!Dests(c) : dir[d] = "edit" => d \in saved \cup late
      BY <1>5 DEF M!MoveAside, M!Moving, M!EditIsKnown
    <2>2. \A d \in Dest : dir'[d] = "edit" => dir[d] = "edit"
      BY <1>5 DEF M!MoveAside, M!Absent
    <2>3. \A o \in Command, d \in Dest :
              backup'[o][d] = "edit" => backup[o][d] = "edit" \/ d \in saved \cup late
      BY <1>4, <1>5, <2>1, AsideEffect
    <2> QED
      BY <1>1, <1>2, <2>2, <2>3, EditFrame
  <1>6. CASE M!MoveIn(c)
    <2>1. \A d \in Dest : dir'[d] = "edit" => dir[d] = "edit"
      BY <1>6, PairFacts DEF M!MoveIn, M!TypeOK
    <2>2. backup' = backup
      BY <1>6 DEF M!MoveIn
    <2> QED
      BY <1>1, <1>2, <2>1, <2>2, EditFrame
  <1>7. CASE M!UnwindIn(c)
    <2>1. \A d \in Dest : dir'[d] = "edit" => dir[d] = "edit"
      BY <1>7 DEF M!UnwindIn, M!Absent
    <2>2. backup' = backup
      BY <1>7 DEF M!UnwindIn
    <2> QED
      BY <1>1, <1>2, <2>1, <2>2, EditFrame
  <1>8. CASE M!UnwindAside(c)
    <2>1. \A d \in Dest : dir'[d] = "edit" => dir[d] = "edit" \/ d \in saved \cup late
      BY <1>3, <1>8, BackEffect
    <2>2. \A o \in Command, d \in Dest : backup'[o][d] = "edit" => backup[o][d] = "edit"
      BY <1>8, BackEffect DEF M!Absent
    <2> QED
      BY <1>1, <1>2, <2>1, <2>2, EditFrame
  <1> QED
    BY <1>5, <1>6, <1>7, <1>8

\* An edit that is deleted with a copy was not there at the recheck.
LEMMA EditDiscard ==
    ASSUME M!TypeOK, M!EditIsKnown, NEW c \in Command, M!DiscardBackup(c)
    PROVE  M!EditIsKnown'
  <1>1. UNCHANGED <<dir, head, saved, late>>
    BY DEF M!DiscardBackup
  <1>2. \A o \in Command : M!Moving(o)' => M!Moving(o)
    BY DEF M!DiscardBackup, M!At, M!Goto, M!Moving, M!TypeOK
  <1>3. \A o \in Command, d \in Dest : backup'[o][d] = "edit" => backup[o][d] = "edit"
    BY DiscardEffect DEF M!Absent
  <1>4. lostEdits' \subseteq late
    <2>1. \A d \in M!Within(M!Target(c)) : backup[c][d] = "edit" => d \in saved \cup late
      BY DEF M!EditIsKnown, M!Within
    <2> QED
      BY <2>1 DEF M!DiscardBackup, M!EditIsKnown, M!OnlyLateEditsAreLost
  <1>5. \A o \in Command : M!Dests(o) \subseteq Dest
    BY DEF M!Dests, M!Within
  <1> QED
    BY <1>1, <1>2, <1>3, <1>4
       DEF M!EditIsKnown, M!OnlyLateEditsAreLost, M!Dests, M!Within,
           M!PairSet

\* A developer's edit under a working command comes late.
LEMMA EditDevelopers ==
    ASSUME M!TypeOK, M!EditIsKnown, NEW e \in Dest, M!Edit(e) \/ M!Commit(e)
    PROVE  M!EditIsKnown'
  <1>1. UNCHANGED <<backup, pc>>
    BY DEF M!Edit, M!Commit, M!moveVars
  <1>2. \A o \in Command : M!Dests(o) \subseteq Dest /\ (M!Moving(o)' <=> M!Moving(o))
    BY <1>1 DEF M!Dests, M!Within, M!Moving
  <1>3. CASE M!Edit(e)
    <2>1. /\ saved = {} /\ lostEdits = {} /\ UNCHANGED <<head, saved, lostEdits>>
          /\ \A d \in Dest : dir[d] # "edit" /\ \A o \in Command : backup[o][d] # "edit"
      BY <1>3 DEF M!Edit
    <2>2. \A d \in Dest : dir'[d] = "edit" => d = e
      BY <1>3, <2>1 DEF M!Edit, M!TypeOK
    <2>3. ASSUME NEW o \in Command, M!Moving(o), e \in M!Dests(o) PROVE e \in late'
      BY <1>3, <2>3 DEF M!Edit
    <2> QED
      BY <1>1, <1>2, <2>1, <2>2, <2>3
         DEF M!EditIsKnown, M!OnlyLateEditsAreLost, M!Dests, M!Within,
             M!PairSet
  <1>4. CASE M!Commit(e)
    <2>1. /\ UNCHANGED <<dir, late, lostEdits>> /\ saved \subseteq saved'
      BY <1>4 DEF M!Commit
    <2>2. \A d \in Dest : head'[d] = "edit" => d \in saved'
      BY <1>4 DEF M!Commit, M!TypeOK, M!EditIsKnown
    <2> QED
      BY <1>1, <1>2, <2>1, <2>2
         DEF M!EditIsKnown, M!OnlyLateEditsAreLost, M!Dests, M!Within,
             M!PairSet
  <1> QED
    BY <1>3, <1>4

LEMMA EditStep == ASSUME M!TypeOK, M!InBounds, M!EditIsKnown, M!Next PROVE M!EditIsKnown'
  <1>1. Editable \subseteq Dest
    BY MirrorAssumption DEF M!ConstantsFit
  <1> QED
    BY <1>1, EditQuiet, EditRecheck, EditMoves, EditDiscard, EditDevelopers
       DEF M!Next, M!Proceed

-----------------------------------------------------------------------------
(* Who has which lock, as long as no running command has lost one *)

LEMMA RacedStays == ASSUME M!TypeOK, M!Next, ~raced' PROVE ~raced
  <1>1. ASSUME NEW c \in Command, M!Proceed(c) PROVE raced => raced'
    BY <1>1
       DEF M!Proceed, M!Stage, M!CreateLock, M!JudgeHolder, M!BreakLock,
           M!LoseRetry, M!ReleaseLocks, M!Recheck, M!MoveAside,
           M!NoteAside, M!MoveIn, M!NoteIn, M!Disarm, M!LeaveTry, M!RemoveLocks,
           M!DiscardBackup, M!UnwindIn, M!UnwindAside, M!lockVars
  <1>2. ASSUME NEW c \in Command, M!Unwind(c) \/ M!StopPipeline(c) \/ M!Signal(c) \/ M!Kill(c)
        PROVE  raced => raced'
    BY <1>2 DEF M!Unwind, M!StopPipeline, M!Signal, M!Kill, M!lockVars
  <1>3. ASSUME NEW d \in Dest, M!Edit(d) \/ M!Commit(d) PROVE raced => raced'
    BY <1>3 DEF M!Edit, M!Commit, M!lockVars
  <1>4. Editable \subseteq Dest
    BY MirrorAssumption DEF M!ConstantsFit
  <1> QED
    BY <1>1, <1>2, <1>3, <1>4 DEF M!Next

\* Another command's step takes no lock away.
LEMMA OwnsFrame ==
    ASSUME NEW o \in Command, M!OwnsLocks(o),
           pc'[o] = pc[o], idx'[o] = idx[o], acquired'[o] = acquired[o],
           moved'[o] = moved[o], installed'[o] = installed[o],
           \A d \in acquired[o] : lock[d] = o => lock'[d] = o
    PROVE  M!OwnsLocks(o)'
    BY DEF M!OwnsLocks, M!Alive, M!Holding, M!Working, M!Moving,
           M!Locks, M!LockPlaces, M!LockAt

\* Steps that leave the lock files and the list of them alone
LEMMA OwnsQuiet ==
    ASSUME M!TypeOK, M!InBounds, NEW c \in Command, M!OwnsLocks(c), M!Progress(c),
           \/ M!Stage(c) \/ M!JudgeHolder(c) \/ M!LoseRetry(c) \/ M!Recheck(c) \/ M!MoveAside(c) \/ M!NoteAside(c)
           \/ M!MoveIn(c) \/ M!NoteIn(c) \/ M!Disarm(c) \/ M!DiscardBackup(c) \/ M!Unwind(c) \/ M!StopPipeline(c)
           \/ M!Signal(c) \/ M!UnwindIn(c) \/ M!UnwindAside(c)
    PROVE  \A o \in Command : M!OwnsLocks(o) => M!OwnsLocks(o)'
  <1>1. UNCHANGED <<lock, acquired>>
    BY DEF M!Stage, M!JudgeHolder, M!LoseRetry, M!Recheck, M!MoveAside,
           M!NoteAside, M!MoveIn, M!NoteIn, M!Disarm, M!DiscardBackup,
           M!Unwind, M!StopPipeline, M!Signal, M!UnwindIn, M!UnwindAside,
           M!lockVars
  <1>2. \A o \in Command \ {c} :
            pc'[o] = pc[o] /\ idx'[o] = idx[o] /\ moved'[o] = moved[o] /\ installed'[o] = installed[o]
    <2>1. \A o \in Command \ {c} : moved'[o] = moved[o] /\ installed'[o] = installed[o]
      BY DEF M!TypeOK, M!Stage, M!JudgeHolder, M!LoseRetry, M!Recheck,
             M!MoveAside, M!NoteAside, M!MoveIn, M!NoteIn, M!Disarm,
             M!NothingToUndo, M!DiscardBackup, M!Unwind, M!StopPipeline, M!Signal,
             M!UnwindIn, M!UnwindAside, M!moveVars
    <2>2. \A o \in Command \ {c} : pc'[o] = pc[o]
      BY DEF M!TypeOK, M!At, M!Goto, M!Stage, M!JudgeHolder,
             M!LoseRetry, M!Recheck, M!MoveAside, M!NoteAside, M!MoveIn,
             M!NoteIn, M!Disarm, M!DiscardBackup, M!Unwind,
             M!StopPipeline, M!Signal, M!UnwindIn, M!UnwindAside
    <2>3. \A o \in Command \ {c} : idx'[o] = idx[o]
      BY DEF M!TypeOK, M!At, M!Stage, M!JudgeHolder, M!LoseRetry,
             M!Recheck, M!MoveAside, M!NoteAside, M!MoveIn, M!NoteIn,
             M!Disarm, M!DiscardBackup, M!Unwind, M!StopPipeline,
             M!Signal, M!UnwindIn, M!UnwindAside
    <2> QED
      BY <2>1, <2>2, <2>3
  <1>3. ASSUME NEW o \in Command \ {c}, M!OwnsLocks(o) PROVE M!OwnsLocks(o)'
    BY <1>1, <1>2, <1>3, OwnsFrame
  <1>4. M!OwnsLocks(c)'
    <2>1. CASE M!Stage(c)
      <3>1. pc[c] = "idle" /\ pc'[c] = "create" /\ idx'[c] = 1
        BY <2>1 DEF M!Stage, M!At, M!Goto, M!TypeOK
      <3>2. \A k \in M!LockPlaces(c) : ~(k < 1)
        BY PairFacts DEF M!LockPlaces
      <3> QED
        BY <1>1, <3>1, <3>2
           DEF M!OwnsLocks, M!Holding, M!Working, M!Moving, M!LockPlaces,
               M!LockAt
    <2>2. CASE M!JudgeHolder(c) \/ M!LoseRetry(c) \/ M!Signal(c)
      <3>1. /\ pc[c] \in {"create", "break", "createAgain", "recheck"}
            /\ (idx'[c] = idx[c] /\ pc'[c] = "break" /\ pc[c] = "create") \/ pc'[c] = "release"
            /\ moved'[c] = moved[c] /\ installed'[c] = installed[c]
        BY <2>2
           DEF M!JudgeHolder, M!LoseRetry, M!Signal, M!At, M!Goto,
               M!TypeOK, M!moveVars
      <3>2. moved[c] \cup installed[c] = {}
        BY <3>1 DEF M!Progress, M!Early
      <3> QED
        BY <1>1, <3>1, <3>2
           DEF M!OwnsLocks, M!Holding, M!Working, M!Moving, M!LockPlaces,
               M!LockAt, M!Alive
    <2>3. CASE \/ M!Recheck(c) \/ M!MoveAside(c) \/ M!NoteAside(c) \/ M!MoveIn(c) \/ M!NoteIn(c) \/ M!Disarm(c)
               \/ M!Unwind(c) \/ M!StopPipeline(c) \/ M!UnwindIn(c) \/ M!UnwindAside(c)
      <3>1. pc[c] = "recheck" \/ M!Working(c)
        BY <2>3
           DEF M!Recheck, M!MoveAside, M!NoteAside, M!MoveIn, M!NoteIn,
               M!Disarm, M!Unwind, M!StopPipeline,
               M!UnwindIn, M!UnwindAside, M!Working, M!Moving
      <3>2. pc'[c] \in {"aside", "asideDone", "in", "inDone", "disarm", "discard", "unwindIn", "unwindAside", "release"}
        BY <2>3
           DEF M!TypeOK, M!At, M!Goto, M!Recheck, M!MoveAside,
               M!NoteAside, M!MoveIn, M!NoteIn, M!Disarm,
               M!Unwind, M!StopPipeline, M!UnwindIn,
               M!UnwindAside
      <3> QED
        BY <1>1, <3>1, <3>2
           DEF M!OwnsLocks, M!Holding, M!Working, M!Moving, M!Locks,
               M!LockPlaces, M!LockAt, M!Alive
    <2>4. CASE M!DiscardBackup(c)
      <3>1. /\ pc[c] = "discard" /\ pc'[c] \in {"discard", "release", "over"}
            /\ moved'[c] = moved[c] /\ installed'[c] = installed[c]
        BY <2>4 DEF M!DiscardBackup, M!At, M!Goto, M!TypeOK
      <3>2. moved[c] \cup installed[c] = {}
        BY <3>1 DEF M!Progress
      <3> QED
        BY <1>1, <3>1, <3>2 DEF M!OwnsLocks, M!Holding, M!Working, M!Moving, M!Alive
    <2> QED
      BY <2>1, <2>2, <2>3, <2>4
  <1> QED
    BY <1>3, <1>4

LEMMA OwnsCreate ==
    ASSUME M!TypeOK, M!InBounds, NEW c \in Command, M!OwnsLocks(c), M!Progress(c), M!CreateLock(c)
    PROVE  \A o \in Command : M!OwnsLocks(o) => M!OwnsLocks(o)'
  <1>1. /\ idx[c] \in M!LockPlaces(c) /\ M!Wanted(c) = M!LockAt(c, idx[c]) /\ M!Wanted(c) \in Dest
        /\ pc[c] \in {"create", "createAgain"}
    BY LockFacts DEF M!InBounds, M!CreateLock, M!Wanted
  <1>2. /\ lock[M!Wanted(c)] = M!NoLock
        /\ lock' = [lock EXCEPT ![M!Wanted(c)] = c]
        /\ acquired' = [acquired EXCEPT ![c] = @ \cup {M!Wanted(c)}]
        /\ moved' = moved /\ installed' = installed
    BY DEF M!CreateLock, M!moveVars
  <1>3. ASSUME NEW o \in Command \ {c}, M!OwnsLocks(o) PROVE M!OwnsLocks(o)'
    <2>1. \A d \in acquired[o] : lock[d] = o => lock'[d] = o
      BY <1>1, <1>2, PairFacts DEF M!NoLock, M!TypeOK
    <2> QED
      BY <1>2, <1>3, <2>1, NextPlace, OwnsFrame DEF M!CreateLock, M!TypeOK
  <1>4. M!OwnsLocks(c)'
    <2>1. acquired'[c] = acquired[c] \cup {M!Wanted(c)} /\ lock'[M!Wanted(c)] = c
      BY <1>1, <1>2 DEF M!TypeOK
    <2>2. \A d \in acquired'[c] : lock'[d] = c
      BY <1>1, <1>2, <2>1 DEF M!OwnsLocks, M!Alive, M!TypeOK
    <2>3. \A k \in M!LockPlaces(c) : k <= idx[c] => M!LockAt(c, k) \in acquired'[c]
      <3> TAKE k \in M!LockPlaces(c)
      <3> HAVE k <= idx[c]
      <3>1. k \in Nat /\ idx[c] \in Nat
        BY LockFacts DEF M!TypeOK
      <3>2. CASE k = idx[c]
        BY <1>1, <2>1, <3>2
      <3>3. CASE k < idx[c]
        BY <1>1, <2>1, <3>3 DEF M!OwnsLocks
      <3> QED
        BY <3>1, <3>2, <3>3
    <2>4. \/ pc'[c] = "recheck" /\ \A k \in M!LockPlaces(c) : k <= idx[c]
          \/ pc'[c] = "create" /\ \A k \in M!LockPlaces(c) : k < idx'[c] => k <= idx[c]
      BY NextPlace DEF M!CreateLock
    <2>5. pc'[c] = "recheck" => M!Locks(c) \subseteq acquired'[c]
      BY <2>3, <2>4 DEF M!Locks
    <2>6. pc'[c] = "create" => \A k \in M!LockPlaces(c) : k < idx'[c] => M!LockAt(c, k) \in acquired'[c]
      BY <2>3, <2>4
    <2> QED
      BY <2>2, <2>4, <2>5, <2>6
         DEF M!OwnsLocks, M!Holding, M!Working, M!Moving, M!Locks,
             M!LockPlaces, M!LockAt
  <1> QED
    BY <1>3, <1>4

\* A lock of a running command is broken only with a race.
LEMMA OwnsBreak ==
    ASSUME M!TypeOK, M!InBounds, NEW c \in Command, M!OwnsLocks(c), M!Progress(c), ~raced', M!BreakLock(c)
    PROVE  \A o \in Command : M!OwnsLocks(o) => M!OwnsLocks(o)'
  <1>1. /\ UNCHANGED <<acquired, moved, installed, idx>>
        /\ pc[c] = "break" /\ pc'[c] = "createAgain"
        /\ \A o \in Command \ {c} : pc'[o] = pc[o]
    BY DEF M!BreakLock, M!Goto, M!TypeOK, M!moveVars
  <1>2. ASSUME NEW o \in Command, M!Alive(o), NEW d \in Dest, lock[d] = o PROVE lock'[d] = o
    <2>1. CASE lock' = lock
      BY <1>2, <2>1
    <2>2. CASE lock' # lock
      <3> DEFINE holder == lock[M!Wanted(c)]
                 running == holder # M!NoLock /\ M!Alive(holder)
                 safe == running /\ Impl[holder] = "ps1"
      <3>1. ~safe /\ lock' = [lock EXCEPT ![M!Wanted(c)] = M!NoLock] /\ raced' = (raced \/ (running /\ ~safe))
        BY <2>2 DEF M!BreakLock
      <3>2. ~running
        BY <3>1
      <3>3. o # M!NoLock
        BY PairFacts DEF M!NoLock
      <3>4. d # M!Wanted(c)
        BY <1>2, <3>2, <3>3
      <3> QED
        BY <1>2, <3>1, <3>4 DEF M!TypeOK
    <2> QED
      BY <2>1, <2>2
  <1>3. \A o \in Command : acquired[o] \subseteq Dest
    BY DEF M!TypeOK
  <1>4. ASSUME NEW o \in Command \ {c}, M!OwnsLocks(o) PROVE M!OwnsLocks(o)'
    <2>1. CASE M!Alive(o)
      BY <1>1, <1>2, <1>3, <1>4, <2>1, OwnsFrame
    <2>2. CASE ~M!Alive(o)
      BY <1>1, <1>4, <2>2
         DEF M!OwnsLocks, M!Alive, M!Holding, M!Working, M!Moving,
             M!Locks, M!LockPlaces, M!LockAt
    <2> QED
      BY <2>1, <2>2
  <1>5. M!OwnsLocks(c)'
    <2>1. M!Alive(c)
      BY <1>1 DEF M!Alive
    <2>2. \A d \in acquired[c] : lock'[d] = c
      BY <1>2, <1>3, <2>1 DEF M!OwnsLocks
    <2> QED
      BY <1>1, <2>2
         DEF M!OwnsLocks, M!Holding, M!Working, M!Moving, M!LockPlaces,
             M!LockAt
  <1> QED
    BY <1>4, <1>5

\* A command that removes its lock files removes nobody else's.
LEMMA OnlyItsOwn ==
    ASSUME M!TypeOK, NEW c \in Command, M!OwnsLocks(c), M!Alive(c), M!RemoveLocks(c),
           NEW o \in Command \ {c}, M!OwnsLocks(o), NEW d \in acquired[o], lock[d] = o
    PROVE  lock'[d] = o
  <1>1. \A e \in acquired[c] : lock[e] = c
    BY DEF M!OwnsLocks
  <1>2. d \in Dest /\ d \notin acquired[c]
    BY <1>1 DEF M!TypeOK
  <1> QED
    BY <1>2 DEF M!RemoveLocks

LEMMA OwnsEnd ==
    ASSUME M!TypeOK, NEW c \in Command, M!OwnsLocks(c), M!ReleaseLocks(c) \/ M!LeaveTry(c) \/ M!Kill(c)
    PROVE  \A o \in Command : M!OwnsLocks(o) => M!OwnsLocks(o)'
  <1>1. /\ pc'[c] \in {"over", "discard"} /\ acquired'[c] = {}
        /\ \A o \in Command \ {c} :
               /\ pc'[o] = pc[o] /\ idx'[o] = idx[o] /\ acquired'[o] = acquired[o]
               /\ moved'[o] = moved[o] /\ installed'[o] = installed[o]
    <2>1. CASE M!Ends(c)
      BY <2>1 DEF M!Ends, M!At, M!Goto, M!TypeOK
    <2>2. CASE M!LeaveTry(c)
      BY <2>2 DEF M!LeaveTry, M!NothingToUndo, M!At, M!Goto, M!TypeOK
    <2> QED
      BY <2>1, <2>2 DEF M!ReleaseLocks, M!Kill
  <1>2. ASSUME NEW o \in Command \ {c}, M!OwnsLocks(o), NEW d \in acquired[o], lock[d] = o
        PROVE  lock'[d] = o
    <2>1. CASE M!ReleaseLocks(c) \/ M!LeaveTry(c)
      BY <1>2, <2>1, OnlyItsOwn DEF M!ReleaseLocks, M!LeaveTry, M!Alive
    <2>2. CASE M!Kill(c)
      BY <1>2, <2>2 DEF M!Kill
    <2> QED
      BY <2>1, <2>2
  <1>3. ASSUME NEW o \in Command \ {c}, M!OwnsLocks(o) PROVE M!OwnsLocks(o)'
    BY <1>1, <1>2, <1>3, OwnsFrame
  <1>4. M!OwnsLocks(c)'
    BY <1>1 DEF M!OwnsLocks, M!Alive, M!Holding, M!Working, M!Moving
  <1> QED
    BY <1>3, <1>4

LEMMA OwnsDevelopers ==
    ASSUME NEW d \in Dest, M!Edit(d) \/ M!Commit(d)
    PROVE  \A o \in Command : M!OwnsLocks(o) => M!OwnsLocks(o)'
  <1>1. UNCHANGED <<lock, acquired, pc, idx, moved, installed>>
    BY DEF M!Edit, M!Commit, M!lockVars, M!moveVars
  <1> QED
    BY <1>1, OwnsFrame

LEMMA OwnsStep ==
    ASSUME M!TypeOK, M!InBounds, M!Next, ~raced', \A c \in Command : M!OwnsLocks(c) /\ M!Progress(c)
    PROVE  \A c \in Command : M!OwnsLocks(c)'
  <1>1. Editable \subseteq Dest
    BY MirrorAssumption DEF M!ConstantsFit
  <1> QED
    BY <1>1, OwnsQuiet, OwnsCreate, OwnsBreak, OwnsEnd, OwnsDevelopers
       DEF M!Next, M!Proceed

\* Two commands that hold their locks have nothing in common.
LEMMA HoldersAreApart ==
    ASSUME NEW a \in Command, NEW b \in Command, a # b,
           M!OwnsLocks(a), M!OwnsLocks(b), M!Holding(a), M!Holding(b)
    PROVE  /\ M!Dests(a) \cap M!Dests(b) = {}
           /\ \A p \in M!PairSet(b) : Parent[Pairs[b][p]] \notin M!Dests(a)
  <1>1. M!Alive(a) /\ M!Alive(b)
    BY DEF M!Alive, M!Holding, M!Working, M!Moving
  <1>2. M!Locks(a) \cap M!Locks(b) = {}
    BY <1>1 DEF M!OwnsLocks
  <1>3. ASSUME NEW p \in M!PairSet(a), NEW q \in M!PairSet(b)
        PROVE  /\ Pairs[a][p] # Pairs[b][q]
               /\ Parent[Pairs[a][p]] # Pairs[b][q] /\ Parent[Pairs[b][q]] # Pairs[a][p]
    <2>1. /\ Pairs[a][p] \in Dest /\ Pairs[b][q] \in Dest
          /\ Pairs[a][p] \in M!Locks(a) /\ Pairs[b][q] \in M!Locks(b)
          /\ Parent[Pairs[a][p]] # NoDest => Parent[Pairs[a][p]] \in M!Locks(a)
          /\ Parent[Pairs[b][q]] # NoDest => Parent[Pairs[b][q]] \in M!Locks(b)
      BY PairFacts, LockFacts
    <2>2. NoDest \notin Dest
      BY MirrorAssumption DEF M!ConstantsFit
    <2> QED
      BY <1>2, <2>1, <2>2
  <1>4. ASSUME NEW d \in M!Dests(a), d \in M!Dests(b) PROVE FALSE
    <2>1. PICK p \in M!PairSet(a) : d \in M!Area(a, p)
      BY InOnePair
    <2>2. PICK q \in M!PairSet(b) : d \in M!Area(b, q)
      BY <1>4, InOnePair
    <2>3. Pairs[a][p] = Pairs[b][q] \/ Parent[Pairs[a][p]] = Pairs[b][q] \/ Parent[Pairs[b][q]] = Pairs[a][p]
      BY <2>1, <2>2 DEF M!Area, M!Within
    <2> QED
      BY <1>3, <2>3
  <1>5. ASSUME NEW q \in M!PairSet(b), Parent[Pairs[b][q]] \in M!Dests(a) PROVE FALSE
    <2>1. PICK p \in M!PairSet(a) : Parent[Pairs[b][q]] \in M!Area(a, p)
      BY <1>5, InOnePair
    <2>2. /\ Pairs[a][p] \in Dest /\ Pairs[b][q] \in Dest
      BY PairFacts
    <2>3. Parent[Pairs[b][q]] # NoDest /\ Parent[Pairs[b][q]] \in M!Within(Pairs[a][p])
      BY <2>1, <2>2, DestFacts DEF M!Area, M!Within
    <2>4. Parent[Pairs[b][q]] = Pairs[a][p]
      BY <2>2, <2>3, DestFacts
    <2> QED
      BY <1>3, <2>4
  <1> QED
    BY <1>4, <1>5

-----------------------------------------------------------------------------
(* Whose copies are there *)

\* A command's step leaves the others where they are.
LEMMA PlaceOfOthers ==
    ASSUME M!TypeOK, NEW c \in Command,
           M!Proceed(c) \/ M!Unwind(c) \/ M!StopPipeline(c) \/ M!Signal(c) \/ M!Kill(c)
    PROVE  \A o \in Command \ {c} : pc'[o] = pc[o] /\ idx'[o] = idx[o]
  <1>1. CASE M!Ends(c)
    BY <1>1 DEF M!Ends, M!At, M!Goto, M!TypeOK
  <1>2. CASE M!CreateLock(c)
    BY <1>2, NextPlace DEF M!CreateLock
  <1>3. CASE M!Stage(c) \/ M!JudgeHolder(c) \/ M!BreakLock(c) \/ M!LoseRetry(c) \/ M!Signal(c)
    BY <1>3
       DEF M!Stage, M!JudgeHolder, M!BreakLock, M!LoseRetry, M!Signal,
           M!At, M!Goto, M!TypeOK
  <1>4. CASE \/ M!Recheck(c) \/ M!MoveAside(c) \/ M!NoteAside(c) \/ M!MoveIn(c) \/ M!NoteIn(c)
             \/ M!Disarm(c) \/ M!LeaveTry(c) \/ M!DiscardBackup(c)
    BY <1>4
       DEF M!Recheck, M!MoveAside, M!NoteAside, M!MoveIn, M!NoteIn,
           M!Disarm, M!LeaveTry, M!DiscardBackup, M!At, M!Goto, M!TypeOK
  <1>5. CASE M!Unwind(c) \/ M!StopPipeline(c) \/ M!UnwindIn(c) \/ M!UnwindAside(c)
    BY <1>5
       DEF M!Unwind, M!StopPipeline, M!UnwindIn, M!UnwindAside, M!At,
           M!Goto, M!TypeOK
  <1> QED
    BY <1>1, <1>2, <1>3, <1>4, <1>5 DEF M!Proceed, M!ReleaseLocks, M!Kill

\* What makes a copy stay one
LEMMA CopyStays ==
    ASSUME NEW d, M!InBackup(d),
           \A o \in Command : pc[o] # "discard" /\ backup[o][d] # M!Absent =>
                                 pc'[o] # "discard" /\ backup'[o][d] # M!Absent
    PROVE  M!InBackup(d)'
  <1>1. PICK o \in Command : pc[o] # "discard" /\ backup[o][d] # M!Absent
    BY DEF M!InBackup
  <1>2. pc'[o] # "discard" /\ backup'[o][d] # M!Absent
    BY <1>1
  <1> QED
    BY <1>2 DEF M!InBackup, M!Absent

-----------------------------------------------------------------------------
(* How far a command is with a pair, when others step *)

\* What is known of a pair is known after the step.
PairKept(c, p) ==
    /\ M!AsBefore(c, p) => M!AsBefore(c, p)'
    /\ M!Untouched(c, p) => M!Untouched(c, p)'
    /\ M!Secured(c, p) => M!Secured(c, p)'
    /\ M!Noted(c, p) => M!Noted(c, p)'
    /\ M!HasRoom(c, p) => M!HasRoom(c, p)'
    /\ M!IsFilled(c, p) => M!IsFilled(c, p)'
    /\ M!IsEmpty(c, p) => M!IsEmpty(c, p)'
    /\ M!Replaced(c, p) => M!Replaced(c, p)'
    /\ M!ToUndo(c, p) => M!ToUndo(c, p)'
    /\ (\A d \in M!Area(c, p) : M!InBackup(d)) => (\A d \in M!Area(c, p) : M!InBackup(d))'

\* Nothing that a step does to a pair's directories, other than an edit
LEMMA PairFrame ==
    ASSUME M!TypeOK, NEW c \in Command, NEW p \in M!PairSet(c),
           p \in moved'[c] <=> p \in moved[c],
           p \in installed'[c] <=> p \in installed[c],
           \A d \in M!Area(c, p) :
               /\ before'[c][d] = before[c][d] /\ backup'[c][d] = backup[c][d]
               /\ dir'[d] = dir[d] \/ (dir[d] # M!Absent /\ dir'[d] = "edit")
               /\ M!InBackup(d) => M!InBackup(d)',
           Parent[Pairs[c][p]] # NoDest /\ dir[Parent[Pairs[c][p]]] # M!Absent => dir'[Parent[Pairs[c][p]]] # M!Absent
    PROVE  PairKept(c, p)
  <1>1. Pairs[c][p] \in M!Area(c, p) /\ M!Area(c, p)' = M!Area(c, p)
    BY PairFacts DEF M!Area, M!Within
  <1>2. M!AsBefore(c, p) => M!AsBefore(c, p)'
    BY <1>1 DEF M!AsBefore
  <1>3. M!Untouched(c, p) => M!Untouched(c, p)'
    BY <1>1, <1>2 DEF M!Untouched
  <1>4. M!Secured(c, p) => M!Secured(c, p)'
    BY <1>1 DEF M!Secured
  <1>5. /\ M!Noted(c, p) => M!Noted(c, p)'
        /\ M!HasRoom(c, p) => M!HasRoom(c, p)'
    BY <1>1 DEF M!Noted, M!HasRoom
  <1>6. /\ M!IsFilled(c, p) => M!IsFilled(c, p)'
        /\ M!IsEmpty(c, p) => M!IsEmpty(c, p)'
    BY <1>1 DEF M!IsFilled, M!IsEmpty, M!Absent
  <1>7. M!Replaced(c, p) => M!Replaced(c, p)'
    BY <1>4, <1>5, <1>6 DEF M!Replaced
  <1>8. M!ToUndo(c, p) => M!ToUndo(c, p)'
    BY <1>3, <1>4, <1>5, <1>6, <1>7 DEF M!ToUndo
  <1> QED
    BY <1>1, <1>2, <1>3, <1>4, <1>5, <1>6, <1>7, <1>8 DEF PairKept

\* A command that does not step, and whose directories nobody else moves
LEMMA ProgressFrame ==
    ASSUME M!TypeOK, M!InBounds, NEW c \in Command, M!Progress(c),
           pc'[c] = pc[c], idx'[c] = idx[c], moved'[c] = moved[c], installed'[c] = installed[c],
           before'[c] = before[c], broken'[c] = broken[c], backup'[c] = backup[c],
           M!Holding(c) =>
               /\ \A d \in M!Dests(c) : dir'[d] = dir[d] \/ (dir[d] # M!Absent /\ dir'[d] = "edit")
               /\ \A d \in M!Dests(c) : M!InBackup(d) => M!InBackup(d)'
               /\ \A p \in M!PairSet(c) :
                      Parent[Pairs[c][p]] # NoDest /\ dir[Parent[Pairs[c][p]]] # M!Absent =>
                          dir'[Parent[Pairs[c][p]]] # M!Absent
    PROVE  M!Progress(c)'
  <1>1. CASE ~M!Holding(c)
    BY <1>1
       DEF M!Progress, M!Holding, M!Working, M!Moving, M!Unwinding,
           M!Early
  <1>2. CASE M!Holding(c)
    <2>1. ASSUME NEW p \in M!PairSet(c)
          PROVE  PairKept(c, p)
      <3>1. M!Area(c, p) \subseteq M!Dests(c)
        BY PairFacts
      <3>2. \A d \in M!Area(c, p) :
                /\ before'[c][d] = before[c][d] /\ backup'[c][d] = backup[c][d]
                /\ dir'[d] = dir[d] \/ (dir[d] # M!Absent /\ dir'[d] = "edit")
                /\ M!InBackup(d) => M!InBackup(d)'
        BY <1>2, <3>1
      <3> QED
        BY <1>2, <3>2, PairFrame
    <2>2. M!PairSet(c)' = M!PairSet(c) /\ \A p \in M!PairSet(c) : M!Area(c, p)' = M!Area(c, p)
      BY DEF M!PairSet, M!Area, M!Within
    <2>3. M!Working(c) => idx[c] \in M!PairSet(c)
      BY DEF M!InBounds
    <2>4. M!Moving(c) /\ M!MoveProgress(c) => M!MoveProgress(c)'
      BY <2>1, <2>2, <2>3 DEF M!MoveProgress, PairKept, M!Working
    <2>5. M!Unwinding(c) /\ M!UnwindProgress(c) => M!UnwindProgress(c)'
      BY <2>1, <2>2, <2>3 DEF M!UnwindProgress, PairKept, M!Working, M!Unwinding
    <2>6. \A p \in M!PairSet(c) : M!AsBefore(c, p) => M!AsBefore(c, p)'
      BY <2>1 DEF PairKept
    <2>7. \A p \in M!PairSet(c) : M!IsFilled(c, p) => M!IsFilled(c, p)'
      BY <2>1 DEF PairKept
    <2> QED
      BY <1>2, <2>2, <2>4, <2>5, <2>6, <2>7
         DEF M!Progress, M!Holding, M!Working, M!Moving, M!Unwinding,
             M!Early
  <1> QED
    BY <1>1, <1>2

-----------------------------------------------------------------------------
(* How far a command is with its pairs, after a step of its own *)

\* A step on one pair keeps what is known of the others.
LEMMA OtherPairs ==
    ASSUME M!TypeOK, NEW c \in Command, idx[c] \in M!PairSet(c), NEW p \in M!PairSet(c), p # idx[c],
           p \in moved'[c] <=> p \in moved[c],
           p \in installed'[c] <=> p \in installed[c],
           before'[c] = before[c],
           \A d \in Dest \ M!Within(M!Target(c)) : dir'[d] = dir[d] /\ backup'[c][d] = backup[c][d],
           \A o \in Command \ {c} : backup'[o] = backup[o] /\ pc'[o] = pc[o],
           pc'[c] # "discard"
    PROVE  PairKept(c, p)
  <1>1. /\ M!Area(c, p) \subseteq Dest /\ M!Area(c, p) \cap M!Within(M!Target(c)) = {}
        /\ Parent[Pairs[c][p]] \notin M!Within(M!Target(c)) /\ Pairs[c][p] \in Dest
    BY PairFacts DEF M!Target, M!Area
  <1>2. \A d \in M!Area(c, p) : dir'[d] = dir[d] /\ backup'[c][d] = backup[c][d] /\ before'[c][d] = before[c][d]
    BY <1>1
  <1>3. \A d \in M!Area(c, p) : M!InBackup(d) => M!InBackup(d)'
    BY <1>2, CopyStays
  <1>4. Parent[Pairs[c][p]] # NoDest => dir'[Parent[Pairs[c][p]]] = dir[Parent[Pairs[c][p]]]
    BY <1>1, DestFacts
  <1> QED
    BY <1>2, <1>3, <1>4, PairFrame

\* Until it has all its locks a command has moved nothing.
LEMMA ProgressEarly ==
    ASSUME M!TypeOK, NEW c \in Command, M!Progress(c),
           \/ M!Stage(c) \/ M!CreateLock(c) \/ M!JudgeHolder(c) \/ M!BreakLock(c) \/ M!LoseRetry(c) \/ M!Signal(c)
           \/ M!ReleaseLocks(c) \/ M!Kill(c)
    PROVE  M!Progress(c)'
  <1>1. CASE M!ReleaseLocks(c) \/ M!Kill(c)
    <2>1. pc'[c] = "over"
      BY <1>1
         DEF M!ReleaseLocks, M!Kill, M!Ends, M!At, M!Goto, M!TypeOK
    <2> QED
      BY <2>1 DEF M!Progress, M!Early, M!Moving, M!Unwinding
  <1>2. CASE M!Stage(c) \/ M!CreateLock(c) \/ M!JudgeHolder(c) \/ M!BreakLock(c) \/ M!LoseRetry(c) \/ M!Signal(c)
    <2>1. /\ pc[c] \in {"idle", "create", "break", "createAgain", "recheck"}
          /\ UNCHANGED <<moved, installed, broken, backup>>
      BY <1>2
         DEF M!Stage, M!CreateLock, M!JudgeHolder, M!BreakLock,
             M!LoseRetry, M!Signal, M!moveVars
    <2>2. pc'[c] \in {"create", "break", "createAgain", "recheck", "release"}
      <3>1. CASE M!CreateLock(c)
        BY <3>1, NextPlace DEF M!CreateLock
      <3>2. CASE M!Stage(c) \/ M!JudgeHolder(c) \/ M!BreakLock(c) \/ M!LoseRetry(c) \/ M!Signal(c)
        BY <3>2
           DEF M!Stage, M!JudgeHolder, M!BreakLock, M!LoseRetry,
               M!Signal, M!At, M!Goto, M!TypeOK
      <3> QED
        BY <1>2, <3>1, <3>2
    <2>3. moved[c] = {} /\ installed[c] = {} /\ ~broken[c] /\ \A d \in Dest : backup[c][d] = M!Absent
      BY <2>1 DEF M!Progress, M!Early
    <2> QED
      BY <2>1, <2>2, <2>3
         DEF M!Progress, M!Early, M!Moving, M!Unwinding, M!Absent
  <1> QED
    BY <1>1, <1>2

\* The recheck finds every pair as it will be compared with.
LEMMA ProgressRecheck ==
    ASSUME M!TypeOK, NEW c \in Command, M!Progress(c), M!Recheck(c)
    PROVE  M!Progress(c)'
  <1>1. /\ moved[c] = {} /\ installed[c] = {} /\ ~broken[c] /\ \A d \in Dest : backup[c][d] = M!Absent
        /\ UNCHANGED <<dir, moved, installed, broken, backup>>
    BY DEF M!Recheck, M!Progress, M!Early, M!treeVars
  <1>2. CASE pc'[c] = "release"
    BY <1>1, <1>2 DEF M!Progress, M!Early, M!Moving, M!Unwinding
  <1>3. CASE before' = [before EXCEPT ![c] = dir] /\ M!At(c, "aside", 1)
    <2>1. before'[c] = dir /\ pc'[c] = "aside" /\ idx'[c] = 1
      BY <1>3 DEF M!TypeOK, M!At, M!Goto
    <2>2. ASSUME NEW p \in M!PairSet(c) PROVE M!Untouched(c, p)'
      <3>1. M!Area(c, p) \subseteq Dest /\ M!Area(c, p)' = M!Area(c, p)
        BY PairFacts DEF M!Area, M!Within
      <3> QED
        BY <1>1, <2>1, <3>1 DEF M!Untouched, M!AsBefore, M!Absent
    <2>3. M!PairSet(c) = 1 .. Len(Pairs[c]) /\ Len(Pairs[c]) \in Nat /\ Len(Pairs[c]) >= 1
      BY PairFacts
    <2>4. M!MoveProgress(c)'
      BY <2>1, <2>2, <2>3 DEF M!MoveProgress, M!PairSet
    <2> QED
      BY <1>1, <2>1, <2>4 DEF M!Progress, M!Early, M!Moving, M!Unwinding
  <1> QED
    BY <1>2, <1>3 DEF M!Recheck, M!At, M!Goto, M!TypeOK

\* What is moved aside is in the backup, and nothing is left in its place.
LEMMA ProgressAside ==
    ASSUME M!TypeOK, M!InBounds, M!NoOrphan, M!AbsentIsKept, ~raced,
           NEW c \in Command, M!Progress(c), M!MoveAside(c)
    PROVE  M!Progress(c)'
  <1> DEFINE n == idx[c]
             T == M!Target(c)
  <1>1. pc[c] = "aside" /\ n \in M!PairSet(c) /\ T = Pairs[c][n] /\ n \in Nat
    BY DEF M!MoveAside, M!InBounds, M!Working, M!Moving, M!Target,
           M!TypeOK
  <1>2. /\ M!MoveProgress(c) /\ ~broken[c] /\ M!Untouched(c, n)
        /\ \A p \in M!PairSet(c) : p < n => M!Replaced(c, p)
        /\ \A p \in M!PairSet(c) : p > n => M!Untouched(c, p)
    BY <1>1 DEF M!Progress, M!MoveProgress, M!Moving
  <1>3. /\ UNCHANGED <<moved, installed, before, broken, idx>>
        /\ \A o \in Command \ {c} : backup'[o] = backup[o] /\ pc'[o] = pc[o]
        /\ pc'[c] # "discard"
        /\ \A d \in Dest \ M!Within(T) : dir'[d] = dir[d] /\ backup'[c][d] = backup[c][d]
    BY AsideEffect, PlaceOfOthers DEF M!MoveAside, M!Proceed
  <1>4. \A p \in M!PairSet(c) : p # n => PairKept(c, p)
    BY <1>1, <1>3, OtherPairs
  <1>5. /\ M!Area(c, n) \subseteq Dest /\ M!Within(T) = M!Area(c, n) /\ T \in Dest /\ T \in M!Area(c, n)
        /\ Parent[T] \notin M!Area(c, n) /\ Parent[T] \in Dest \cup {NoDest} /\ NoDest \notin Dest
    BY <1>1, PairFacts, DestFacts DEF M!Area
  <1>6. \A d \in M!Area(c, n) : dir[d] = M!Absent =>
            \E o \in Command \ {c} : pc[o] # "discard" /\ backup[o][d] # M!Absent
    BY <1>2, <1>5 DEF M!Untouched, M!AbsentIsKept, M!InBackup
  <1>7. \A d \in M!Area(c, n) : dir[d] \in {before[c][d], "edit"} /\ backup[c][d] = M!Absent
    BY <1>2 DEF M!Untouched, M!AsBefore
  <1>8. n \notin moved[c] /\ n \notin installed[c]
    BY <1>2 DEF M!Untouched
  <1>9. M!Secured(c, n)' /\ M!HasRoom(c, n)' /\ M!IsEmpty(c, n)' /\ (pc'[c] = "in" => M!Noted(c, n)')
        /\ (pc'[c] = "asideDone" => backup'[c][T] # M!Absent) /\ pc'[c] \in {"in", "asideDone"}
    <2> USE DEF M!Absent
    <2>1. CASE dir[T] = M!Absent /\ pc'[c] = "in" /\ UNCHANGED <<dir, backup>>
      <3>1. \A d \in M!Area(c, n) : dir[d] = M!Absent
        BY <1>1, <1>5, <2>1 DEF M!NoOrphan, M!Area, M!Within
      <3>2. \A d \in M!Area(c, n) : backup[c][d] \in {before[c][d], "edit"}
        BY <1>7, <3>1
      <3>3. \A d \in M!Area(c, n) : M!InBackup(d)'
        BY <1>3, <1>6, <2>1, <3>1 DEF M!InBackup
      <3>4. backup[c][T] = M!Absent
        BY <1>5, <1>7
      <3> QED
        BY <1>1, <1>3, <1>7, <1>8, <2>1, <3>1, <3>2, <3>3, <3>4
           DEF M!Secured, M!HasRoom, M!IsEmpty, M!Noted, M!Area,
               M!Within
    <2>2. CASE /\ dir[T] # M!Absent /\ pc'[c] = "asideDone"
               /\ \A d \in M!Within(T) : dir'[d] = M!Absent /\ backup'[c][d] = dir[d]
      <3>1. \A d \in M!Area(c, n) : dir'[d] = M!Absent /\ backup'[c][d] = dir[d]
        BY <1>5, <2>2
      <3>2. \A d \in M!Area(c, n) : backup'[c][d] \in {before'[c][d], "edit"}
        BY <1>3, <1>7, <3>1
      <3>3. ASSUME NEW d \in M!Area(c, n) PROVE M!InBackup(d)'
        <4>1. CASE dir[d] = M!Absent
          <5>1. PICK o \in Command \ {c} : pc[o] # "discard" /\ backup[o][d] # M!Absent
            BY <1>6, <4>1
          <5> QED
            BY <1>3, <5>1 DEF M!InBackup
        <4>2. CASE dir[d] # M!Absent
          BY <1>3, <3>1, <4>2 DEF M!InBackup
        <4> QED
          BY <4>1, <4>2
      <3>4. backup'[c][T] # M!Absent
        BY <1>5, <2>2, <3>1
      <3>5. Parent[T] # NoDest => dir'[Parent[T]] # M!Absent
        <4> HAVE Parent[T] # NoDest
        <4>1. dir[Parent[T]] # M!Absent
          BY <1>5, <2>2 DEF M!NoOrphan
        <4> QED
          BY <1>3, <1>5, <4>1
      <3> QED
        BY <1>1, <1>3, <2>2, <3>1, <3>2, <3>3, <3>4, <3>5
           DEF M!Secured, M!HasRoom, M!IsEmpty, M!Area, M!Within
    <2> QED
      BY <2>1, <2>2, AsideEffect
  <1>10. M!MoveProgress(c)'
    BY <1>1, <1>2, <1>3, <1>4, <1>8, <1>9 DEF M!MoveProgress, PairKept, M!PairSet
  <1> QED
    BY <1>2, <1>3, <1>9, <1>10 DEF M!Progress, M!Early, M!Moving, M!Unwinding

\* The export is moved to the empty place.
LEMMA ProgressMoveIn ==
    ASSUME M!TypeOK, M!InBounds, NEW c \in Command, M!Progress(c), M!MoveIn(c)
    PROVE  M!Progress(c)'
  <1> DEFINE n == idx[c]
             T == M!Target(c)
  <1>1. pc[c] = "in" /\ n \in M!PairSet(c) /\ T = Pairs[c][n] /\ n \in Nat
    BY DEF M!MoveIn, M!InBounds, M!Working, M!Moving, M!Target,
           M!TypeOK
  <1>2. /\ ~broken[c] /\ M!Secured(c, n) /\ M!HasRoom(c, n) /\ M!Noted(c, n) /\ M!IsEmpty(c, n) /\ n \notin installed[c]
        /\ \A p \in M!PairSet(c) : p < n => M!Replaced(c, p)
        /\ \A p \in M!PairSet(c) : p > n => M!Untouched(c, p)
    BY <1>1 DEF M!Progress, M!MoveProgress, M!Moving
  <1>3. /\ M!Area(c, n) \subseteq Dest /\ M!Within(T) = M!Area(c, n) /\ T \in M!Area(c, n)
        /\ Parent[T] \notin M!Area(c, n) /\ Parent[T] \in Dest \cup {NoDest} /\ c # M!Absent
    BY <1>1, PairFacts, DestFacts DEF M!Area, M!Absent
  <1>4. /\ pc'[c] = "inDone" /\ UNCHANGED <<backup, moved, installed, before, broken, idx>>
        /\ \A o \in Command \ {c} : pc'[o] = pc[o]
        /\ dir' = [d \in Dest |-> IF d \in M!Within(T) THEN c ELSE dir[d]]
    BY <1>2, <1>3 DEF M!MoveIn, M!Goto, M!TypeOK, M!IsEmpty
  <1>5. /\ \A d \in M!Area(c, n) : dir'[d] = c
        /\ \A d \in Dest \ M!Within(T) : dir'[d] = dir[d] /\ backup'[c][d] = backup[c][d]
    BY <1>3, <1>4
  <1>6. \A p \in M!PairSet(c) : p # n => PairKept(c, p)
    BY <1>1, <1>4, <1>5, OtherPairs
  <1>7. M!Secured(c, n)' /\ M!Noted(c, n)'
    <2>1. \A d \in M!Area(c, n) : M!InBackup(d)'
      BY <1>2, <1>4, CopyStays DEF M!Secured
    <2> QED
      BY <1>2, <1>4, <2>1 DEF M!Secured, M!Noted, M!Area, M!Within, M!Absent
  <1>8. M!HasRoom(c, n)'
    BY <1>1, <1>2, <1>3, <1>4, <1>5 DEF M!HasRoom, M!Absent
  <1>9. M!IsFilled(c, n)'
    BY <1>3, <1>4, <1>5 DEF M!IsFilled, M!Area, M!Within, M!Absent
  <1>10. M!MoveProgress(c)'
    BY <1>1, <1>2, <1>4, <1>6, <1>7, <1>8, <1>9 DEF M!MoveProgress, PairKept, M!PairSet
  <1> QED
    BY <1>2, <1>4, <1>10 DEF M!Progress, M!Early, M!Moving, M!Unwinding

\* What was done is noted, and the next pair is an untouched one.
LEMMA ProgressNotes ==
    ASSUME M!TypeOK, M!InBounds, NEW c \in Command, M!Progress(c), M!NoteAside(c) \/ M!NoteIn(c)
    PROVE  M!Progress(c)'
  <1>1. idx[c] \in M!PairSet(c) /\ idx[c] \in Nat /\ M!Moving(c)
    BY DEF M!NoteAside, M!NoteIn, M!InBounds, M!Working, M!Moving,
           M!TypeOK
  <1>2. PICK n \in M!PairSet(c) : n = idx[c]
    BY <1>1
  <1> DEFINE T == Pairs[c][n]
  <1>3. n \in M!PairSet(c) /\ n = idx[c] /\ n \in Nat /\ M!Moving(c)
    BY <1>1, <1>2
  <1>4. /\ M!MoveProgress(c) /\ ~broken[c]
        /\ \A p \in M!PairSet(c) : p < n => M!Replaced(c, p)
        /\ \A p \in M!PairSet(c) : p > n => M!Untouched(c, p)
        /\ M!Secured(c, n) /\ M!HasRoom(c, n) /\ n \notin installed[c]
    BY <1>3 DEF M!Progress, M!MoveProgress, M!NoteAside, M!NoteIn
  <1>5. /\ UNCHANGED <<dir, backup, before, broken>>
        /\ pc'[c] # "discard" /\ \A o \in Command \ {c} : pc'[o] = pc[o]
        /\ \A p \in M!PairSet(c) : p # n =>
               (p \in moved'[c] <=> p \in moved[c]) /\ (p \in installed'[c] <=> p \in installed[c])
    BY <1>3 DEF M!NoteAside, M!NoteIn, M!treeVars, M!TypeOK, M!At, M!Goto
  <1>6. \A p \in M!PairSet(c) : p # n => PairKept(c, p)
    BY <1>3, <1>5, OtherPairs
  <1>7. M!Secured(c, n)' /\ M!HasRoom(c, n)' /\ (M!IsFilled(c, n) => M!IsFilled(c, n)') /\ (M!IsEmpty(c, n) => M!IsEmpty(c, n)')
    <2>1. \A d \in M!Area(c, n) : M!InBackup(d)'
      BY <1>4, <1>5, CopyStays DEF M!Secured
    <2> QED
      BY <1>4, <1>5, <2>1
         DEF M!Secured, M!HasRoom, M!IsFilled, M!IsEmpty, M!Area,
             M!Within, M!Absent
  <1>8. CASE M!NoteAside(c)
    <2>1. /\ pc[c] = "asideDone" /\ pc'[c] = "in" /\ idx' = idx /\ installed' = installed /\ n \in moved'[c]
      BY <1>3, <1>8 DEF M!NoteAside, M!Goto, M!TypeOK
    <2>2. backup[c][T] # M!Absent /\ M!IsEmpty(c, n)
      BY <1>3, <1>4, <2>1 DEF M!MoveProgress
    <2>3. M!Noted(c, n)'
      BY <1>3, <1>5, <2>1, <2>2 DEF M!Noted, M!Absent
    <2>4. M!MoveProgress(c)'
      BY <1>3, <1>4, <1>6, <1>7, <2>1, <2>2, <2>3 DEF M!MoveProgress, PairKept, M!PairSet
    <2> QED
      BY <1>4, <1>5, <2>1, <2>4 DEF M!Progress, M!Early, M!Moving, M!Unwinding
  <1>9. CASE M!NoteIn(c)
    <2>1. /\ pc[c] = "inDone" /\ moved' = moved /\ n \in installed'[c]
          /\ \/ n < Len(Pairs[c]) /\ pc'[c] = "aside" /\ idx'[c] = n + 1
             \/ ~(n < Len(Pairs[c])) /\ pc'[c] = "disarm" /\ idx'[c] = 1
      BY <1>3, <1>9 DEF M!NoteIn, M!At, M!Goto, M!TypeOK
    <2>2. M!Noted(c, n) /\ M!IsFilled(c, n)
      BY <1>3, <1>4, <2>1 DEF M!MoveProgress
    <2>3. M!Noted(c, n)'
      BY <1>5, <2>1, <2>2 DEF M!Noted, M!Absent
    <2>4. M!Replaced(c, n)'
      BY <1>7, <2>1, <2>2, <2>3 DEF M!Replaced
    <2>5. \A p \in M!PairSet(c) : (p <= n => M!Replaced(c, p)') /\ (p > n => M!Untouched(c, p)') /\ p \in Nat
      BY <1>3, <1>4, <1>6, <2>4, PairFacts DEF PairKept
    <2>6. M!PairSet(c)' = M!PairSet(c) /\ M!PairSet(c) = 1 .. Len(Pairs[c]) /\ Len(Pairs[c]) \in Nat
      BY PairFacts DEF M!PairSet
    <2>7. CASE n < Len(Pairs[c]) /\ pc'[c] = "aside" /\ idx'[c] = n + 1
      <3>1. n + 1 \in M!PairSet(c)
        BY <1>3, <2>6, <2>7
      <3>2. \A p \in M!PairSet(c) : (p < n + 1 => M!Replaced(c, p)') /\ (p > n + 1 => M!Untouched(c, p)')
        BY <1>3, <2>5
      <3>3. M!Untouched(c, n + 1)'
        BY <1>3, <2>5, <3>1
      <3> QED
        BY <1>4, <1>5, <2>6, <2>7, <3>2, <3>3
           DEF M!Progress, M!MoveProgress, M!Early, M!Moving, M!Unwinding
    <2>8. CASE ~(n < Len(Pairs[c])) /\ pc'[c] = "disarm" /\ idx'[c] = 1
      <3>1. \A p \in M!PairSet(c) : M!Replaced(c, p)'
        BY <1>3, <2>5, <2>6, <2>8
      <3> QED
        BY <1>4, <1>5, <2>6, <2>8, <3>1
           DEF M!Progress, M!MoveProgress, M!Early, M!Moving, M!Unwinding
    <2> QED
      BY <2>1, <2>7, <2>8
  <1> QED
    BY <1>8, <1>9

\* There is nothing to undo when the copies are deleted.
LEMMA ProgressDiscard ==
    ASSUME M!TypeOK, NEW c \in Command, M!Progress(c), M!Disarm(c) \/ M!LeaveTry(c) \/ M!DiscardBackup(c)
    PROVE  M!Progress(c)'
  <1>1. moved'[c] = {} /\ installed'[c] = {} /\ pc'[c] \in {"discard", "release", "over"}
    BY DEF M!Disarm, M!LeaveTry, M!NothingToUndo, M!DiscardBackup, M!Progress, M!At, M!Goto, M!TypeOK
  <1> QED
    BY <1>1 DEF M!Progress, M!Early, M!Moving, M!Unwinding

\* A rollback begins with every pair untouched, replaced, or moved aside.
LEMMA ProgressUnwind ==
    ASSUME M!TypeOK, M!InBounds, NEW c \in Command, M!Progress(c), M!Unwind(c) \/ M!StopPipeline(c)
    PROVE  M!Progress(c)'
  <1>1. CASE M!StopPipeline(c)
    <2>1. broken'[c] /\ pc'[c] = "release"
      BY <1>1 DEF M!StopPipeline, M!At, M!Goto, M!TypeOK
    <2> QED
      BY <2>1 DEF M!Progress, M!Early, M!Moving, M!Unwinding
  <1>2. CASE M!Unwind(c)
    <2> DEFINE n == idx[c]
               L == Len(Pairs[c])
    <2>1. /\ n \in M!PairSet(c) /\ n \in Nat /\ M!Moving(c)
          /\ M!PairSet(c) = 1 .. L /\ L \in Nat /\ L \in M!PairSet(c) /\ M!PairSet(c)' = M!PairSet(c)
      BY <1>2, PairFacts
         DEF M!Unwind, M!InBounds, M!Working, M!TypeOK, M!PairSet
    <2>2. /\ pc'[c] = "unwindIn" /\ idx'[c] = L
          /\ broken'[c] = (broken[c] \/ pc[c] \in {"asideDone", "inDone"})
          /\ UNCHANGED <<dir, backup, moved, installed, before>>
          /\ \A o \in Command \ {c} : pc'[o] = pc[o]
      BY <1>2 DEF M!Unwind, M!At, M!Goto, M!TypeOK, M!treeVars
    <2>3. M!MoveProgress(c) /\ ~broken[c]
      BY <2>1 DEF M!Progress
    <2>4. \A p \in M!PairSet(c) :
              \/ M!Untouched(c, p) \/ M!Replaced(c, p)
              \/ /\ p = n /\ M!Secured(c, p) /\ M!HasRoom(c, p) /\ p \notin installed[c]
                 /\ pc[c] \in {"asideDone", "in", "inDone"}
      BY <2>1, <2>3 DEF M!MoveProgress, M!Moving
    <2>5. ASSUME NEW p \in M!PairSet(c)
          PROVE  /\ p \in moved[c] \cup installed[c] => \A d \in M!Area(c, p) : M!InBackup(d)
                 /\ p \in moved[c] => backup[c][Pairs[c][p]] # M!Absent
                 /\ M!HasRoom(c, p)
      <3>1. CASE M!Untouched(c, p)
        BY <3>1, PairFacts DEF M!Untouched, M!HasRoom
      <3>2. CASE M!Replaced(c, p)
        BY <3>2 DEF M!Replaced, M!Secured, M!Noted
      <3>3. CASE /\ p = n /\ M!Secured(c, p) /\ M!HasRoom(c, p) /\ p \notin installed[c]
                 /\ pc[c] \in {"asideDone", "in", "inDone"}
        BY <2>3, <3>3 DEF M!MoveProgress, M!Secured, M!Noted
      <3> QED
        BY <2>4, <3>1, <3>2, <3>3
    <2>6. ASSUME ~broken'[c], NEW p \in M!PairSet(c) PROVE M!ToUndo(c, p)
      <3>1. pc[c] \in {"aside", "in", "disarm"}
        BY <2>1, <2>2, <2>6 DEF M!Moving
      <3>2. pc[c] = "in" => M!Noted(c, n) /\ M!IsEmpty(c, n)
        BY <2>3 DEF M!MoveProgress
      <3> QED
        BY <2>4, <3>1, <3>2 DEF M!ToUndo
    <2>7. \A p \in M!PairSet(c) :
              /\ M!HasRoom(c, p) => M!HasRoom(c, p)'
              /\ M!ToUndo(c, p) => M!ToUndo(c, p)'
              /\ (\A d \in M!Area(c, p) : M!InBackup(d)) => (\A d \in M!Area(c, p) : M!InBackup(d))'
      <3>1. \A d \in Dest : M!InBackup(d) => M!InBackup(d)'
        BY <2>2, CopyStays
      <3>2. \A p \in M!PairSet(c) : M!Area(c, p) \subseteq Dest /\ M!Area(c, p)' = M!Area(c, p)
        BY PairFacts DEF M!Area, M!Within
      <3>3. \A p \in M!PairSet(c) : (\A d \in M!Area(c, p) : M!InBackup(d)) => (\A d \in M!Area(c, p) : M!InBackup(d))'
        BY <3>1, <3>2
      <3>4. \A p \in M!PairSet(c) : M!Secured(c, p) => M!Secured(c, p)'
        BY <2>2, <3>1, <3>2 DEF M!Secured, M!Absent
      <3>5. \A p \in M!PairSet(c) : M!HasRoom(c, p) => M!HasRoom(c, p)'
        BY <2>2 DEF M!HasRoom, M!Absent
      <3>6. \A p \in M!PairSet(c) : M!ToUndo(c, p) => M!ToUndo(c, p)'
        BY <2>2, <3>2, <3>4, <3>5
           DEF M!ToUndo, M!Untouched, M!AsBefore, M!Replaced, M!Noted, M!IsEmpty, M!IsFilled, M!Absent
      <3> QED
        BY <3>3, <3>5, <3>6
    <2>8. M!UnwindProgress(c)'
      <3>1. \A p \in M!PairSet(c) : ~(p > L) /\ p <= L
        BY <2>1
      <3>2. L \in M!PairSet(c)
        BY <2>1
      <3>3. /\ \A p \in M!PairSet(c) : p \in moved[c] \cup installed[c] => (\A d \in M!Area(c, p) : M!InBackup(d))'
            /\ \A p \in M!PairSet(c) : p \in moved[c] => backup[c][Pairs[c][p]] # M!Absent
            /\ \A p \in M!PairSet(c) : M!HasRoom(c, p)'
        BY <2>5, <2>7
      <3>4. ~broken'[c] => \A p \in M!PairSet(c) : M!ToUndo(c, p)'
        BY <2>6, <2>7
      <3> QED
        BY <2>1, <2>2, <3>1, <3>2, <3>3, <3>4
           DEF M!UnwindProgress, M!Area, M!Within, M!Absent
    <2> QED
      BY <2>2, <2>8 DEF M!Progress, M!Early, M!Moving, M!Unwinding
  <1> QED
    BY <1>1, <1>2

\* An installed pair is taken out again.
LEMMA ProgressBackIn ==
    ASSUME M!TypeOK, M!InBounds, NEW c \in Command, M!Progress(c), M!UnwindIn(c)
    PROVE  M!Progress(c)'
  <1> DEFINE n == idx[c]
             T == M!Target(c)
  <1>1. pc[c] = "unwindIn" /\ n \in M!PairSet(c) /\ T = Pairs[c][n] /\ n \in Nat
    BY DEF M!UnwindIn, M!InBounds, M!Working, M!Target, M!TypeOK
  <1>2. M!UnwindProgress(c)
    BY <1>1 DEF M!Progress, M!Unwinding
  <1>3. /\ pc'[c] = "unwindAside" /\ UNCHANGED <<backup, moved, installed, before, idx>>
        /\ \A o \in Command \ {c} : pc'[o] = pc[o]
        /\ \/ n \notin installed[c] /\ UNCHANGED <<dir, broken>>
           \/ /\ n \in installed[c] /\ UNCHANGED broken
              /\ dir' = [d \in Dest |-> IF d \in M!Within(T) THEN M!Absent ELSE dir[d]]
           \/ broken'[c] /\ UNCHANGED dir
    BY DEF M!UnwindIn, M!Goto, M!TypeOK
  <1>4. /\ M!Area(c, n) \subseteq Dest /\ M!Within(T) = M!Area(c, n) /\ T \in M!Area(c, n)
        /\ Parent[T] \notin M!Area(c, n) /\ Parent[T] \in Dest \cup {NoDest}
    BY <1>1, PairFacts, DestFacts DEF M!Area
  <1>5. \A d \in Dest \ M!Within(T) : dir'[d] = dir[d] /\ backup'[c][d] = backup[c][d]
    BY <1>3
  <1>6. \A p \in M!PairSet(c) : p # n => PairKept(c, p)
    BY <1>1, <1>3, <1>5, OtherPairs
  <1>7. /\ M!HasRoom(c, n) => M!HasRoom(c, n)'
        /\ M!Noted(c, n) => M!Noted(c, n)'
        /\ M!Secured(c, n) => M!Secured(c, n)'
        /\ (\A d \in M!Area(c, n) : M!InBackup(d)) => (\A d \in M!Area(c, n) : M!InBackup(d))'
    <2>1. M!HasRoom(c, n) => M!HasRoom(c, n)'
      BY <1>1, <1>3, <1>4, <1>5 DEF M!HasRoom, M!Absent
    <2>2. \A d \in M!Area(c, n) : M!InBackup(d) => M!InBackup(d)'
      BY <1>3, CopyStays
    <2> QED
      BY <1>3, <2>1, <2>2 DEF M!Secured, M!Noted, M!Area, M!Within, M!Absent
  <1>8. /\ M!IsEmpty(c, n) => M!IsEmpty(c, n)'
        /\ n \in installed[c] /\ dir' # dir => M!IsEmpty(c, n)'
    BY <1>3, <1>4 DEF M!IsEmpty, M!Area, M!Within, M!Absent
  <1>9. ASSUME ~broken'[c] PROVE M!Untouched(c, n)' \/ (M!Secured(c, n)' /\ M!Noted(c, n)' /\ M!HasRoom(c, n)' /\ M!IsEmpty(c, n)')
    <2>1. ~broken[c]
      BY <1>3, <1>9
    <2>2. M!ToUndo(c, n)
      BY <1>1, <1>2, <2>1 DEF M!UnwindProgress
    <2>3. CASE n \notin installed[c] /\ UNCHANGED <<dir, broken>>
      <3>1. CASE M!Untouched(c, n)
        BY <1>3, <2>3, <3>1
           DEF M!Untouched, M!AsBefore, M!Area, M!Within, M!Absent
      <3>2. CASE M!Secured(c, n) /\ M!Noted(c, n) /\ M!HasRoom(c, n) /\ M!IsEmpty(c, n)
        BY <1>7, <1>8, <3>2
      <3> QED
        BY <2>2, <2>3, <3>1, <3>2 DEF M!ToUndo, M!Replaced
    <2>4. CASE /\ n \in installed[c]
               /\ dir' = [d \in Dest |-> IF d \in M!Within(T) THEN M!Absent ELSE dir[d]]
      <3>1. M!Replaced(c, n)
        BY <2>2, <2>4 DEF M!ToUndo, M!Untouched
      <3>2. M!IsEmpty(c, n)'
        BY <1>3, <1>4, <2>4 DEF M!IsEmpty, M!Area, M!Within, M!Absent
      <3> QED
        BY <1>7, <3>1, <3>2 DEF M!Replaced
    <2> QED
      BY <1>3, <1>9, <2>3, <2>4
  <1>10. M!UnwindProgress(c)'
    <2>1. \A p \in M!PairSet(c) : p \in Nat
      BY PairFacts
    <2>2. ASSUME NEW p \in M!PairSet(c), p <= n
          PROVE  /\ p \in moved[c] \cup installed[c] => (\A d \in M!Area(c, p) : M!InBackup(d))'
                 /\ p \in moved[c] => backup[c][Pairs[c][p]] # M!Absent
                 /\ M!HasRoom(c, p)'
      <3>1. /\ p \in moved[c] \cup installed[c] => \A d \in M!Area(c, p) : M!InBackup(d)
            /\ p \in moved[c] => backup[c][Pairs[c][p]] # M!Absent
            /\ M!HasRoom(c, p)
        BY <1>2, <2>2 DEF M!UnwindProgress
      <3>2. CASE p = n
        BY <1>3, <1>7, <3>1, <3>2 DEF M!HasRoom, M!Area, M!Within, M!Absent
      <3>3. CASE p # n
        BY <1>6, <3>1, <3>3 DEF PairKept
      <3> QED
        BY <3>2, <3>3
    <2>3. ASSUME ~broken'[c], NEW p \in M!PairSet(c)
          PROVE  (p > n => M!AsBefore(c, p)') /\ (p < n => M!ToUndo(c, p)')
      <3>1. ~broken[c]
        BY <1>3, <2>3
      <3>2. (p > n => M!AsBefore(c, p)) /\ (p < n => M!ToUndo(c, p))
        BY <1>2, <3>1 DEF M!UnwindProgress
      <3> QED
        BY <1>1, <1>6, <2>1, <3>2 DEF PairKept
    <2> QED
      BY <1>3, <1>9, <2>2, <2>3
         DEF M!UnwindProgress, M!PairSet, M!Area, M!Within, M!Absent
  <1> QED
    BY <1>3, <1>10 DEF M!Progress, M!Early, M!Moving, M!Unwinding

\* What was moved aside is put back as it was at the recheck.
LEMMA ProgressBackAside ==
    ASSUME M!TypeOK, M!InBounds, NEW c \in Command, M!Progress(c), M!UnwindAside(c)
    PROVE  M!Progress(c)'
  <1>1. pc[c] = "unwindAside" /\ idx[c] \in M!PairSet(c) /\ idx[c] \in Nat
    BY DEF M!UnwindAside, M!InBounds, M!Working, M!TypeOK
  <1>2. PICK n \in M!PairSet(c) : n = idx[c]
    BY <1>1
  <1> DEFINE T == Pairs[c][n]
  <1>3. n = idx[c] /\ n \in M!PairSet(c) /\ n \in Nat /\ T = M!Target(c)
    BY <1>1, <1>2 DEF M!Target
  <1>4. M!UnwindProgress(c)
    BY <1>1 DEF M!Progress, M!Unwinding
  <1>5. /\ UNCHANGED <<moved, installed, before>>
        /\ \/ n > 1 /\ pc'[c] = "unwindIn" /\ idx'[c] = n - 1
           \/ ~(n > 1) /\ pc'[c] = "release"
    BY <1>3 DEF M!UnwindAside, M!At, M!Goto, M!TypeOK
  <1>6. /\ \A o \in Command \ {c} : backup'[o] = backup[o] /\ pc'[o] = pc[o]
        /\ \/ n \notin moved[c] /\ UNCHANGED <<dir, backup, broken>>
           \/ /\ n \in moved[c] /\ dir[T] = M!Absent /\ broken' = broken
              /\ \A d \in M!Within(T) : dir'[d] = backup[c][d] /\ backup'[c][d] = M!Absent
              /\ \A d \in Dest \ M!Within(T) : dir'[d] = dir[d] /\ backup'[c][d] = backup[c][d]
           \/ n \in moved[c] /\ broken'[c] /\ UNCHANGED <<dir, backup>>
    BY <1>3, BackEffect, PlaceOfOthers DEF M!Proceed
  <1>7. M!Area(c, n) \subseteq Dest /\ M!Within(T) = M!Area(c, n) /\ T \in M!Area(c, n)
    BY <1>3, PairFacts DEF M!Area
  <1>8. \A p \in M!PairSet(c) : p # n => PairKept(c, p)
    <2>1. \A d \in Dest \ M!Within(T) : dir'[d] = dir[d] /\ backup'[c][d] = backup[c][d]
      BY <1>6
    <2> QED
      BY <1>3, <1>5, <1>6, <2>1, OtherPairs
  <1>9. ASSUME ~broken'[c] PROVE M!AsBefore(c, n)'
    <2>1. ~broken[c]
      BY <1>6, <1>9 DEF M!UnwindAside, M!TypeOK
    <2>2. M!Untouched(c, n) \/ (M!Secured(c, n) /\ M!Noted(c, n) /\ M!HasRoom(c, n) /\ M!IsEmpty(c, n))
      BY <1>1, <1>3, <1>4, <2>1 DEF M!UnwindProgress
    <2>3. CASE M!Untouched(c, n)
      BY <1>5, <1>6, <1>9, <2>3 DEF M!Untouched, M!AsBefore, M!Area, M!Within
    <2>4. CASE M!Secured(c, n) /\ M!Noted(c, n) /\ M!IsEmpty(c, n)
      <3>1. \A d \in M!Area(c, n) : backup[c][d] \in {before[c][d], "edit"} /\ dir[d] = M!Absent
        BY <2>4 DEF M!Secured, M!IsEmpty
      <3>2. CASE n \notin moved[c] /\ UNCHANGED <<dir, backup, broken>>
        <4>1. \A d \in M!Area(c, n) : backup[c][d] = M!Absent
          BY <2>4, <3>2 DEF M!Noted, M!Secured
        <4>2. \A d \in M!Area(c, n) : dir'[d] = before'[c][d]
          BY <1>5, <3>1, <3>2, <4>1 DEF M!Absent
        <4> QED
          BY <4>2 DEF M!AsBefore, M!Area, M!Within
      <3>3. CASE n \in moved[c] /\ \A d \in M!Within(T) : dir'[d] = backup[c][d]
        <4>1. \A d \in M!Area(c, n) : dir'[d] \in {before'[c][d], "edit"}
          BY <1>5, <1>7, <3>1, <3>3
        <4> QED
          BY <4>1 DEF M!AsBefore, M!Area, M!Within
      <3> QED
        BY <1>6, <1>9, <3>2, <3>3
    <2> QED
      BY <2>2, <2>3, <2>4
  <1>10. \A p \in M!PairSet(c) : p \in Nat /\ p >= 1
    BY PairFacts
  <1>11. ASSUME NEW p \in M!PairSet(c), p < n
         PROVE  /\ p \in moved[c] \cup installed[c] => (\A d \in M!Area(c, p) : M!InBackup(d))'
                /\ p \in moved[c] => backup'[c][Pairs[c][p]] # M!Absent
                /\ M!HasRoom(c, p)'
    <2>1. /\ p \in moved[c] \cup installed[c] => \A d \in M!Area(c, p) : M!InBackup(d)
          /\ p \in moved[c] => backup[c][Pairs[c][p]] # M!Absent
          /\ M!HasRoom(c, p)
      BY <1>3, <1>4, <1>10, <1>11 DEF M!UnwindProgress
    <2>2. PairKept(c, p)
      BY <1>3, <1>8, <1>10, <1>11
    <2>3. backup'[c][Pairs[c][p]] = backup[c][Pairs[c][p]]
      <3>1. Pairs[c][p] \in Dest \ M!Within(T)
        BY <1>3, <1>7, <1>10, <1>11, PairFacts
      <3> QED
        BY <1>6, <3>1
    <2> QED
      BY <2>1, <2>2, <2>3 DEF PairKept
  <1>12. ASSUME ~broken'[c], NEW p \in M!PairSet(c)
         PROVE  (p >= n => M!AsBefore(c, p)') /\ (p < n => M!ToUndo(c, p)')
    <2>1. ~broken[c]
      BY <1>6, <1>12 DEF M!UnwindAside, M!TypeOK
    <2>2. (p > n => M!AsBefore(c, p)) /\ (p < n => M!ToUndo(c, p))
      BY <1>3, <1>4, <2>1 DEF M!UnwindProgress
    <2> QED
      BY <1>3, <1>8, <1>9, <1>10, <1>12, <2>2 DEF PairKept
  <1>13. CASE n > 1 /\ pc'[c] = "unwindIn" /\ idx'[c] = n - 1
    <2>1. /\ n - 1 \in M!PairSet(c)
          /\ \A p \in M!PairSet(c) : (p <= n - 1 => p < n) /\ (p > n - 1 => p >= n) /\ (p < n - 1 => p < n)
      BY <1>3, <1>10, <1>13, PairFacts
    <2>2. n - 1 < n
      BY <1>3
    <2>3. M!UnwindProgress(c)'
      BY <1>5, <1>11, <1>12, <1>13, <2>1, <2>2
         DEF M!UnwindProgress, M!PairSet, M!Area, M!Within, M!Absent
    <2> QED
      BY <1>13, <2>3 DEF M!Progress, M!Early, M!Moving, M!Unwinding
  <1>14. CASE ~(n > 1) /\ pc'[c] = "release"
    <2>1. \A p \in M!PairSet(c) : p >= n
      BY <1>3, <1>10, <1>14
    <2>2. ~broken'[c] => \A p \in M!PairSet(c) : M!AsBefore(c, p)'
      BY <1>12, <2>1
    <2> QED
      BY <1>14, <2>2
         DEF M!Progress, M!Early, M!Moving, M!Unwinding, M!PairSet
  <1> QED
    BY <1>5, <1>13, <1>14

-----------------------------------------------------------------------------
(* No mirror is lost *)

\* The steps that leave the directories of both places alone
Quiet(c) ==
    \/ M!Stage(c) \/ M!CreateLock(c) \/ M!JudgeHolder(c) \/ M!BreakLock(c) \/ M!LoseRetry(c) \/ M!ReleaseLocks(c)
    \/ M!Recheck(c) \/ M!NoteAside(c) \/ M!NoteIn(c)
    \/ M!Unwind(c) \/ M!StopPipeline(c) \/ M!Signal(c) \/ M!Kill(c)

\* The moves are over and the copies will go.
Installed(c) == M!Disarm(c) \/ M!LeaveTry(c)

LEMMA QuietEffect ==
    ASSUME M!TypeOK, NEW c \in Command, Quiet(c) \/ Installed(c)
    PROVE  UNCHANGED <<dir, backup>> /\ (Quiet(c) => pc'[c] # "discard")
  <1>1. UNCHANGED <<dir, backup>>
    BY DEF Quiet, Installed, M!Stage, M!CreateLock, M!JudgeHolder, M!BreakLock,
           M!LoseRetry, M!ReleaseLocks, M!Recheck, M!NoteAside, M!NoteIn,
           M!Disarm, M!LeaveTry, M!Unwind, M!StopPipeline, M!Signal, M!Kill,
           M!treeVars, M!moveVars
  <1>2. CASE M!CreateLock(c)
    BY <1>1, <1>2, NextPlace DEF M!CreateLock
  <1>3. CASE Quiet(c) /\ ~M!CreateLock(c)
    BY <1>1, <1>3
       DEF Quiet, M!Stage, M!JudgeHolder, M!BreakLock, M!LoseRetry, M!ReleaseLocks, M!Recheck,
           M!NoteAside, M!NoteIn, M!Unwind, M!StopPipeline, M!Signal, M!Kill, M!Ends,
           M!At, M!Goto, M!TypeOK
  <1> QED
    BY <1>1, <1>2, <1>3

\* What a step changes, it changes in the pair the command is at.
LEMMA StepEffect ==
    ASSUME M!TypeOK, M!InBounds, NEW c \in Command, ~Quiet(c), ~Installed(c),
           M!Proceed(c) \/ M!Unwind(c) \/ M!StopPipeline(c) \/ M!Signal(c) \/ M!Kill(c)
    PROVE  /\ M!Working(c) \/ M!DiscardBackup(c)
           /\ idx[c] \in M!PairSet(c) /\ M!Within(M!Target(c)) = M!Area(c, idx[c])
           /\ M!MoveAside(c) \/ M!MoveIn(c) \/ M!DiscardBackup(c) \/ M!UnwindIn(c) \/ M!UnwindAside(c)
           /\ \A d \in Dest \ M!Within(M!Target(c)) : dir'[d] = dir[d] /\ backup'[c][d] = backup[c][d]
           /\ \A o \in Command \ {c} : backup'[o] = backup[o]
  <1>1. M!MoveAside(c) \/ M!MoveIn(c) \/ M!DiscardBackup(c) \/ M!UnwindIn(c) \/ M!UnwindAside(c)
    BY DEF Quiet, Installed, M!Proceed
  <1>2. M!Working(c) \/ (M!DiscardBackup(c) /\ pc[c] = "discard")
    BY <1>1
       DEF M!MoveAside, M!MoveIn, M!DiscardBackup, M!UnwindIn,
           M!UnwindAside, M!Working, M!Moving
  <1>3. idx[c] \in M!PairSet(c) /\ M!Within(M!Target(c)) = M!Area(c, idx[c]) /\ M!Target(c) \in M!Within(M!Target(c))
    BY <1>2, PairFacts DEF M!InBounds, M!Target, M!Area
  <1>4. /\ \A d \in Dest \ M!Within(M!Target(c)) : dir'[d] = dir[d] /\ backup'[c][d] = backup[c][d]
        /\ \A o \in Command \ {c} : backup'[o] = backup[o]
    <2>1. CASE M!MoveAside(c)
      BY <2>1, AsideEffect
    <2>2. CASE M!MoveIn(c)
      BY <1>3, <2>2 DEF M!MoveIn, M!TypeOK
    <2>3. CASE M!DiscardBackup(c)
      BY <2>3, DiscardEffect DEF M!DiscardBackup
    <2>4. CASE M!UnwindIn(c)
      BY <2>4 DEF M!UnwindIn
    <2>5. CASE M!UnwindAside(c)
      BY <2>5, BackEffect
    <2> QED
      BY <1>1, <2>1, <2>2, <2>3, <2>4, <2>5
  <1> QED
    BY <1>1, <1>2, <1>3, <1>4

\* A copy stays one through every step of a command that has none of it, and
\* through the steps of others that move nothing.
LEMMA CopiesStay ==
    ASSUME M!TypeOK, M!InBounds, M!CopiesAreOwn, NEW c \in Command,
           M!Proceed(c) \/ M!Unwind(c) \/ M!StopPipeline(c) \/ M!Signal(c) \/ M!Kill(c),
           NEW d \in Dest, M!InBackup(d), Quiet(c) \/ M!DiscardBackup(c) \/ d \notin M!Dests(c)
    PROVE  M!InBackup(d)'
  <1>1. \A o \in Command \ {c} : pc'[o] = pc[o]
    BY PlaceOfOthers
  <1>2. CASE Quiet(c)
    BY <1>1, <1>2, QuietEffect, CopyStays
  <1>3. CASE ~Quiet(c)
    <2>1. \A o \in Command \ {c} : backup'[o] = backup[o]
      BY <1>3, QuietEffect, StepEffect
    <2>2. pc[c] # "discard" => backup[c][d] = M!Absent
      BY <1>3 DEF M!CopiesAreOwn, M!DiscardBackup
    <2> QED
      BY <1>1, <2>1, <2>2, CopyStays
  <1> QED
    BY <1>2, <1>3

LEMMA CopiesStep == ASSUME M!TypeOK, M!InBounds, M!CopiesAreOwn, M!Next PROVE M!CopiesAreOwn'
  <1>1. ASSUME UNCHANGED backup PROVE M!CopiesAreOwn'
    BY <1>1 DEF M!CopiesAreOwn, M!Absent, M!Dests, M!PairSet, M!Within
  <1>2. ASSUME NEW c \in Command, ~Quiet(c), ~Installed(c), M!Proceed(c) \/ M!Unwind(c) \/ M!StopPipeline(c) \/ M!Signal(c) \/ M!Kill(c)
        PROVE  M!CopiesAreOwn'
    <2>1. /\ M!Within(M!Target(c)) \subseteq M!Dests(c)
          /\ \A d \in Dest \ M!Within(M!Target(c)) : backup'[c][d] = backup[c][d]
          /\ \A o \in Command \ {c} : backup'[o] = backup[o]
      BY <1>2, StepEffect, PairFacts
    <2>2. \A o \in Command : M!Dests(o)' = M!Dests(o)
      BY DEF M!Dests, M!PairSet, M!Within
    <2>3. ASSUME NEW o \in Command, NEW d \in Dest, backup'[o][d] # M!Absent PROVE d \in M!Dests(o)
      <3>1. CASE o = c /\ d \in M!Within(M!Target(c))
        BY <2>1, <3>1
      <3>2. CASE ~(o = c /\ d \in M!Within(M!Target(c)))
        <4>1. backup'[o][d] = backup[o][d]
          BY <2>1, <3>2
        <4> QED
          BY <2>3, <4>1 DEF M!CopiesAreOwn
      <3> QED
        BY <3>1, <3>2
    <2> QED
      BY <2>2, <2>3 DEF M!CopiesAreOwn, M!Absent
  <1>3. ASSUME NEW d \in Dest, M!Edit(d) \/ M!Commit(d) PROVE M!CopiesAreOwn'
    BY <1>1, <1>3 DEF M!Edit, M!Commit, M!moveVars
  <1>4. Editable \subseteq Dest
    BY MirrorAssumption DEF M!ConstantsFit
  <1> QED
    BY <1>1, <1>2, <1>3, <1>4, QuietEffect DEF M!Next

\* What the pair a command is at shows of the mirrors in it
LEMMA TargetKept ==
    ASSUME M!TypeOK, M!InBounds, M!NoOrphan, M!AbsentIsKept, ~raced, NEW c \in Command, M!Progress(c),
           M!MoveAside(c) \/ M!MoveIn(c) \/ M!UnwindIn(c) \/ M!UnwindAside(c)
    PROVE  /\ \A d \in M!Within(M!Target(c)) : dir'[d] = M!Absent => M!InBackup(d)'
           /\ Parent[M!Target(c)] # NoDest /\ dir[Parent[M!Target(c)]] = M!Absent => dir'[M!Target(c)] = M!Absent
           /\ dir'[M!Target(c)] = M!Absent => \A d \in M!Within(M!Target(c)) : dir'[d] = M!Absent
  <1> DEFINE n == idx[c]
             T == M!Target(c)
  <1>1. /\ n \in M!PairSet(c) /\ T = Pairs[c][n] /\ T \in Dest /\ T \in M!Within(T) /\ M!Within(T) \subseteq Dest
        /\ M!Within(T) = M!Area(c, n) /\ n \in Nat /\ c # M!Absent /\ NoDest \notin Dest
    BY PairFacts, DestFacts
       DEF M!InBounds, M!MoveAside, M!MoveIn, M!UnwindIn,
            M!UnwindAside, M!Working, M!Moving, M!Target,
           M!Area, M!TypeOK, M!Absent
  <1>2. dir[T] = M!Absent => \A d \in M!Within(T) : dir[d] = M!Absent
    BY <1>1 DEF M!NoOrphan, M!Within
  <1>3. Parent[T] # NoDest /\ dir[Parent[T]] = M!Absent => dir[T] = M!Absent
    BY <1>1 DEF M!NoOrphan
  <1>4. \A d \in M!Within(T) : dir[d] = M!Absent => M!InBackup(d)
    BY <1>1 DEF M!AbsentIsKept
  <1>9. /\ \A o \in Command \ {c} : pc'[o] = pc[o]
        /\ pc'[c] # "discard"
    BY PlaceOfOthers
       DEF M!Proceed, M!MoveAside, M!MoveIn, M!UnwindIn, M!UnwindAside, M!At, M!Goto, M!TypeOK
  <1>10. ASSUME backup' = backup PROVE \A d \in M!Within(T) : M!InBackup(d) => M!InBackup(d)'
    <2>1. \A o \in Command : pc[o] # "discard" => pc'[o] # "discard"
      BY <1>9
    <2>2. ASSUME NEW d \in M!Within(T), M!InBackup(d) PROVE M!InBackup(d)'
      BY <1>10, <2>1, <2>2, CopyStays
    <2> QED
      BY <2>2
  <1>5. CASE M!MoveAside(c)
    <2>1. M!Untouched(c, n)
      BY <1>5 DEF M!MoveAside, M!Progress, M!MoveProgress, M!Moving
    <2>2. \A d \in M!Within(T) : dir[d] = M!Absent =>
              \E o \in Command \ {c} : pc[o] # "discard" /\ backup[o][d] # M!Absent
      BY <1>1, <1>4, <2>1 DEF M!Untouched, M!InBackup
    <2>3. CASE UNCHANGED <<dir, backup>>
      BY <1>2, <1>3, <1>4, <1>10, <2>3
    <2>4. CASE \A d \in M!Within(T) : dir'[d] = M!Absent /\ backup'[c][d] = dir[d]
      <3>1. ASSUME NEW d \in M!Within(T) PROVE M!InBackup(d)'
        <4>1. CASE dir[d] = M!Absent
          <5>1. PICK o \in Command \ {c} : pc[o] # "discard" /\ backup[o][d] # M!Absent
            BY <2>2, <4>1
          <5>2. backup'[o] = backup[o]
            BY <1>5, AsideEffect
          <5> QED
            BY <1>9, <5>1, <5>2 DEF M!InBackup, M!Absent
        <4>2. CASE dir[d] # M!Absent
          <5>1. pc'[c] # "discard" /\ backup'[c][d] # M!Absent
            BY <1>9, <2>4, <4>2
          <5> QED
            BY <5>1 DEF M!InBackup, M!Absent
        <4> QED
          BY <4>1, <4>2
      <3> QED
        BY <1>1, <2>4, <3>1
    <2> QED
      BY <1>5, <2>3, <2>4, AsideEffect
  <1>6. CASE M!MoveIn(c)
    <2>1. M!IsEmpty(c, n)
      BY <1>6 DEF M!MoveIn, M!Progress, M!MoveProgress, M!Moving
    <2>2. dir' = [d \in Dest |-> IF d \in M!Within(T) THEN c ELSE dir[d]]
      BY <1>1, <1>6, <2>1 DEF M!MoveIn, M!IsEmpty
    <2>3. \A d \in M!Within(T) : dir'[d] # M!Absent
      BY <1>1, <2>2
    <2>4. Parent[T] # NoDest => dir[Parent[T]] # M!Absent
      BY <1>6 DEF M!MoveIn
    <2> QED
      BY <1>1, <2>3, <2>4
  <1>7. CASE M!UnwindIn(c)
    <2>1. M!UnwindProgress(c) /\ backup' = backup
      BY <1>7 DEF M!UnwindIn, M!Progress, M!Unwinding
    <2>2. CASE dir' = dir
      BY <1>2, <1>3, <1>4, <1>10, <2>1, <2>2
    <2>3. CASE n \in installed[c] /\ dir' = [d \in Dest |-> IF d \in M!Within(T) THEN M!Absent ELSE dir[d]]
      <3>1. \A d \in M!Within(T) : M!InBackup(d)
        BY <1>1, <2>1, <2>3 DEF M!UnwindProgress
      <3>2. \A d \in M!Within(T) : dir'[d] = M!Absent
        BY <1>1, <2>3
      <3> QED
        BY <1>1, <1>10, <2>1, <3>1, <3>2
    <2> QED
      BY <1>7, <2>2, <2>3 DEF M!UnwindIn
  <1>8. CASE M!UnwindAside(c)
    <2>1. M!UnwindProgress(c)
      BY <1>8 DEF M!UnwindAside, M!Progress, M!Unwinding
    <2>2. CASE UNCHANGED <<dir, backup>>
      BY <1>2, <1>3, <1>4, <1>10, <2>2
    <2>3. CASE n \in moved[c] /\ \A d \in M!Within(T) : dir'[d] = backup[c][d]
      <3>1. /\ \A d \in M!Within(T) : M!InBackup(d)
            /\ backup[c][T] # M!Absent /\ M!HasRoom(c, n)
        BY <1>1, <2>1, <2>3 DEF M!UnwindProgress
      <3>2. ASSUME NEW d \in M!Within(T), dir'[d] = M!Absent PROVE M!InBackup(d)'
        <4>1. PICK o \in Command : pc[o] # "discard" /\ backup[o][d] # M!Absent
          BY <3>1 DEF M!InBackup
        <4>2. backup[c][d] = M!Absent
          BY <2>3, <3>2
        <4>3. o \in Command \ {c}
          BY <4>1, <4>2
        <4>4. backup'[o] = backup[o]
          BY <1>8, <4>3, BackEffect
        <4> QED
          BY <1>9, <4>1, <4>3, <4>4 DEF M!InBackup, M!Absent
      <3>3. Parent[T] # NoDest => dir[Parent[T]] # M!Absent
        BY <1>1, <3>1 DEF M!HasRoom
      <3>4. dir'[T] # M!Absent
        BY <1>1, <2>3, <3>1
      <3> QED
        BY <3>2, <3>3, <3>4
    <2> QED
      BY <1>8, <2>2, <2>3, BackEffect
  <1> QED
    BY <1>5, <1>6, <1>7, <1>8

LEMMA SomewhereStep ==
    ASSUME M!TypeOK, M!InBounds, M!NoOrphan, M!AbsentIsKept, ~raced, ~raced', M!CopiesAreOwn,
           \A c \in Command : M!Progress(c), M!Next
    PROVE  M!NoOrphan' /\ M!AbsentIsKept'
  <1> DEFINE Acts(c) == M!Proceed(c) \/ M!Unwind(c) \/ M!StopPipeline(c) \/ M!Signal(c) \/ M!Kill(c)
  <1>1. ASSUME dir' = dir, \A d \in Dest : dir[d] = M!Absent => M!InBackup(d)'
        PROVE  M!NoOrphan' /\ M!AbsentIsKept'
    BY <1>1 DEF M!NoOrphan, M!AbsentIsKept, M!Absent, M!InBackup
  <1>2. ASSUME NEW d \in Dest, M!Edit(d) \/ M!Commit(d) PROVE M!NoOrphan' /\ M!AbsentIsKept'
    <2>1. backup' = backup /\ pc' = pc /\ \A e \in Dest : dir'[e] = M!Absent <=> dir[e] = M!Absent
      BY <1>2 DEF M!Edit, M!Commit, M!moveVars, M!TypeOK, M!Absent
    <2>2. \A e \in Dest : Parent[e] # NoDest => Parent[e] \in Dest
      BY DestFacts
    <2> QED
      BY <2>1, <2>2 DEF M!NoOrphan, M!AbsentIsKept, M!InBackup, M!Absent
  <1>3. ASSUME NEW c \in Command, Acts(c), Quiet(c) \/ M!DiscardBackup(c)
        PROVE  M!NoOrphan' /\ M!AbsentIsKept'
    <2>1. dir' = dir
      BY <1>3, QuietEffect DEF M!DiscardBackup
    <2>2. \A d \in Dest : dir[d] = M!Absent => M!InBackup(d)'
      BY <1>3, CopiesStay DEF M!AbsentIsKept
    <2> QED
      BY <1>1, <2>1, <2>2
  <1>4. ASSUME NEW c \in Command, Acts(c), Installed(c)
        PROVE  M!NoOrphan' /\ M!AbsentIsKept'
    <2>1. dir' = dir /\ pc[c] = "disarm"
      BY <1>4, QuietEffect DEF Installed, M!Disarm, M!LeaveTry
    <2>2. \A p \in M!PairSet(c) : M!IsFilled(c, p)
      BY <2>1 DEF M!Progress, M!MoveProgress, M!Moving, M!Replaced
    <2>3. \A d \in Dest : dir[d] = M!Absent => d \notin M!Dests(c)
      BY <2>2, InOnePair DEF M!IsFilled
    <2>4. \A d \in Dest : dir[d] = M!Absent => M!InBackup(d)'
      BY <1>4, <2>3, CopiesStay DEF M!AbsentIsKept
    <2> QED
      BY <1>1, <2>1, <2>4
  <1>5. ASSUME NEW c \in Command, Acts(c), ~Quiet(c), ~Installed(c), ~M!DiscardBackup(c)
        PROVE  M!NoOrphan' /\ M!AbsentIsKept'
    <2> DEFINE T == M!Target(c)
    <2>1. /\ idx[c] \in M!PairSet(c)
          /\ M!MoveAside(c) \/ M!MoveIn(c) \/ M!UnwindIn(c) \/ M!UnwindAside(c)
          /\ \A d \in Dest \ M!Within(T) : dir'[d] = dir[d] /\ backup'[c][d] = backup[c][d]
          /\ \A o \in Command \ {c} : backup'[o] = backup[o] /\ pc'[o] = pc[o]
          /\ pc'[c] # "discard"
      BY <1>5, StepEffect, PlaceOfOthers
         DEF M!MoveAside, M!MoveIn, M!UnwindIn, M!UnwindAside, M!At, M!Goto, M!TypeOK
    <2>2. T \in Dest /\ T \in M!Within(T)
      BY <2>1, PairFacts, DestFacts DEF M!Target
    <2>3. /\ \A d \in M!Within(T) : dir'[d] = M!Absent => M!InBackup(d)'
          /\ Parent[T] # NoDest /\ dir[Parent[T]] = M!Absent => dir'[T] = M!Absent
          /\ dir'[T] = M!Absent => \A d \in M!Within(T) : dir'[d] = M!Absent
      BY <2>1, TargetKept
    <2>4. M!AbsentIsKept'
      <3>1. ASSUME NEW d \in Dest \ M!Within(T), dir'[d] = M!Absent PROVE M!InBackup(d)'
        <4>1. M!InBackup(d) /\ \A o \in Command : backup'[o][d] = backup[o][d]
          BY <2>1, <3>1 DEF M!AbsentIsKept, M!Absent
        <4> QED
          BY <2>1, <4>1, CopyStays
      <3> QED
        BY <2>3, <3>1 DEF M!AbsentIsKept, M!InBackup, M!Absent
    <2>5. M!NoOrphan'
      <3> SUFFICES ASSUME NEW d \in Dest, Parent[d] # NoDest, dir'[Parent[d]] = M!Absent
                   PROVE  dir'[d] = M!Absent
        BY DEF M!NoOrphan, M!Absent
      <3>1. Parent[d] \in Dest /\ (Parent[d] \in M!Within(T) => Parent[d] = T)
        BY <2>2, DestFacts
      <3>2. CASE Parent[d] = T
        BY <2>3, <3>2 DEF M!Within
      <3>3. CASE Parent[d] # T /\ d # T
        <4>1. d \notin M!Within(T) /\ Parent[d] \notin M!Within(T)
          BY <3>1, <3>3 DEF M!Within
        <4> QED
          BY <2>1, <3>1, <4>1 DEF M!NoOrphan, M!Absent
      <3>4. CASE Parent[d] # T /\ d = T
        <4>1. dir[Parent[T]] = M!Absent
          BY <2>1, <3>1, <3>4 DEF M!Absent
        <4> QED
          BY <2>3, <3>4, <4>1
      <3> QED
        BY <3>2, <3>3, <3>4
    <2> QED
      BY <2>4, <2>5
  <1>6. Editable \subseteq Dest
    BY MirrorAssumption DEF M!ConstantsFit
  <1> QED
    BY <1>2, <1>3, <1>4, <1>5, <1>6 DEF M!Next

-----------------------------------------------------------------------------
(* All of it together *)

\* Nobody else touches the directories of a command that holds its locks.
LEMMA ProgressOthers ==
    ASSUME M!TypeOK, M!InBounds, M!CopiesAreOwn, NEW c \in Command, NEW o \in Command, o # c,
           M!OwnsLocks(c), M!OwnsLocks(o), M!Progress(o),
           M!Proceed(c) \/ M!Unwind(c) \/ M!StopPipeline(c) \/ M!Signal(c) \/ M!Kill(c)
    PROVE  M!Progress(o)'
  <1>1. /\ moved'[o] = moved[o] /\ installed'[o] = installed[o]
        /\ before'[o] = before[o] /\ broken'[o] = broken[o]
    <2>1. CASE M!Ends(c)
      BY <2>1 DEF M!Ends, M!TypeOK
    <2>2. CASE M!Stage(c) \/ M!CreateLock(c) \/ M!JudgeHolder(c) \/ M!BreakLock(c) \/ M!LoseRetry(c) \/ M!Signal(c)
      BY <2>2
         DEF M!Stage, M!CreateLock, M!JudgeHolder, M!BreakLock,
             M!LoseRetry, M!Signal, M!moveVars
    <2>3. CASE \/ M!Recheck(c) \/ M!MoveAside(c) \/ M!NoteAside(c) \/ M!MoveIn(c) \/ M!NoteIn(c)
               \/ M!Disarm(c) \/ M!LeaveTry(c) \/ M!DiscardBackup(c)
      BY <2>3
         DEF M!Recheck, M!MoveAside, M!NoteAside, M!MoveIn, M!NoteIn,
             M!Disarm, M!LeaveTry, M!NothingToUndo, M!DiscardBackup, M!TypeOK
    <2>4. CASE M!Unwind(c) \/ M!StopPipeline(c) \/ M!UnwindIn(c) \/ M!UnwindAside(c)
      BY <2>4
         DEF M!Unwind, M!StopPipeline, M!UnwindIn, M!UnwindAside,
             M!TypeOK
    <2> QED
      BY <2>1, <2>2, <2>3, <2>4 DEF M!Proceed, M!ReleaseLocks, M!Kill
  <1>2. pc'[o] = pc[o] /\ idx'[o] = idx[o]
    BY PlaceOfOthers
  <1>3. M!Dests(o) \subseteq Dest
    BY DEF M!Dests, M!Within
  <1>4. CASE Quiet(c) \/ M!DiscardBackup(c)
    <2>1. dir' = dir /\ backup'[o] = backup[o]
      BY <1>4, QuietEffect, DiscardEffect DEF M!DiscardBackup
    <2>2. \A d \in M!Dests(o) : M!InBackup(d) => M!InBackup(d)'
      BY <1>3, <1>4, CopiesStay
    <2> QED
      BY <1>1, <1>2, <2>1, <2>2, ProgressFrame
  <1>5. CASE ~Quiet(c) /\ ~M!DiscardBackup(c)
    <2>1. M!Working(c)
      BY <1>5, StepEffect DEF Installed, M!Disarm, M!LeaveTry, M!Working, M!Moving
    <2>2. ASSUME M!Holding(o)
          PROVE  /\ M!Dests(c) \cap M!Dests(o) = {}
                 /\ \A p \in M!PairSet(o) : Parent[Pairs[o][p]] \notin M!Dests(c)
      BY <2>1, <2>2, HoldersAreApart DEF M!Holding
    <2>3. /\ \A d \in Dest \ M!Dests(c) : dir'[d] = dir[d]
          /\ backup'[o] = backup[o]
      BY <1>5, QuietEffect, StepEffect, PairFacts
    <2>4. ASSUME M!Holding(o), NEW d \in M!Dests(o), M!InBackup(d) PROVE M!InBackup(d)'
      BY <1>3, <2>2, <2>4, CopiesStay
    <2>5. ASSUME M!Holding(o), NEW p \in M!PairSet(o), Parent[Pairs[o][p]] # NoDest
          PROVE  dir'[Parent[Pairs[o][p]]] = dir[Parent[Pairs[o][p]]]
      <3>1. Parent[Pairs[o][p]] \in Dest
        BY <2>5, PairFacts, DestFacts
      <3> QED
        BY <2>2, <2>3, <2>5, <3>1
    <2>6. M!Holding(o) => \A d \in M!Dests(o) : dir'[d] = dir[d]
      BY <1>3, <2>2, <2>3
    <2> QED
      BY <1>1, <1>2, <2>3, <2>4, <2>5, <2>6, ProgressFrame
  <1> QED
    BY <1>4, <1>5

LEMMA ProgressOwn ==
    ASSUME M!TypeOK, M!InBounds, M!NoOrphan, M!AbsentIsKept, ~raced, NEW c \in Command, M!Progress(c),
           M!Proceed(c) \/ M!Unwind(c) \/ M!StopPipeline(c) \/ M!Signal(c) \/ M!Kill(c)
    PROVE  M!Progress(c)'
    BY ProgressEarly, ProgressRecheck, ProgressAside, ProgressMoveIn, ProgressNotes,
       ProgressDiscard, ProgressUnwind, ProgressBackIn, ProgressBackAside
       DEF M!Proceed

\* A developer's edit is allowed for in what a command knows.
LEMMA ProgressDevelopers ==
    ASSUME M!TypeOK, M!InBounds, NEW c \in Command, M!Progress(c), NEW e \in Dest, M!Edit(e) \/ M!Commit(e)
    PROVE  M!Progress(c)'
  <1>1. UNCHANGED <<pc, idx, moved, installed, before, broken, backup>>
    BY DEF M!Edit, M!Commit, M!moveVars
  <1>2. \A d \in Dest : dir'[d] = dir[d] \/ (dir[d] # M!Absent /\ dir'[d] = "edit")
    BY DEF M!Edit, M!Commit, M!TypeOK
  <1>3. M!Dests(c) \subseteq Dest /\ \A p \in M!PairSet(c) : Parent[Pairs[c][p]] \in Dest \cup {NoDest}
    BY PairFacts, DestFacts DEF M!Dests, M!Within
  <1>4. \A d \in M!Dests(c) : M!InBackup(d) => M!InBackup(d)'
    BY <1>1 DEF M!InBackup, M!Absent
  <1>5. /\ \A d \in M!Dests(c) : dir'[d] = dir[d] \/ (dir[d] # M!Absent /\ dir'[d] = "edit")
        /\ \A p \in M!PairSet(c) :
               Parent[Pairs[c][p]] # NoDest /\ dir[Parent[Pairs[c][p]]] # M!Absent =>
                   dir'[Parent[Pairs[c][p]]] # M!Absent
    BY <1>2, <1>3 DEF M!Absent
  <1> QED
    BY <1>1, <1>4, <1>5, ProgressFrame

LEMMA IndInit == ASSUME M!Init PROVE M!IndInv
  <1>1. M!TypeOK /\ M!InBounds
    BY TypeInit
  <1>2. M!EditIsKnown
    BY DEF M!Init, M!EditIsKnown, M!OnlyLateEditsAreLost, M!First,
           M!Absent, M!Moving
  <1>3. M!NoOrphan /\ M!AbsentIsKept
    <2>1. \A d \in Dest : dir[d] # M!Absent
      BY DEF M!Init, M!First, M!Absent
    <2> QED
      BY <2>1, DestFacts DEF M!NoOrphan, M!AbsentIsKept
  <1>4. ASSUME NEW c \in Command PROVE M!OwnsLocks(c) /\ M!Progress(c)
    <2>1. /\ pc[c] = "idle" /\ acquired[c] = {} /\ moved[c] = {} /\ installed[c] = {} /\ ~broken[c]
          /\ \A d \in Dest : backup[c][d] = M!Absent
      BY DEF M!Init
    <2> QED
      BY <2>1
         DEF M!OwnsLocks, M!Progress, M!Holding, M!Alive, M!Working,
             M!Moving, M!Unwinding
  <1>5. M!CopiesAreOwn
    BY DEF M!Init, M!CopiesAreOwn, M!Absent
  <1> QED
    BY <1>1, <1>2, <1>3, <1>4, <1>5 DEF M!IndInv

LEMMA IndStep == ASSUME M!IndInv, M!Next PROVE M!IndInv'
  <1>1. M!TypeOK /\ M!InBounds /\ M!EditIsKnown /\ M!CopiesAreOwn
    BY DEF M!IndInv
  <1>2. M!TypeOK' /\ M!InBounds' /\ M!EditIsKnown' /\ M!CopiesAreOwn'
    BY <1>1, TypeStep, EditStep, CopiesStep
  <1>3. ASSUME ~raced'
        PROVE  M!NoOrphan' /\ M!AbsentIsKept' /\ \A c \in Command : M!OwnsLocks(c)' /\ M!Progress(c)'
    <2>1. ~raced
      BY <1>1, <1>3, RacedStays
    <2>2. M!NoOrphan /\ M!AbsentIsKept /\ \A c \in Command : M!OwnsLocks(c) /\ M!Progress(c)
      BY <2>1 DEF M!IndInv
    <2>3. M!NoOrphan' /\ M!AbsentIsKept'
      BY <1>1, <1>3, <2>1, <2>2, SomewhereStep
    <2>4. \A c \in Command : M!OwnsLocks(c)'
      BY <1>1, <1>3, <2>2, OwnsStep
    <2>5. ASSUME NEW o \in Command PROVE M!Progress(o)'
      <3>1. ASSUME NEW c \in Command,
                   M!Proceed(c) \/ M!Unwind(c) \/ M!StopPipeline(c) \/ M!Signal(c) \/ M!Kill(c)
            PROVE  M!Progress(o)'
        <4>1. CASE o = c
          BY <1>1, <2>1, <2>2, <3>1, <4>1, ProgressOwn
        <4>2. CASE o # c
          BY <1>1, <2>2, <3>1, <4>2, ProgressOthers
        <4> QED
          BY <4>1, <4>2
      <3>2. ASSUME NEW e \in Dest, M!Edit(e) \/ M!Commit(e) PROVE M!Progress(o)'
        BY <1>1, <2>2, <3>2, ProgressDevelopers
      <3>3. Editable \subseteq Dest
        BY MirrorAssumption DEF M!ConstantsFit
      <3> QED
        BY <3>1, <3>2, <3>3 DEF M!Next
    <2> QED
      BY <2>3, <2>4, <2>5
  <1> QED
    BY <1>2, <1>3 DEF M!IndInv

\* The invariant of the part of the working tree that has the mirrors
MirrorInv == part = "mirror" => M!IndInv

LEMMA MirrorInvHolds == Spec => []MirrorInv
  <1>1. Init => MirrorInv
    <2> SUFFICES ASSUME Init, part = "mirror" PROVE M!IndInv
      BY DEF MirrorInv
    <2>1. M!Init
      BY DEF Init, InitMirror, InitFolders, InitTemplate
    <2> QED
      BY <2>1, IndInit
  <1>2. MirrorInv /\ [Next]_vars => MirrorInv'
    <2> SUFFICES ASSUME MirrorInv, [Next]_vars, part' = "mirror" PROVE M!IndInv'
      BY DEF MirrorInv
    <2>1. CASE StepMirror
      <3>1. part = "mirror" /\ M!Next
        BY <2>1 DEF StepMirror
      <3> QED
        BY <3>1, IndStep DEF MirrorInv
    <2>2. CASE StepFolders \/ StepTemplate
      BY <2>2 DEF StepFolders, StepTemplate
    <2>3. CASE UNCHANGED vars
      <3>1. M!IndInv /\ M!TypeOK /\ M!InBounds /\ M!EditIsKnown /\ M!CopiesAreOwn
        BY <2>3 DEF MirrorInv, vars, M!IndInv
      <3>2. /\ UNCHANGED <<dir, head, saved, late, lostEdits, lock, raced, staged, backup, pc, idx>>
            /\ UNCHANGED <<acquired, moved, installed, before, broken>>
        BY <2>3 DEF vars
      <3>3. M!TypeOK' /\ M!InBounds'
        <4>1. M!TypeOK'
          BY <3>1, <3>2
             DEF M!TypeOK, M!Content, M!Absent, M!LockFile, M!NoLock,
                 M!PC
        <4>2. M!InBounds'
          BY <3>1, <3>2
             DEF M!InBounds, M!Working, M!Moving, M!LockPlaces, M!LockAt,
                 M!PairSet
        <4> QED
          BY <4>1, <4>2
      <3>4. M!EditIsKnown'
        BY <3>1, <3>2, EditFrame DEF M!Moving
      <3>7. M!CopiesAreOwn'
        BY <3>1, <3>2 DEF M!CopiesAreOwn, M!Absent, M!Dests, M!PairSet, M!Within
      <3>5. ASSUME ~raced PROVE (M!NoOrphan /\ M!AbsentIsKept)'
        BY <3>1, <3>2, <3>5
           DEF M!IndInv, M!NoOrphan, M!AbsentIsKept, M!InBackup, M!Absent
      <3>6. ASSUME ~raced, NEW c \in Command PROVE (M!OwnsLocks(c) /\ M!Progress(c))'
        <4>1. M!OwnsLocks(c) /\ M!Progress(c)
          BY <3>1, <3>6 DEF M!IndInv
        <4>2. M!OwnsLocks(c)'
          BY <3>2, <4>1, OwnsFrame
        <4>3. M!Progress(c)'
          BY <3>1, <3>2, <4>1, ProgressFrame DEF M!InBackup, M!Absent
        <4> QED
          BY <4>2, <4>3
      <3> QED
        BY <3>2, <3>3, <3>4, <3>5, <3>6, <3>7 DEF M!IndInv
    <2> QED
      BY <2>1, <2>2, <2>3 DEF Next
  <1> QED
    BY <1>1, <1>2, PTL DEF Spec

\* No failure, signal or kill of a command loses a mirror, and a rollback of
\* which no step failed gives every mirror back, unless a running command was
\* robbed of a lock (replace_mirror.sh 300-390).
THEOREM MirrorsKept == Spec => []MirrorIsKept
  <1>1. MirrorInv => MirrorIsKept
    <2> SUFFICES ASSUME part = "mirror", M!IndInv PROVE M!MirrorIsKept
      BY DEF MirrorInv, MirrorIsKept
    <2>1. M!MirrorIsSomewhere
      BY DEF M!IndInv, M!AbsentIsKept, M!InBackup, M!MirrorIsSomewhere
    <2>2. M!UnwoundIsUnchanged
      <3> SUFFICES ASSUME NEW c \in Command, ~raced,
                          pc[c] = "release", moved[c] \cup installed[c] # {}, ~broken[c],
                          NEW d \in M!Dests(c)
                   PROVE  dir[d] \in {before[c][d], "edit"}
        BY DEF M!UnwoundIsUnchanged
      <3>1. M!Progress(c)
        BY DEF M!IndInv
      <3>2. PICK p \in M!PairSet(c) : d \in M!Area(c, p)
        BY InOnePair
      <3>3. M!AsBefore(c, p)
        BY <3>1 DEF M!Progress
      <3> QED
        BY <3>2, <3>3 DEF M!AsBefore
    <2> QED
      BY <2>1, <2>2 DEF M!MirrorIsKept
  <1> QED
    BY <1>1, MirrorInvHolds, PTL

\* A replacement deletes no edit that was there when it looked under its locks.
THEOREM EarlyEditsKept == Spec => []OnlyLateEditsAreLost
  <1>1. MirrorInv => OnlyLateEditsAreLost
    BY DEF MirrorInv, M!IndInv, M!EditIsKnown, OnlyLateEditsAreLost
  <1> QED
    BY <1>1, MirrorInvHolds, PTL

\* Commands whose mirrors overlap never move mirrors, or move them back, at the
\* same time, unless a running command was robbed of a lock.
THEOREM OverlapExcluded == Spec => []OverlappingMovesExclude
  <1>1. MirrorInv => OverlappingMovesExclude
    <2> SUFFICES ASSUME part = "mirror", M!IndInv, ~raced, NEW a \in Command, NEW b \in Command, a # b,
                        M!Working(a), M!Working(b)
                 PROVE  M!Dests(a) \cap M!Dests(b) = {}
      BY DEF MirrorInv, OverlappingMovesExclude, M!OverlappingMovesExclude
    <2>1. M!OwnsLocks(a) /\ M!OwnsLocks(b) /\ M!Holding(a) /\ M!Holding(b)
      BY DEF M!IndInv, M!Holding
    <2> QED
      BY <2>1, HoldersAreApart
  <1> QED
    BY <1>1, MirrorInvHolds, PTL

-----------------------------------------------------------------------------
(* Migration folders: what is on record of the attempts *)

\* What a step on the tree keeps: no event is gone, unless with a folder that
\* new-migration took back, and none is new; what is there is well formed.
TreeEffect ==
    /\ withdrawn \subseteq withdrawn'
    /\ \A x \in F!Folder : \A c \in F!Held(x) :
          c.events = {} \/ x \in withdrawn' \/ \E d \in F!Held(x)' : c.events \subseteq d.events
    /\ \A x \in F!Folder : \A d \in F!Held(x)' : \A v \in d.events : \E c \in F!Held(x) : v \in c.events
    /\ \A x \in F!Folder : \A d \in F!Held(x)' : d.checks => d.steps = F!Steps

LEMMA FolderFacts ==
    /\ MaxRevision \in Nat \ {0} /\ None \notin F!Folder /\ None \notin F!Content
    /\ None \notin F!Frozen /\ SchemaOf \in [Family -> Schema]
    /\ F!Empty \in F!Content /\ F!Empty.events = {} /\ ~F!Empty.checks
    BY FoldersAssumption DEF F!ConstantsFit, F!Empty, F!Content, F!Steps

LEMMA HeldFacts ==
    ASSUME F!TypeOK, NEW x \in F!Folder
    PROVE  /\ \A c \in F!Held(x) : c \in F!Content
           /\ visible[x] # None => visible[x] \in F!Held(x) /\ visible[x] \in F!Content
           /\ archived[x] # None => archived[x] \in F!Held(x)
    BY DEF F!TypeOK, F!Held

\* The tree is as it was.
LEMMA TreeSame ==
    ASSUME F!TypeOK, F!ChecksComeLast, UNCHANGED <<visible, archived, withdrawn>>
    PROVE  TreeEffect
    BY DEF TreeEffect, F!ChecksComeLast, F!Held

\* A folder of the tree is rewritten, or made where there was none.
LEMMA TreeRewritten ==
    ASSUME F!TypeOK, F!ChecksComeLast, NEW x, NEW d, UNCHANGED <<archived, withdrawn>>,
           visible' = [visible EXCEPT ![x] = d],
           x \in F!Folder => /\ d \in F!Content /\ (d.checks => d.steps = F!Steps)
                             /\ IF visible[x] = None THEN d.events = {} ELSE d.events = visible[x].events
    PROVE  TreeEffect /\ visible' \in [F!Folder -> F!Content \cup {None}]
  <1>1. visible' \in [F!Folder -> F!Content \cup {None}]
    BY DEF F!TypeOK
  <1>2. \A y \in F!Folder \ {x} : F!Held(y)' = F!Held(y)
    BY DEF F!TypeOK, F!Held
  <1>3. ASSUME x \in F!Folder
        PROVE  F!Held(x)' = ({d} \cup {archived[x]}) \ {None}
    BY <1>3 DEF F!TypeOK, F!Held
  <1>4. \A y \in F!Folder : \A e \in F!Held(y)' : e.checks => e.steps = F!Steps
    BY <1>2, <1>3 DEF F!ChecksComeLast, F!Held
  <1>5. \A y \in F!Folder : \A e \in F!Held(y)' : \A v \in e.events : \E c \in F!Held(y) : v \in c.events
    BY <1>2, <1>3 DEF F!Held
  <1>6. \A y \in F!Folder : \A c \in F!Held(y) : c.events = {} \/ \E e \in F!Held(y)' : c.events \subseteq e.events
    BY <1>2, <1>3, FolderFacts DEF F!Held
  <1> QED
    BY <1>1, <1>4, <1>5, <1>6 DEF TreeEffect

\* Folders are moved between the tree and the archive, never onto one another.
LEMMA TreeMoved ==
    ASSUME F!TypeOK, F!ChecksComeLast, UNCHANGED withdrawn, NEW moves,
           \/ F!ToArchive(moves) /\ \A x \in moves \cap F!Folder : visible[x] # None /\ archived[x] = None
           \/ F!ToTree(moves) /\ \A x \in moves \cap F!Folder : archived[x] # None /\ visible[x] = None
    PROVE  TreeEffect /\ visible' \in [F!Folder -> F!Content \cup {None}]
                       /\ archived' \in [F!Folder -> F!Content \cup {None}]
  <1>1. visible' \in [F!Folder -> F!Content \cup {None}] /\ archived' \in [F!Folder -> F!Content \cup {None}]
    BY DEF F!TypeOK, F!ToArchive, F!ToTree
  <1>2. \A y \in F!Folder : F!Held(y)' = F!Held(y)
    BY DEF F!TypeOK, F!ToArchive, F!ToTree, F!Held
  <1> QED
    BY <1>1, <1>2 DEF TreeEffect, F!ChecksComeLast

\* An unfinished folder is removed, with the events a migrate left in it.
LEMMA TreeRemoved ==
    ASSUME F!TypeOK, F!ChecksComeLast, F!AttemptsAreOnRecord, NEW a \in Author, F!RemoveFolder(a), UNCHANGED archived
    PROVE  TreeEffect /\ visible' \in [F!Folder -> F!Content \cup {None}]
  <1>0. PICK x : x = author[a].folder
    OBVIOUS
  <1>1. visible' = [visible EXCEPT ![x] = None] /\ withdrawn \subseteq withdrawn'
    BY <1>0 DEF F!RemoveFolder
  <1>2. visible' \in [F!Folder -> F!Content \cup {None}]
    BY <1>1 DEF F!TypeOK
  <1>3. \A y \in F!Folder \ {x} : F!Held(y)' = F!Held(y)
    BY <1>1 DEF F!TypeOK, F!Held
  <1>4. ASSUME x \in F!Folder
        PROVE  F!Held(x)' = {archived[x]} \ {None}
    BY <1>1, <1>4 DEF F!TypeOK, F!Held
  <1>5. ASSUME x \in F!Folder, visible[x] # None, visible[x].events # {}
        PROVE  x \in withdrawn'
    <2>1. visible[x] \in F!Held(x) /\ visible[x] \in F!Content
      BY <1>5, HeldFacts
    <2>2. PICK v \in visible[x].events : v.by \in Applier
      BY <1>5, <2>1 DEF F!Content
    <2>3. applier[v.by].folder = x /\ F!Attempting(v.by)
      BY <1>5, <2>1 DEF F!AttemptsAreOnRecord
    <2>4. F!Taken(x)
      BY <2>2, <2>3 DEF F!Taken, F!Attempting
    <2> QED
      BY <1>0, <1>5, <2>4 DEF F!RemoveFolder
  <1>6. \A y \in F!Folder : \A e \in F!Held(y)' : (e.checks => e.steps = F!Steps) /\ e \in F!Held(y)
    BY <1>3, <1>4 DEF F!ChecksComeLast, F!Held
  <1>7. \A y \in F!Folder : \A c \in F!Held(y) :
          c.events = {} \/ y \in withdrawn' \/ \E e \in F!Held(y)' : c.events \subseteq e.events
    BY <1>3, <1>4, <1>5 DEF F!Held
  <1> QED
    BY <1>1, <1>2, <1>6, <1>7 DEF TreeEffect

\* Such a step keeps what is on record, as long as no session starts or commits.
LEMMA RecordKept ==
    ASSUME F!TypeOK, F!AttemptsAreOnRecord, F!EvidenceStays, TreeEffect, UNCHANGED <<sent, session>>,
           \A c \in Applier : F!Attempting(c) =>
               F!Attempting(c)' /\ UNCHANGED <<applier[c].folder, applier[c].env>>
    PROVE  F!AttemptsAreOnRecord' /\ F!EvidenceStays' /\ F!ChecksComeLast'
  <1>1. ASSUME NEW x \in F!Folder, NEW e, F!Known(x, e)
        PROVE  x \in withdrawn' \/ F!Known(x, e)'
    BY <1>1 DEF TreeEffect, F!Known
  <1>2. \A x \in F!Folder : \A d \in F!Held(x)' : \A v \in d.events : v.by \in Applier
    <2> SUFFICES ASSUME NEW x \in F!Folder, NEW d \in F!Held(x)', NEW v \in d.events PROVE v.by \in Applier
      OBVIOUS
    <2>1. PICK c \in F!Held(x) : v \in c.events
      BY DEF TreeEffect
    <2>2. c \in F!Content
      BY <2>1, HeldFacts
    <2> QED
      BY <2>1, <2>2 DEF F!Content
  <1>3. \A x \in F!Folder : \A d \in F!Held(x)' : \A v \in d.events :
           applier'[v.by].folder = x /\ F!Attempting(v.by)'
    BY <1>2 DEF TreeEffect, F!AttemptsAreOnRecord
  <1>4. ASSUME NEW c \in Applier, session[c] # "none"
        PROVE  /\ F!Attempting(c)' /\ applier'[c].folder # None
               /\ applier'[c].folder \in withdrawn' \/ F!Known(applier[c].folder, applier[c].env)'
               /\ applier'[c].folder = applier[c].folder /\ applier'[c].env = applier[c].env
    <2>1. /\ F!Attempting(c) /\ applier[c].folder # None
          /\ applier[c].folder \in withdrawn \/ F!Known(applier[c].folder, applier[c].env)
      BY <1>4 DEF F!AttemptsAreOnRecord
    <2>2. applier[c].folder \in F!Folder
      BY <2>1 DEF F!TypeOK
    <2> QED
      BY <2>1, <2>2, <1>1 DEF TreeEffect
  <1>5. F!AttemptsAreOnRecord'
    BY <1>3, <1>4 DEF F!AttemptsAreOnRecord, F!Known
  <1>6. F!EvidenceStays'
    BY <1>1 DEF F!EvidenceStays, TreeEffect
  <1> QED
    BY <1>5, <1>6 DEF TreeEffect, F!ChecksComeLast

-----------------------------------------------------------------------------
(* new-migration and revise *)

\* What a command of an author has, in the state or after a step.
AuthorFits(r) ==
    /\ DOMAIN r = {"pc", "folder", "base", "archived", "copy"}
    /\ r.folder \in F!Folder \cup {None} /\ r.base \in Nat /\ r.copy \in F!Frozen \cup {None}
    /\ r.pc \notin {"idle", "over", "killed"} => r.folder # None
    /\ r.pc = "install" => r.copy # None
    /\ r.copy # None => r.copy.steps = F!Steps

LEMMA AuthorFacts ==
    ASSUME F!RecordInv, NEW a \in Author
    PROVE  AuthorFits(author[a])
    BY DEF F!RecordInv, F!TypeOK, F!FolderChosen, F!NothingHalfWritten,
           AuthorFits

\* One author goes on, everything else of the invariant is kept elsewhere.
LEMMA AuthorChanged ==
    ASSUME F!RecordInv, NEW a \in Author, TreeEffect,
           visible' \in [F!Folder -> F!Content \cup {None}], archived' \in [F!Folder -> F!Content \cup {None}],
           DOMAIN author' = Author, \A o \in Author \ {a} : author'[o] = author[o], AuthorFits(author'[a]),
           UNCHANGED <<F!world, archiver, applier>>
    PROVE  F!RecordInv'
  <1>1. \A o \in Author : AuthorFits(author'[o])
    BY AuthorFacts
  <1>2. F!TypeOK'
    BY <1>1 DEF F!RecordInv, F!TypeOK, AuthorFits, F!world
  <1>3. F!FolderChosen' /\ F!NothingHalfWritten'
    BY <1>1 DEF F!RecordInv, F!FolderChosen, F!NothingHalfWritten, AuthorFits
  <1>4. F!AttemptsAreOnRecord' /\ F!EvidenceStays' /\ F!ChecksComeLast'
    BY RecordKept DEF F!RecordInv, F!world, F!Attempting
  <1> QED
    BY <1>2, <1>3, <1>4 DEF F!RecordInv

LEMMA AuthorMoves ==
    ASSUME F!RecordInv, NEW a \in Author
    PROVE  /\ AuthorFits(F!Idle("over"))
           /\ \A l : (l = "install" => author[a].copy # None) /\ author[a].folder # None /\ F!AuthorGoes(a, l) =>
                  /\ DOMAIN author' = Author /\ \A o \in Author \ {a} : author'[o] = author[o]
                  /\ AuthorFits(author'[a])
           /\ F!AuthorEnds(a) => /\ DOMAIN author' = Author /\ \A o \in Author \ {a} : author'[o] = author[o]
                                 /\ author'[a] = F!Idle("over")
  <1>1. AuthorFits(F!Idle("over"))
    BY DEF AuthorFits, F!Idle
  <1>2. DOMAIN author = Author
    BY DEF F!RecordInv, F!TypeOK
  <1>3. ASSUME NEW l, l = "install" => author[a].copy # None, author[a].folder # None, F!AuthorGoes(a, l)
        PROVE  /\ DOMAIN author' = Author /\ \A o \in Author \ {a} : author'[o] = author[o]
               /\ AuthorFits(author'[a])
    BY <1>2, <1>3, AuthorFacts DEF F!AuthorGoes, AuthorFits
  <1>4. F!AuthorEnds(a) => /\ DOMAIN author' = Author /\ \A o \in Author \ {a} : author'[o] = author[o]
                           /\ author'[a] = F!Idle("over")
    BY <1>2 DEF F!AuthorEnds
  <1> QED
    BY <1>1, <1>3, <1>4

\* A complete folder has all its steps.
LEMMA LoadedIsWhole ==
    ASSUME F!RecordInv, NEW x \in F!Folder, F!Loads(x)
    PROVE  visible[x] \in F!Content /\ F!Payload(visible[x]) \in F!Frozen /\ F!Payload(visible[x]).steps = F!Steps
           /\ F!Payload(visible[x]) # None
  <1>1. visible[x] \in F!Content /\ visible[x] \in F!Held(x)
    BY HeldFacts DEF F!RecordInv, F!Loads
  <1>2. visible[x].steps = F!Steps
    BY <1>1 DEF F!RecordInv, F!ChecksComeLast, F!Loads
  <1> QED
    BY <1>1, <1>2, FolderFacts DEF F!Payload, F!Content, F!Frozen, F!Steps

\* The steps that only look at the tree
LEMMA AuthorLooks ==
    ASSUME F!RecordInv, NEW a \in Author,
           F!CheckName(a) \/ F!ReadSource(a) \/ F!ReadIndex(a) \/ F!ListFamily(a) \/ F!CopyFiles(a) \/ F!KillAuthor(a)
    PROVE  F!RecordInv'
  <1> USE DEF F!RecordInv
  <1>1. AuthorFits(author[a]) /\ DOMAIN author = Author
    BY AuthorFacts DEF F!TypeOK
  <1>2. UNCHANGED <<F!tree, withdrawn, F!world, archiver, applier>>
    BY DEF F!CheckName, F!ReadSource, F!ReadIndex, F!ListFamily,
           F!CopyFiles, F!KillAuthor, F!tree, F!world
  <1>3. TreeEffect
    BY <1>2, TreeSame DEF F!tree
  <1>4. visible' \in [F!Folder -> F!Content \cup {None}] /\ archived' \in [F!Folder -> F!Content \cup {None}]
    BY <1>2 DEF F!TypeOK, F!tree
  <1>5. /\ DOMAIN author' = Author /\ \A o \in Author \ {a} : author'[o] = author[o]
        /\ AuthorFits(author'[a])
    <2>1. CASE F!CheckName(a)
      <3>1. PICK f \in Family, d \in Day :
              author' = [author EXCEPT ![a] = [F!Idle("read") EXCEPT !.folder = [family |-> f, rev |-> 1, day |-> d]]]
        BY <2>1 DEF F!CheckName
      <3>2. [family |-> f, rev |-> 1, day |-> d] \in F!Folder
        BY FolderFacts DEF F!Folder
      <3> QED
        BY <3>1, <3>2, <1>1, FolderFacts DEF AuthorFits, F!Idle
    <2>2. CASE F!ReadSource(a)
      <3>1. author[a].pc = "read" /\ author[a].folder \in F!Folder
        BY <2>2, <1>1 DEF F!ReadSource, AuthorFits
      <3>2. live["dev"][author[a].folder.family] \in Nat
        BY <3>1 DEF F!TypeOK, F!Env, F!Folder
      <3>3. CASE author' = [author EXCEPT ![a].pc = "make", ![a].base = live["dev"][author[a].folder.family]]
        BY <1>1, <3>1, <3>2, <3>3 DEF AuthorFits
      <3> QED
        BY <2>2, <3>3, AuthorMoves DEF F!ReadSource
    <2>3. CASE F!ReadIndex(a)
      <3>1. PICK x \in F!Visible : author' = [author EXCEPT ![a] =
              [F!Idle("list") EXCEPT !.folder = x, !.archived = F!ArchivedRevisions(x.family)]]
        BY <2>3 DEF F!ReadIndex
      <3> QED
        BY <3>1, <1>1, FolderFacts DEF AuthorFits, F!Idle, F!Visible
    <2>4. CASE F!ListFamily(a)
      BY <2>4, <1>1, AuthorMoves DEF F!ListFamily, AuthorFits
    <2>5. CASE F!CopyFiles(a)
      <3>1. author[a].pc = "copy" /\ author[a].folder \in F!Folder
        BY <2>5, <1>1 DEF F!CopyFiles, AuthorFits
      <3>2. CASE F!Loads(author[a].folder) /\
                 author' = [author EXCEPT ![a].pc = "install", ![a].copy = F!Payload(visible[author[a].folder])]
        BY <1>1, <3>1, <3>2, LoadedIsWhole DEF AuthorFits
      <3> QED
        BY <2>5, <3>2, AuthorMoves DEF F!CopyFiles
    <2>6. CASE F!KillAuthor(a)
      BY <2>6, <1>1 DEF F!KillAuthor, F!AuthorGoes, AuthorFits
    <2> QED
      BY <2>1, <2>2, <2>3, <2>4, <2>5, <2>6
  <1> QED
    BY <1>2, <1>3, <1>4, <1>5, AuthorChanged

\* The steps that write
LEMMA AuthorWrites ==
    ASSUME F!RecordInv, NEW a \in Author,
           F!MakeFolder(a) \/ F!WriteFile(a) \/ F!LoadNew(a) \/ F!WriteFails(a) \/ F!InstallRevision(a)
    PROVE  F!RecordInv'
  <1> USE DEF F!RecordInv
  <1>0. 0 \in 0 .. F!Steps /\ F!Steps \in 0 .. F!Steps
    BY DEF F!Steps
  <1>1. AuthorFits(author[a])
    BY AuthorFacts
  <1>2. UNCHANGED <<archived, F!world, archiver, applier>>
    BY DEF F!MakeFolder, F!WriteFile, F!LoadNew, F!WriteFails,
           F!InstallRevision, F!tree, F!world
  <1>3. archived' \in [F!Folder -> F!Content \cup {None}]
    BY <1>2 DEF F!TypeOK
  <1>4. TreeEffect /\ visible' \in [F!Folder -> F!Content \cup {None}]
    <2>1. CASE UNCHANGED <<visible, withdrawn>>
      BY <2>1, <1>2, TreeSame DEF F!TypeOK
    <2>2. CASE F!MakeFolder(a) /\ ~UNCHANGED visible
      <3> DEFINE d == [F!Empty EXCEPT !.base = author[a].base]
      <3>1. PICK x : x = author[a].folder
        OBVIOUS
      <3>2. visible[x] = None /\ visible' = [visible EXCEPT ![x] = d] /\ UNCHANGED <<archived, withdrawn>>
        BY <2>2, <3>1, <1>2 DEF F!MakeFolder, F!tree
      <3>3. d \in F!Content /\ d.events = {} /\ ~d.checks
        BY <1>0, <1>1 DEF AuthorFits, F!Empty, F!Content
      <3> QED
        BY <3>2, <3>3, TreeRewritten
    <2>3. CASE F!WriteFile(a)
      <3>1. PICK x : x = author[a].folder
        OBVIOUS
      <3>2. /\ visible[x] # None /\ visible' = [visible EXCEPT ![x] = F!NextFile(visible[x])]
            /\ UNCHANGED <<archived, withdrawn>>
        BY <2>3, <3>1, <1>2 DEF F!WriteFile
      <3>3. ASSUME x \in F!Folder
            PROVE  /\ F!NextFile(visible[x]) \in F!Content /\ F!NextFile(visible[x]).events = visible[x].events
                   /\ F!NextFile(visible[x]).checks => F!NextFile(visible[x]).steps = F!Steps
        <4>1. visible[x] \in F!Content /\ (visible[x].checks => visible[x].steps = F!Steps)
          BY <3>2, <3>3, HeldFacts DEF F!ChecksComeLast
        <4>2. PICK d : d = visible[x]
          OBVIOUS
        <4>3. d.steps \in 0 .. F!Steps /\ (d.steps < F!Steps => d.steps + 1 \in 0 .. F!Steps) /\ (~(d.steps < F!Steps) => d.steps = F!Steps)
          BY <4>1, <4>2 DEF F!Content, F!Steps
        <4>4. d.steps < F!Steps => ~d.checks
          BY <4>1, <4>2, <4>3 DEF F!Steps
        <4> QED
          BY <4>1, <4>2, <4>3, <4>4 DEF F!NextFile, F!Content
      <3> QED
        BY <3>2, <3>3, TreeRewritten
    <2>4. CASE F!RemoveFolder(a)
      BY <2>4, <1>2, TreeRemoved
    <2>5. CASE F!InstallRevision(a) /\ ~UNCHANGED visible
      <3> DEFINE d == [F!Empty EXCEPT !.base = author[a].copy.base, !.text = author[a].copy.text,
                              !.steps = author[a].copy.steps, !.checks = TRUE]
      <3>1. PICK x : x = F!NextRevision(author[a].folder)
        OBVIOUS
      <3>2. visible[x] = None /\ visible' = [visible EXCEPT ![x] = d] /\ UNCHANGED <<archived, withdrawn>>
        BY <2>5, <3>1, <1>2 DEF F!InstallRevision
      <3>3. author[a].copy \in F!Frozen /\ author[a].copy.steps = F!Steps
        BY <1>1, <2>5 DEF F!InstallRevision, AuthorFits
      <3>4. d \in F!Content /\ d.events = {} /\ d.steps = F!Steps
        BY <1>0, <3>3 DEF F!Empty, F!Content, F!Frozen
      <3> QED
        BY <3>2, <3>4, TreeRewritten
    <2> QED
      BY <2>1, <2>2, <2>3, <2>4, <2>5, <1>2
         DEF F!MakeFolder, F!LoadNew, F!WriteFails, F!InstallRevision,
             F!AuthorEnds
  <1>5. /\ DOMAIN author' = Author /\ \A o \in Author \ {a} : author'[o] = author[o]
        /\ AuthorFits(author'[a])
    <2>1. CASE F!AuthorEnds(a)
      BY <2>1, AuthorMoves
    <2>2. CASE F!AuthorGoes(a, "write") \/ F!AuthorGoes(a, "load") \/ UNCHANGED author
      <3>1. author[a].folder # None \/ UNCHANGED author
        BY <1>1, <2>2
           DEF F!MakeFolder, F!WriteFile, F!LoadNew, F!WriteFails,
               F!InstallRevision, AuthorFits
      <3>2. CASE UNCHANGED author
        BY <1>1, <3>2 DEF F!TypeOK
      <3> QED
        BY <2>2, <3>1, <3>2, AuthorMoves
    <2> QED
      BY <2>1, <2>2
         DEF F!MakeFolder, F!WriteFile, F!LoadNew, F!WriteFails,
             F!InstallRevision, F!RemoveFolder
  <1> QED
    BY <1>2, <1>3, <1>4, <1>5, AuthorChanged

-----------------------------------------------------------------------------
(* archive-migrations *)

LEMMA ArchiverChanged ==
    ASSUME F!RecordInv, NEW k \in Archiver, TreeEffect,
           visible' \in [F!Folder -> F!Content \cup {None}], archived' \in [F!Folder -> F!Content \cup {None}],
           DOMAIN archiver' = Archiver, \A o \in Archiver \ {k} : archiver'[o] = archiver[o],
           {"pc", "payloads"} \subseteq DOMAIN archiver'[k],
           \A r \in archiver'[k].payloads : r.payload.steps = F!Steps,
           UNCHANGED <<F!world, author, applier>>
    PROVE  F!RecordInv'
  <1>1. F!TypeOK'
    BY DEF F!RecordInv, F!TypeOK, F!world
  <1>2. F!FolderChosen' /\ F!NothingHalfWritten'
    BY DEF F!RecordInv, F!FolderChosen, F!NothingHalfWritten
  <1>3. F!AttemptsAreOnRecord' /\ F!EvidenceStays' /\ F!ChecksComeLast'
    BY RecordKept DEF F!RecordInv, F!world, F!Attempting
  <1> QED
    BY <1>1, <1>2, <1>3 DEF F!RecordInv

LEMMA ArchiverStep ==
    ASSUME F!RecordInv, NEW k \in Archiver, F!ArchiverSteps(k) \/ F!KillArchiver(k)
    PROVE  F!RecordInv'
  <1> USE DEF F!RecordInv
  <1>0. /\ DOMAIN archiver = Archiver /\ {"pc", "payloads"} \subseteq DOMAIN archiver[k]
        /\ \A r \in archiver[k].payloads : r.payload.steps = F!Steps
    BY DEF F!TypeOK, F!NothingHalfWritten
  <1>1. UNCHANGED <<withdrawn, F!world, author, applier>>
    BY DEF F!ArchiverSteps, F!KillArchiver, F!PlanArchive, F!CheckPlan,
           F!MoveEntry, F!MoveFails, F!WriteIndex, F!IndexFails,
           F!RestoreIndexes, F!ReturnFolders, F!RecoverArchive
  <1>2. /\ DOMAIN archiver' = Archiver /\ \A o \in Archiver \ {k} : archiver'[o] = archiver[o]
        /\ {"pc", "payloads"} \subseteq DOMAIN archiver'[k]
        /\ \A r \in archiver'[k].payloads : r.payload.steps = F!Steps
    <2>1. CASE F!PlanArchive(k)
      <3>1. PICK chosen \in SUBSET F!Visible \ {{}}, flag \in BOOLEAN :
              /\ \A x \in chosen : F!Loads(x)
              /\ archiver' = [archiver EXCEPT ![k] = [@ EXCEPT
                    !.pc = "check", !.flag = flag,
                    !.plan = chosen,
                    !.payloads = {[folder |-> x, payload |-> F!Payload(visible[x])] : x \in chosen},
                    !.seen = F!Families(chosen),
                    !.original = index]]
        BY <2>1 DEF F!PlanArchive
      <3>2. \A x \in chosen : F!Payload(visible[x]).steps = F!Steps
        BY <3>1, LoadedIsWhole DEF F!Visible
      <3>3. /\ DOMAIN archiver' = Archiver /\ \A o \in Archiver \ {k} : archiver'[o] = archiver[o]
            /\ DOMAIN archiver'[k] = DOMAIN archiver[k]
            /\ archiver'[k].payloads = {[folder |-> x, payload |-> F!Payload(visible[x])] : x \in chosen}
        BY <1>0, <3>1
      <3> QED
        BY <1>0, <3>2, <3>3
    <2>2. CASE \E l : F!ArchiverGoes(k, l)
      BY <2>2, <1>0 DEF F!ArchiverGoes
    <2>3. CASE F!MoveEntry(k)
      BY <2>3, <1>0 DEF F!MoveEntry
    <2>4. CASE F!WriteIndex(k)
      BY <2>4, <1>0 DEF F!WriteIndex
    <2>5. CASE F!RestoreIndexes(k)
      BY <2>5, <1>0 DEF F!RestoreIndexes
    <2>6. CASE F!ReturnFolders(k)
      BY <2>6, <1>0 DEF F!ReturnFolders
    <2> QED
      BY <2>1, <2>2, <2>3, <2>4, <2>5, <2>6
         DEF F!ArchiverSteps, F!KillArchiver, F!CheckPlan, F!MoveFails,
             F!IndexFails, F!RecoverArchive
  <1>3. /\ TreeEffect /\ visible' \in [F!Folder -> F!Content \cup {None}]
        /\ archived' \in [F!Folder -> F!Content \cup {None}]
    <2>1. CASE UNCHANGED <<visible, archived>>
      BY <1>1, <2>1, TreeSame DEF F!TypeOK
    <2>2. CASE F!MoveEntry(k)
      BY <2>2, <1>1, TreeMoved DEF F!MoveEntry, F!Movable
    <2>3. CASE F!ReturnFolders(k)
      BY <2>3, <1>1, TreeMoved DEF F!ReturnFolders, F!Returnable
    <2>4. CASE F!RecoverArchive(k)
      <3>1. PICK moves : F!ToArchive(moves) /\ \A x \in moves : archived[x] = None /\ visible[x] # None
        BY <2>4 DEF F!RecoverArchive
      <3> QED
        BY <1>1, <3>1, TreeMoved
    <2> QED
      BY <2>1, <2>2, <2>3, <2>4
         DEF F!ArchiverSteps, F!KillArchiver, F!PlanArchive, F!CheckPlan,
             F!MoveFails, F!WriteIndex, F!IndexFails, F!RestoreIndexes,
             F!tree
  <1> QED
    BY <1>1, <1>2, <1>3, ArchiverChanged

-----------------------------------------------------------------------------
(* migrate *)

ApplierFits(r) ==
    /\ r \in [pc : F!ApplierPC, folder : F!Folder \cup {None}, env : F!Env, payload : F!Frozen \cup {None}]
    /\ r.pc \in {"check", "reread", "boundary", "pending", "running"} => r.folder # None /\ r.payload # None
    /\ r.payload # None => r.payload.steps = F!Steps

LEMMA ApplierFacts ==
    ASSUME F!RecordInv, NEW c \in Applier
    PROVE  ApplierFits(applier[c])
    BY DEF F!RecordInv, F!TypeOK, F!FolderChosen, F!NothingHalfWritten,
           ApplierFits

LEMMA ApplierTyped ==
    ASSUME F!RecordInv, NEW c \in Applier, UNCHANGED <<author, archiver>>,
           visible' \in [F!Folder -> F!Content \cup {None}], archived' \in [F!Folder -> F!Content \cup {None}],
           DOMAIN applier' = Applier, \A o \in Applier \ {c} : applier'[o] = applier[o], ApplierFits(applier'[c]),
           applier' = [o \in Applier |-> applier'[o]],
           session' \in [Applier -> {"none", "running", "committed", "failed"}],
           live' \in [F!Env -> [Family -> Nat]], sent' \in [F!Folder -> [F!Env -> BOOLEAN]]
    PROVE  F!TypeOK' /\ F!FolderChosen' /\ F!NothingHalfWritten'
  <1>1. \A o \in Applier : ApplierFits(applier'[o])
    BY ApplierFacts
  <1>2. F!TypeOK'
    BY <1>1 DEF F!RecordInv, F!TypeOK, ApplierFits
  <1> QED
    BY <1>1, <1>2
       DEF F!RecordInv, F!FolderChosen, F!NothingHalfWritten, ApplierFits

LEMMA ApplierMoves ==
    ASSUME F!RecordInv, NEW c \in Applier, NEW l \in F!ApplierPC, F!ApplierGoes(c, l),
           l \in {"check", "reread", "boundary", "pending", "running"} =>
                applier[c].folder # None /\ applier[c].payload # None
    PROVE  /\ DOMAIN applier' = Applier /\ \A o \in Applier \ {c} : applier'[o] = applier[o]
           /\ applier' = [o \in Applier |-> applier'[o]]
           /\ ApplierFits(applier'[c]) /\ applier'[c].pc = l
           /\ UNCHANGED <<applier[c].folder, applier[c].env>>
  <1>1. ApplierFits(applier[c]) /\ applier = [o \in Applier |-> applier[o]]
    BY ApplierFacts DEF F!RecordInv, F!TypeOK
  <1> QED
    BY <1>1 DEF F!ApplierGoes, ApplierFits

\* The steps up to the SQL, and a kill, write nothing.
LEMMA ApplierLooks ==
    ASSUME F!RecordInv, NEW c \in Applier,
           F!ApplyLoad(c) \/ F!ApplyCheck(c) \/ F!ApplyReread(c) \/ F!ApplyBoundary(c) \/ F!KillApplier(c)
             \/ (F!ApplyPending(c) /\ visible[applier[c].folder] = None)
    PROVE  F!RecordInv'
  <1> USE DEF F!RecordInv
  <1>1. ApplierFits(applier[c]) /\ applier = [o \in Applier |-> applier[o]]
    BY ApplierFacts DEF F!TypeOK
  <1>2. UNCHANGED <<visible, archived, withdrawn, live, sent, session, author, archiver>>
    BY DEF F!ApplyLoad, F!ApplyCheck, F!ApplyReread, F!ApplyBoundary,
           F!ApplyPending, F!KillApplier, F!tree, F!world
  <1>3. /\ DOMAIN applier' = Applier /\ \A o \in Applier \ {c} : applier'[o] = applier[o]
        /\ applier' = [o \in Applier |-> applier'[o]]
        /\ ApplierFits(applier'[c])
        /\ F!Attempting(c) => F!Attempting(c)' /\ UNCHANGED <<applier[c].folder, applier[c].env>>
    <2>1. CASE F!ApplyLoad(c)
      <3>1. PICK x \in F!Visible, e \in F!Env : F!Loads(x) /\ applier' = [applier EXCEPT ![c] =
               [pc |-> "check", folder |-> x, env |-> e, payload |-> F!Payload(visible[x])]]
        BY <2>1 DEF F!ApplyLoad
      <3>2. /\ x \in F!Folder /\ x # None /\ F!Payload(visible[x]) \in F!Frozen /\ F!Payload(visible[x]) # None
            /\ F!Payload(visible[x]).steps = F!Steps
        BY <3>1, LoadedIsWhole, FolderFacts DEF F!Visible
      <3>3. ~F!Attempting(c)
        BY <2>1 DEF F!ApplyLoad, F!Attempting
      <3>4. "check" \in F!ApplierPC
        BY DEF F!ApplierPC
      <3> QED
        BY <1>1, <3>1, <3>2, <3>3, <3>4 DEF ApplierFits
    <2>2. CASE F!ApplyCheck(c) \/ F!ApplyReread(c) \/ F!ApplyBoundary(c) \/ (F!ApplyPending(c) /\ visible[applier[c].folder] = None)
      <3>1. ~F!Attempting(c) /\ applier[c].folder # None /\ applier[c].payload # None
        BY <2>2, <1>1
           DEF F!ApplyCheck, F!ApplyReread, F!ApplyBoundary,
               F!ApplyPending, F!Attempting, ApplierFits
      <3>2. \/ F!ApplierGoes(c, "reread") \/ F!ApplierGoes(c, "boundary")
            \/ F!ApplierGoes(c, "pending") \/ F!ApplierGoes(c, "abandoned")
        BY <2>2
           DEF F!ApplyCheck, F!ApplyReread, F!ApplyBoundary,
               F!ApplyPending, F!ApplierGoes
      <3>3. {"reread", "boundary", "pending", "abandoned"} \subseteq F!ApplierPC
        BY DEF F!ApplierPC
      <3>4. PICK l \in F!ApplierPC : F!ApplierGoes(c, l)
        BY <3>2, <3>3
      <3> QED
        BY <3>1, <3>4, ApplierMoves
    <2>3. CASE F!KillApplier(c)
      <3>1. "killed" \in F!ApplierPC /\ F!ApplierGoes(c, "killed")
        BY <2>3 DEF F!ApplierPC, F!KillApplier
      <3> QED
        BY <3>1, ApplierMoves DEF F!Attempting
    <2> QED
      BY <2>1, <2>2, <2>3
  <1>4. TreeEffect
    BY <1>2, TreeSame
  <1>5. F!TypeOK' /\ F!FolderChosen' /\ F!NothingHalfWritten'
    BY <1>2, <1>3, ApplierTyped DEF F!TypeOK
  <1>6. \A o \in Applier : F!Attempting(o) => F!Attempting(o)' /\ UNCHANGED <<applier[o].folder, applier[o].env>>
    BY <1>3 DEF F!Attempting
  <1> QED
    BY <1>2, <1>4, <1>5, <1>6, RecordKept

\* The pending event is written, then the session starts.
LEMMA ApplierRecords ==
    ASSUME F!RecordInv, NEW c \in Applier, F!ApplyPending(c), visible[applier[c].folder] # None
    PROVE  F!RecordInv'
  <1> USE DEF F!RecordInv
  <1>1. PICK x : x = applier[c].folder
    OBVIOUS
  <1>2. PICK ev : ev = [by |-> c, env |-> applier[c].env]
    OBVIOUS
  <1>3. /\ ApplierFits(applier[c]) /\ applier[c].pc = "pending" /\ x \in F!Folder /\ applier[c].payload # None
        /\ applier[c].folder # None /\ applier[c].env \in F!Env
    BY <1>1, ApplierFacts DEF F!ApplyPending, ApplierFits
  <1>4. /\ visible[x] # None /\ visible' = [visible EXCEPT ![x].events = @ \cup {ev}]
        /\ session' = [session EXCEPT ![c] = "running"] /\ F!ApplierGoes(c, "running")
        /\ UNCHANGED <<archived, live, sent, author, archiver, withdrawn>>
    BY <1>1, <1>2 DEF F!ApplyPending
  <1>5. visible[x] \in F!Content /\ visible[x] \in F!Held(x)
    BY <1>3, <1>4, HeldFacts
  <1>6. PICK d : d = [visible[x] EXCEPT !.events = @ \cup {ev}]
    OBVIOUS
  <1>7. /\ d \in F!Content /\ d.events = visible[x].events \cup {ev} /\ d.checks = visible[x].checks
        /\ d.steps = visible[x].steps /\ d # None
    BY <1>2, <1>3, <1>5, <1>6, FolderFacts DEF F!Content
  <1>8. visible' = [visible EXCEPT ![x] = d] /\ visible' \in [F!Folder -> F!Content \cup {None}]
    BY <1>4, <1>6, <1>7 DEF F!TypeOK
  <1>9. F!Held(x)' = {d, archived[x]} \ {None} /\ \A y \in F!Folder \ {x} : F!Held(y)' = F!Held(y)
    BY <1>3, <1>4, <1>8 DEF F!Held, F!TypeOK
  <1>10. /\ DOMAIN applier' = Applier /\ \A o \in Applier \ {c} : applier'[o] = applier[o]
         /\ applier' = [o \in Applier |-> applier'[o]]
         /\ ApplierFits(applier'[c]) /\ applier'[c].pc = "running"
         /\ UNCHANGED <<applier[c].folder, applier[c].env>>
    <2>1. "running" \in F!ApplierPC
      BY DEF F!ApplierPC
    <2> QED
      BY <2>1, <1>1, <1>3, <1>4, ApplierMoves
  <1>11. F!TypeOK' /\ F!FolderChosen' /\ F!NothingHalfWritten'
    <2>1. session' \in [Applier -> {"none", "running", "committed", "failed"}]
      BY <1>4 DEF F!TypeOK
    <2> QED
      BY <2>1, <1>4, <1>8, <1>10, ApplierTyped DEF F!TypeOK
  <1>12. F!ChecksComeLast'
    BY <1>5, <1>7, <1>9 DEF F!ChecksComeLast, F!Held
  <1>13. \A y \in F!Folder : \A e : F!Known(y, e) => F!Known(y, e)'
    <2>1. \A e : F!Known(x, e) => F!Known(x, e)'
      BY <1>7, <1>9 DEF F!Known, F!Held
    <2> QED
      BY <2>1, <1>9 DEF F!Known
  <1>14. F!Known(x, applier[c].env)'
    <2>1. d \in F!Held(x)' /\ ev \in d.events /\ ev.env = applier[c].env /\ applier'[c].env = applier[c].env
      BY <1>2, <1>7, <1>9, <1>10
    <2> QED
      BY <2>1 DEF F!Known
  <1>15. F!EvidenceStays'
    BY <1>4, <1>13 DEF F!EvidenceStays
  <1>16. \A o \in Applier : F!Attempting(o) => F!Attempting(o)' /\ UNCHANGED <<applier[o].folder, applier[o].env>>
    BY <1>10 DEF F!Attempting
  <1>17. \A y \in F!Folder : \A e \in F!Held(y)' : \A v \in e.events :
            (\E b \in F!Held(y) : v \in b.events) \/ (y = x /\ v = ev)
    BY <1>7, <1>9, <1>5 DEF F!Held
  <1>18. \A y \in F!Folder : \A e \in F!Held(y)' : \A v \in e.events :
            applier'[v.by].folder = y /\ F!Attempting(v.by)'
    <2> SUFFICES ASSUME NEW y \in F!Folder, NEW e \in F!Held(y)', NEW v \in e.events
                 PROVE  applier'[v.by].folder = y /\ F!Attempting(v.by)'
      OBVIOUS
    <2>1. CASE \E b \in F!Held(y) : v \in b.events
      <3>1. PICK b \in F!Held(y) : v \in b.events
        BY <2>1
      <3>2. v.by \in Applier
        BY <3>1, HeldFacts DEF F!Content
      <3> QED
        BY <3>1, <3>2, <1>16 DEF F!AttemptsAreOnRecord
    <2>2. CASE y = x /\ v = ev
      BY <2>2, <1>1, <1>2, <1>10 DEF F!Attempting
    <2> QED
      BY <1>17, <2>1, <2>2
  <1>19. \A o \in Applier : session'[o] # "none" =>
            /\ F!Attempting(o)' /\ applier'[o].folder # None
            /\ applier'[o].folder \in withdrawn' \/ F!Known(applier[o].folder, applier[o].env)'
    <2> SUFFICES ASSUME NEW o \in Applier, session'[o] # "none"
                 PROVE  /\ F!Attempting(o)' /\ applier'[o].folder # None
                        /\ applier'[o].folder \in withdrawn' \/ F!Known(applier[o].folder, applier[o].env)'
      OBVIOUS
    <2>1. CASE o = c
      BY <2>1, <1>1, <1>3, <1>10, <1>14 DEF F!Attempting, F!Known
    <2>2. CASE o # c
      <3>1. session[o] # "none" /\ applier'[o] = applier[o]
        BY <2>2, <1>4, <1>10 DEF F!TypeOK
      <3>2. /\ F!Attempting(o) /\ applier[o].folder \in F!Folder /\ applier[o].folder # None
            /\ applier[o].folder \in withdrawn \/ F!Known(applier[o].folder, applier[o].env)
        BY <3>1 DEF F!AttemptsAreOnRecord, F!TypeOK
      <3>3. applier[o].folder \in withdrawn \/ F!Known(applier[o].folder, applier[o].env)'
        BY <3>1, <3>2, <1>13 DEF F!Known
      <3> QED
        BY <3>1, <3>2, <3>3, <1>4 DEF F!Attempting
    <2> QED
      BY <2>1, <2>2
  <1> QED
    BY <1>11, <1>12, <1>15, <1>18, <1>19 DEF F!AttemptsAreOnRecord

\* The session commits or fails, with its event on record.
LEMMA SessionStep ==
    ASSUME F!RecordInv, NEW c \in Applier, F!SessionCommits(c) \/ F!SessionFails(c)
    PROVE  F!RecordInv'
  <1> USE DEF F!RecordInv
  <1>1. PICK x : x = applier[c].folder
    OBVIOUS
  <1>2. /\ UNCHANGED <<visible, archived, withdrawn, author, archiver, applier>>
        /\ session[c] # "none" /\ \E end \in {"committed", "failed"} : session' = [session EXCEPT ![c] = end]
        /\ \/ live' = [live EXCEPT ![applier[c].env][x.family] = x.rev]
              /\ sent' = [sent EXCEPT ![x][applier[c].env] = TRUE]
           \/ UNCHANGED <<live, sent>>
    BY <1>1 DEF F!SessionCommits, F!SessionFails, F!tree
  <1>3. /\ x \in F!Folder /\ F!Attempting(c) /\ applier[c].env \in F!Env
        /\ x \in withdrawn \/ F!Known(x, applier[c].env)
    BY <1>1, <1>2 DEF F!AttemptsAreOnRecord, F!TypeOK
  <1>4. x.rev \in Nat
    BY <1>3, FolderFacts DEF F!Folder
  <1>5. /\ session' \in [Applier -> {"none", "running", "committed", "failed"}]
        /\ \A o \in Applier : session'[o] # "none" => session[o] # "none"
    BY <1>2 DEF F!TypeOK
  <1>6. live' \in [F!Env -> [Family -> Nat]] /\ sent' \in [F!Folder -> [F!Env -> BOOLEAN]]
    <2>1. live \in [F!Env -> [Family -> Nat]] /\ sent \in [F!Folder -> [F!Env -> BOOLEAN]]
      BY DEF F!TypeOK
    <2>2. CASE UNCHANGED <<live, sent>>
      BY <2>1, <2>2
    <2>3. CASE /\ live' = [live EXCEPT ![applier[c].env][x.family] = x.rev]
               /\ sent' = [sent EXCEPT ![x][applier[c].env] = TRUE]
      <3>1. PICK e \in F!Env : e = applier[c].env
        BY <1>3
      <3>2. live' \in [F!Env -> [Family -> Nat]]
        BY <2>1, <2>3, <3>1, <1>4
      <3>3. sent' \in [F!Folder -> [F!Env -> BOOLEAN]]
        BY <2>1, <2>3, <3>1
      <3> QED
        BY <3>2, <3>3
    <2> QED
      BY <1>2, <2>2, <2>3
  <1>7. ApplierFits(applier'[c]) /\ applier' = [o \in Applier |-> applier'[o]]
    BY <1>2, ApplierFacts DEF F!TypeOK
  <1>8. F!TypeOK' /\ F!FolderChosen' /\ F!NothingHalfWritten'
    BY <1>2, <1>5, <1>6, <1>7, ApplierTyped DEF F!TypeOK
  <1>9. F!AttemptsAreOnRecord' /\ F!ChecksComeLast'
    BY <1>2, <1>5
       DEF F!AttemptsAreOnRecord, F!ChecksComeLast, F!Held, F!Known,
           F!Attempting
  <1>10. \A y \in F!Folder, e \in F!Env : sent'[y][e] => sent[y][e] \/ (y = x /\ e = applier[c].env)
    BY <1>2, <1>3 DEF F!TypeOK
  <1>11. F!EvidenceStays'
    BY <1>2, <1>3, <1>10 DEF F!EvidenceStays, F!Known, F!Held
  <1> QED
    BY <1>8, <1>9, <1>11

\* The receipt
LEMMA ApplierFinishes ==
    ASSUME F!RecordInv, NEW c \in Applier, F!ApplyFinish(c)
    PROVE  F!RecordInv'
  <1> USE DEF F!RecordInv
  <1>1. PICK x : x = applier[c].folder
    OBVIOUS
  <1>2. PICK receipt : receipt = [env |-> applier[c].env, payload |-> applier[c].payload]
    OBVIOUS
  <1>3. /\ ApplierFits(applier[c]) /\ applier[c].pc = "running" /\ x \in F!Folder
        /\ receipt \in [env : F!Env, payload : F!Frozen]
    BY <1>1, <1>2, ApplierFacts DEF F!ApplyFinish, ApplierFits
  <1>4. UNCHANGED <<archived, withdrawn, live, sent, session, author, archiver>> /\ F!ApplierGoes(c, "over")
    BY DEF F!ApplyFinish, F!world
  <1>5. TreeEffect /\ visible' \in [F!Folder -> F!Content \cup {None}]
    <2>1. CASE UNCHANGED visible
      BY <2>1, <1>4, TreeSame DEF F!TypeOK
    <2>2. CASE ~UNCHANGED visible
      <3>1. F!Loads(x) /\ visible' = [visible EXCEPT ![x].receipts = @ \cup {receipt}]
        BY <2>2, <1>1, <1>2 DEF F!ApplyFinish, F!SourceIsFrozen
      <3>2. visible[x] \in F!Content /\ visible[x] # None /\ (visible[x].checks => visible[x].steps = F!Steps)
        BY <3>1, <1>3, HeldFacts DEF F!Loads, F!ChecksComeLast
      <3>3. PICK d : d = [visible[x] EXCEPT !.receipts = @ \cup {receipt}]
        OBVIOUS
      <3>4. /\ d \in F!Content /\ d.events = visible[x].events /\ d.checks = visible[x].checks
            /\ d.steps = visible[x].steps
        BY <1>3, <3>2, <3>3 DEF F!Content
      <3>5. visible' = [visible EXCEPT ![x] = d]
        BY <3>1, <3>3
      <3> QED
        BY <1>4, <3>2, <3>4, <3>5, TreeRewritten
    <2> QED
      BY <2>1, <2>2
  <1>6. /\ DOMAIN applier' = Applier /\ \A o \in Applier \ {c} : applier'[o] = applier[o]
        /\ applier' = [o \in Applier |-> applier'[o]]
        /\ ApplierFits(applier'[c]) /\ applier'[c].pc = "over"
        /\ UNCHANGED <<applier[c].folder, applier[c].env>>
    <2>1. "over" \in F!ApplierPC
      BY DEF F!ApplierPC
    <2> QED
      BY <2>1, <1>4, ApplierMoves
  <1>7. F!TypeOK' /\ F!FolderChosen' /\ F!NothingHalfWritten'
    BY <1>4, <1>5, <1>6, ApplierTyped DEF F!TypeOK
  <1>8. \A o \in Applier : F!Attempting(o) => F!Attempting(o)' /\ UNCHANGED <<applier[o].folder, applier[o].env>>
    BY <1>6 DEF F!Attempting
  <1> QED
    BY <1>4, <1>5, <1>7, <1>8, RecordKept

-----------------------------------------------------------------------------
(* Developers, and all steps *)

LEMMA DeveloperStep ==
    ASSUME F!RecordInv, F!Developer
    PROVE  F!RecordInv'
  <1> USE DEF F!RecordInv
  <1>1. UNCHANGED <<withdrawn, sent, session, author, archiver, applier>>
    BY DEF F!Developer, F!Edit, F!ChangeLive, F!Unarchive, F!world
  <1>2. /\ TreeEffect /\ visible' \in [F!Folder -> F!Content \cup {None}]
        /\ archived' \in [F!Folder -> F!Content \cup {None}] /\ live' \in [F!Env -> [Family -> Nat]]
    <2>1. ASSUME NEW x \in F!Folder, F!Edit(x)
          PROVE  /\ TreeEffect /\ visible' \in [F!Folder -> F!Content \cup {None}]
                 /\ UNCHANGED <<archived, live>>
      <3>1. /\ visible' = [visible EXCEPT ![x].text = 1, ![x].base = live["dev"][x.family]]
            /\ UNCHANGED <<archived, live>> /\ F!Loads(x)
        BY <2>1 DEF F!Edit, F!world
      <3>2. visible[x] \in F!Content /\ visible[x] # None /\ (visible[x].checks => visible[x].steps = F!Steps)
        BY <3>1, HeldFacts DEF F!Loads, F!ChecksComeLast
      <3>3. PICK d : d = [visible[x] EXCEPT !.text = 1, !.base = live["dev"][x.family]]
        OBVIOUS
      <3>4. live["dev"][x.family] \in Nat
        BY DEF F!TypeOK, F!Env, F!Folder
      <3>5. /\ d \in F!Content /\ d.events = visible[x].events /\ d.checks = visible[x].checks
            /\ d.steps = visible[x].steps
        BY <3>2, <3>3, <3>4 DEF F!Content
      <3>6. visible' = [visible EXCEPT ![x] = d]
        BY <3>1, <3>3 DEF F!TypeOK
      <3>7. UNCHANGED <<archived, withdrawn>>
        BY <1>1, <3>1
      <3>8. TreeEffect /\ visible' \in [F!Folder -> F!Content \cup {None}]
        BY <3>2, <3>5, <3>6, <3>7, TreeRewritten
      <3> QED
        BY <3>1, <3>8
    <2>2. ASSUME NEW x \in F!Folder, F!Unarchive(x)
          PROVE  /\ TreeEffect /\ visible' \in [F!Folder -> F!Content \cup {None}]
                 /\ archived' \in [F!Folder -> F!Content \cup {None}] /\ UNCHANGED live
      <3>1. F!ToTree({x}) /\ archived[x] # None /\ visible[x] = None /\ UNCHANGED live
        BY <2>2 DEF F!Unarchive, F!ToTree, F!TypeOK, F!world
      <3> QED
        BY <1>1, <3>1, TreeMoved
    <2>3. ASSUME NEW e \in F!Env, NEW f \in Family, F!ChangeLive(e, f)
          PROVE  live' \in [F!Env -> [Family -> Nat]] /\ UNCHANGED <<visible, archived>>
      BY <2>3, FolderFacts DEF F!ChangeLive, F!TypeOK, F!Mate, F!tree
    <2> QED
      BY <1>1, <2>1, <2>2, <2>3, TreeSame DEF F!Developer, F!TypeOK
  <1>3. F!TypeOK' /\ F!FolderChosen' /\ F!NothingHalfWritten'
    BY <1>1, <1>2 DEF F!TypeOK, F!FolderChosen, F!NothingHalfWritten
  <1>4. F!AttemptsAreOnRecord' /\ F!EvidenceStays' /\ F!ChecksComeLast'
    BY <1>1, <1>2, RecordKept DEF F!Attempting
  <1> QED
    BY <1>3, <1>4

LEMMA RecordInit == ASSUME F!Init PROVE F!RecordInv
  <1> DEFINE d == [F!Empty EXCEPT !.steps = F!Steps, !.checks = TRUE]
  <1>0. d \in F!Content /\ d.events = {} /\ d.steps = F!Steps
    <2>1. 0 \in 0 .. F!Steps /\ F!Steps \in 0 .. F!Steps
      BY DEF F!Steps
    <2> QED
      BY <2>1 DEF F!Empty, F!Content
  <1>1. /\ \A x \in F!Folder : visible[x] \in {d, None} /\ archived[x] = None
        /\ visible \in [F!Folder -> {d, None}] /\ archived \in [F!Folder -> {None}]
    <2>1. PICK found : visible = [x \in F!Folder |-> IF x \in found THEN d ELSE None]
      BY DEF F!Init
    <2> HIDE DEF d
    <2> QED
      BY <2>1 DEF F!Init
  <1> HIDE DEF d
  <1>2. \A x \in F!Folder : \A c \in F!Held(x) : c.events = {} /\ c.steps = F!Steps
    BY <1>0, <1>1 DEF F!Held
  <1>3. /\ \A a \in Author : author[a] = F!Idle("idle") \/ author[a] = F!Idle("over")
        /\ DOMAIN author = Author
    <2>1. PICK cast : author = [a \in Author |-> F!Idle(IF a \in cast THEN "idle" ELSE "over")]
      BY DEF F!Init
    <2> QED
      BY <2>1
  <1>4. /\ \A c \in Applier : /\ applier[c].pc \in {"idle", "over"}
              /\ applier[c] = [pc |-> applier[c].pc, folder |-> None, env |-> "dev", payload |-> None]
        /\ applier = [c \in Applier |-> applier[c]]
    <2>1. PICK cast : applier = [c \in Applier |->
            [pc |-> IF c \in cast THEN "idle" ELSE "over", folder |-> None, env |-> "dev", payload |-> None]]
      BY DEF F!Init
    <2> QED
      BY <2>1
  <1>5. /\ DOMAIN archiver = Archiver
        /\ \A k \in Archiver : {"pc", "payloads"} \subseteq DOMAIN archiver[k] /\ archiver[k].payloads = {}
    BY DEF F!Init
  <1>6. F!TypeOK
    <2>1. \A a \in Author :
            /\ DOMAIN author[a] = {"pc", "folder", "base", "archived", "copy"}
            /\ author[a].folder = None /\ author[a].base = 0 /\ author[a].copy = None
      BY <1>3 DEF F!Idle
    <2>2. applier \in [Applier -> [pc : F!ApplierPC, folder : F!Folder \cup {None}, env : F!Env,
                                   payload : F!Frozen \cup {None}]]
      <3>1. {"idle", "over"} \subseteq F!ApplierPC
        BY DEF F!ApplierPC
      <3> QED
        BY <1>4, <3>1 DEF F!Env
    <2> QED
      BY <1>0, <1>1, <1>3, <1>5, <2>1, <2>2 DEF F!Init, F!TypeOK
  <1>7. F!FolderChosen /\ F!NothingHalfWritten
    BY <1>3, <1>4, <1>5 DEF F!FolderChosen, F!NothingHalfWritten, F!Idle
  <1>8. F!AttemptsAreOnRecord /\ F!EvidenceStays /\ F!ChecksComeLast
    BY <1>2
       DEF F!Init, F!AttemptsAreOnRecord, F!EvidenceStays,
           F!ChecksComeLast
  <1> QED
    BY <1>6, <1>7, <1>8 DEF F!RecordInv

LEMMA RecordStep == ASSUME F!RecordInv, F!Next PROVE F!RecordInv'
  <1>1. ASSUME NEW a \in Author, F!AuthorSteps(a) \/ F!KillAuthor(a)
        PROVE  F!RecordInv'
    BY <1>1, AuthorLooks, AuthorWrites DEF F!AuthorSteps
  <1>2. ASSUME NEW c \in Applier, F!ApplierSteps(c) \/ F!KillApplier(c)
        PROVE  F!RecordInv'
    BY <1>2, ApplierLooks, ApplierRecords, SessionStep, ApplierFinishes DEF F!ApplierSteps
  <1> QED
    BY <1>1, <1>2, ArchiverStep, DeveloperStep DEF F!Next, F!Kill

\* The strengthened invariant holds in every behaviour about migration folders.
FoldersInv == part = "folders" => F!RecordInv

LEMMA FoldersInvHolds == Spec => []FoldersInv
  <1>1. Init => FoldersInv
    BY RecordInit DEF Init, InitMirror, InitFolders, InitTemplate, FoldersInv
  <1>2. FoldersInv /\ [Next]_vars => FoldersInv'
    <2> SUFFICES ASSUME FoldersInv, [Next]_vars PROVE FoldersInv'
      OBVIOUS
    <2>1. CASE StepFolders
      BY <2>1, RecordStep DEF StepFolders, FoldersInv
    <2>2. CASE StepMirror \/ StepTemplate
      BY <2>2 DEF StepMirror, StepTemplate, FoldersInv
    <2>3. CASE UNCHANGED vars
      <3>1. UNCHANGED <<part, visible, archived, live, sent, author, archiver, applier, session, withdrawn>>
        BY <2>3 DEF vars
      <3>2. F!RecordInv => F!RecordInv'
        BY <3>1
           DEF F!RecordInv, F!TypeOK, F!FolderChosen,
               F!AttemptsAreOnRecord, F!EvidenceStays, F!ChecksComeLast,
               F!NothingHalfWritten, F!Held, F!Known, F!Attempting
      <3> QED
        BY <3>1, <3>2 DEF FoldersInv
    <2> QED
      BY <2>1, <2>2, <2>3 DEF Next
  <1> QED
    BY <1>1, <1>2, PTL DEF Spec

\* What a database may have run is on record in the folder, in the tree or in
\* the archive, whatever commands run side by side, fail or are killed, unless
\* new-migration took the folder back from the migrate that had loaded it.
THEOREM AttemptsOnRecord == Spec => []EvidenceStays
  <1>1. FoldersInv => EvidenceStays
    BY DEF FoldersInv, F!RecordInv, EvidenceStays
  <1> QED
    BY <1>1, FoldersInvHolds, PTL

\* No migrate, revise or archive takes a folder for finished that is not.
THEOREM OnlyWholeFolders == Spec => [](part = "folders" => F!NothingHalfWritten)
  <1>1. FoldersInv => (part = "folders" => F!NothingHalfWritten)
    BY DEF FoldersInv, F!RecordInv
  <1> QED
    BY <1>1, FoldersInvHolds, PTL

-----------------------------------------------------------------------------
(* Migration folders: archives and indexes agree, when one author and one    *)
(* archive work at a time                                                    *)

\* A step after which the same folders are in the tree and in the archive.
SamePresence ==
    \A x \in F!Folder : (visible'[x] = None <=> visible[x] = None) /\ (archived'[x] = None <=> archived[x] = None)

LEMMA SameFolders ==
    ASSUME SamePresence, NEW f
    PROVE  F!Of(f)' = F!Of(f) /\ F!Here(f)' = F!Here(f) /\ F!There(f)' = F!There(f)
    BY DEF SamePresence, F!Of, F!Here, F!There

LEMMA OfAll ==
    ASSUME NEW f
    PROVE  /\ F!Of(f) = F!Here(f) \cup F!There(f)
           /\ \A x \in F!Of(f) : x \in F!Folder /\ x.family = f
           /\ \A x \in F!Folder : x.family = f =>
                 (x \in F!Here(f) <=> visible[x] # None) /\ (x \in F!There(f) <=> archived[x] # None)
    BY DEF F!Of, F!Here, F!There

\* An author that acts is alone, and the folder it makes is the only draft.
LEMMA SoleAuthor ==
    ASSUME F!Alone, NEW a \in Author, author[a].pc # "over"
    PROVE  /\ \A b \in Author \ {a} : author[b].pc = "over"
           /\ F!Drafts = IF author[a].pc \in {"write", "load"} THEN {author[a].folder} ELSE {}
    BY DEF F!Alone, F!Drafts

LEMMA SoleAuthorNext ==
    ASSUME F!Alone, NEW a \in Author, author[a].pc # "over",
           \A b \in Author \ {a} : author'[b] = author[b]
    PROVE  /\ \A b \in Author \ {a} : author'[b].pc = "over"
           /\ F!Drafts' = IF author'[a].pc \in {"write", "load"} THEN {author'[a].folder} ELSE {}
           /\ UNCHANGED archiver => F!Alone'
    BY DEF F!Alone, F!Drafts

\* So is an archive.
LEMMA SoleArchiver ==
    ASSUME F!Alone, NEW k \in Archiver, archiver[k].pc # "over"
    PROVE  /\ \A l \in Archiver \ {k} : archiver[l].pc = "over"
           /\ \A f : F!PlansOf(f) = {x \in archiver[k].plan : x.family = f}
           /\ \A pcs : "over" \notin pcs => F!At(pcs) = IF archiver[k].pc \in pcs THEN {k} ELSE {}
    BY DEF F!Alone, F!PlansOf, F!At

LEMMA SoleArchiverNext ==
    ASSUME F!Alone, NEW k \in Archiver, archiver[k].pc # "over",
           \A l \in Archiver \ {k} : archiver'[l] = archiver[l]
    PROVE  /\ \A f : F!PlansOf(f)' = {x \in archiver'[k].plan : x.family = f /\ archiver'[k].pc # "over"}
           /\ \A pcs : "over" \notin pcs => F!At(pcs)' = IF archiver'[k].pc \in pcs THEN {k} ELSE {}
           /\ UNCHANGED author => F!Alone'
  <1>1. \A l \in Archiver \ {k} : archiver'[l].pc = "over"
    BY DEF F!Alone
  <1> QED
    BY <1>1 DEF F!Alone, F!PlansOf, F!At

LEMMA NotMoving == "over" \notin F!Moving /\ "idle" \notin F!Moving /\ "check" \notin F!Moving
    BY DEF F!Moving

\* All of the account but the authors' part of it.
Books ==
    /\ \A f \in Family \ raced : F!Numbered(f) /\ F!DraftAlone(f)
    /\ F!At(F!Moving) = {} => \A f \in Family \ raced : F!InOrder(f)
    /\ \A k \in F!At({"check"}) : F!PlanIsLow(k)
    /\ \A k \in F!At(F!Moving) :
          F!Indexes(k) /\ \A f \in Family \ raced : F!Sorted(k, f) /\ F!Extent(k, f)

LEMMA AccountIs == F!Accounted <=> F!BaseStays /\ Books
    BY DEF F!Accounted, Books

\* Steps on the content of folders alone leave the books.
LEMMA BooksKept ==
    ASSUME Books, SamePresence, UNCHANGED <<index, archiver>>, raced \subseteq raced', F!Drafts' = F!Drafts
    PROVE  Books'
  <1>1. \A f : F!Of(f)' = F!Of(f) /\ F!Here(f)' = F!Here(f) /\ F!There(f)' = F!There(f)
    BY SameFolders
  <1>2. \A pcs : F!At(pcs)' = F!At(pcs)
    BY DEF F!At
  <1>3. \A f : F!PlansOf(f)' = F!PlansOf(f)
    BY DEF F!PlansOf
  <1>4. \A f : F!Settled(f)' = F!Settled(f)
    BY <1>1 DEF F!Settled
  <1>5. ASSUME NEW f PROVE (F!Numbered(f) => F!Numbered(f)') /\ (F!DraftAlone(f) => F!DraftAlone(f)')
                           /\ (F!InOrder(f) => F!InOrder(f)')
    BY <1>1, <1>3, <1>4 DEF F!Numbered, F!DraftAlone, F!InOrder
  <1>6. ASSUME NEW k PROVE (F!PlanIsLow(k) => F!PlanIsLow(k)') /\ (F!Indexes(k) => F!Indexes(k)')
    BY DEF F!PlanIsLow, F!Indexes, F!Planned, F!Schemas
  <1>7. ASSUME NEW k, NEW f PROVE (F!Sorted(k, f) => F!Sorted(k, f)') /\ (F!Extent(k, f) => F!Extent(k, f)')
    BY <1>1 DEF F!Sorted, F!Extent, F!Schemas
  <1> QED
    BY <1>2, <1>5, <1>6, <1>7, Zenon DEF Books

\* An author that acts.
LEMMA AuthorActs ==
    ASSUME F!RecordInv, NEW a \in Author
    PROVE  /\ \A l : F!AuthorGoes(a, l) =>
                 author'[a].pc = l /\ author'[a].folder = author[a].folder /\ \A b \in Author \ {a} : author'[b] = author[b]
           /\ F!AuthorEnds(a) => author'[a].pc = "over" /\ \A b \in Author \ {a} : author'[b] = author[b]
           /\ author[a].pc \notin {"idle", "over", "killed"} => author[a].folder \in F!Folder
           /\ \A x \in F!Folder : visible[x] # None => visible[x] \in F!Content
    BY DEF F!RecordInv, F!TypeOK, F!FolderChosen, F!AuthorGoes,
           F!AuthorEnds, F!Idle

LEMMA TypesKept ==
    ASSUME F!RestTypes, UNCHANGED <<index, archiver>>, NEW a \in Author,
           \A b \in Author \ {a} : author'[b] = author[b],
           author'[a].pc \in {"read", "make", "write", "load"} => author'[a].folder.rev = 1
    PROVE  F!RestTypes'
  <1>1. \A b \in Author : author'[b].pc \in {"read", "make", "write", "load"} => author'[b].folder.rev = 1
    BY DEF F!RestTypes
  <1>2. \A k : F!Schemas(k)' = F!Schemas(k)
    BY DEF F!Schemas
  <1> QED
    BY <1>1, <1>2, Zenon DEF F!RestTypes

\* A step of an author that makes, removes and finishes no folder.
LEMMA AuthorQuiet ==
    ASSUME F!RestInv, NEW a \in Author, author[a].pc \notin {"over", "killed"},
           SamePresence, UNCHANGED <<index, archiver>>, raced \subseteq raced',
           \A b \in Author \ {a} : author'[b] = author[b],
           author'[a].pc \in {"read", "make", "write", "load"} => author'[a].folder.rev = 1,
           author[a].pc \in {"write", "load"} <=> author'[a].pc \in {"write", "load"},
           author[a].pc \in {"write", "load"} => author'[a].folder = author[a].folder,
           F!BaseStays /\ author'[a].pc \in {"list", "copy", "install"} /\ author'[a].folder.family \notin raced =>
               author'[a].folder \in F!Of(author'[a].folder.family)
    PROVE  F!RestInv'
  <1>1. F!RestTypes'
    BY TypesKept DEF F!RestInv
  <1>2. F!Alone' /\ (\A b \in Author \ {a} : author'[b].pc = "over") /\ F!Drafts' = F!Drafts
    <2>1. F!Alone /\ author[a].pc # "over" /\ UNCHANGED archiver
      BY DEF F!RestInv
    <2>2. F!Drafts = IF author[a].pc \in {"write", "load"} THEN {author[a].folder} ELSE {}
      BY <2>1, SoleAuthor
    <2>3. /\ \A b \in Author \ {a} : author'[b].pc = "over"
          /\ F!Drafts' = IF author'[a].pc \in {"write", "load"} THEN {author'[a].folder} ELSE {}
          /\ UNCHANGED archiver => F!Alone'
      BY <2>1, SoleAuthorNext
    <2> QED
      BY <2>1, <2>2, <2>3
  <1>3. ASSUME ~F!Broken' PROVE F!Accounted'
    <2>1. ~F!Broken
      BY <1>3 DEF F!Broken
    <2>2. F!BaseStays /\ Books
      BY <2>1, AccountIs DEF F!RestInv
    <2>3. Books'
      BY <1>2, <2>2, BooksKept
    <2>4. F!BaseStays'
      <3>1. \A f : F!Of(f)' = F!Of(f)
        BY SameFolders
      <3>2. F!At(F!Moving)' = F!At(F!Moving)
        BY DEF F!At
      <3>3. \A k \in F!At(F!Moving) : \A x \in archiver[k].plan : x.family \notin raced' => x \in F!Of(x.family)
        BY <2>2 DEF F!BaseStays
      <3> QED
        BY <1>2, <2>2, <3>1, <3>2, <3>3 DEF F!BaseStays
    <2> QED
      BY <2>3, <2>4 DEF F!Accounted, Books
  <1> QED
    BY <1>1, <1>2, <1>3 DEF F!RestInv

LEMMA AuthorLooksOnly ==
    ASSUME F!RecordInv, F!RestInv, NEW a \in Author,
           \/ F!CheckName(a) \/ F!ReadSource(a) \/ F!ReadIndex(a) \/ F!ListFamily(a)
           \/ F!CopyFiles(a) \/ F!WriteFile(a)
    PROVE  F!RestInv'
  <1> USE AuthorActs DEF SamePresence
  <1>0. /\ author[a].pc \in {"read", "make", "write", "load"} => author[a].folder.rev = 1
        /\ F!BaseStays /\ author[a].pc \in {"list", "copy", "install"} /\ author[a].folder.family \notin raced =>
               author[a].folder \in F!Of(author[a].folder.family)
    BY DEF F!RestInv, F!RestTypes, F!BaseStays
  <1>1. CASE F!CheckName(a)
    <2>1. author'[a].pc = "read" /\ author'[a].folder.rev = 1 /\ \A b \in Author \ {a} : author'[b] = author[b]
      BY <1>1 DEF F!CheckName, F!Idle, F!RecordInv, F!TypeOK
    <2> QED
      BY <1>1, <2>1, AuthorQuiet DEF F!CheckName, F!tree
  <1>2. CASE F!ReadSource(a)
    <2>1. /\ author'[a].pc \in {"make", "over"} /\ \A b \in Author \ {a} : author'[b] = author[b]
          /\ author'[a].pc = "make" => author'[a].folder = author[a].folder
      BY <1>2 DEF F!ReadSource, F!RecordInv, F!TypeOK
    <2> QED
      BY <1>0, <1>2, <2>1, AuthorQuiet DEF F!ReadSource, F!tree
  <1>3. CASE F!ReadIndex(a)
    <2>1. /\ author'[a].pc = "list" /\ \A b \in Author \ {a} : author'[b] = author[b]
          /\ author'[a].folder \in F!Visible
      <3>1. PICK x \in F!Visible : author' = [author EXCEPT ![a] =
              [F!Idle("list") EXCEPT !.folder = x, !.archived = F!ArchivedRevisions(x.family)]]
        BY <1>3 DEF F!ReadIndex
      <3> QED
        BY <3>1 DEF F!Idle, F!RecordInv, F!TypeOK
    <2>2. author'[a].folder \in F!Of(author'[a].folder.family)
      BY <2>1 DEF F!Visible, F!Of
    <2> QED
      BY <1>3, <2>1, <2>2, AuthorQuiet DEF F!ReadIndex, F!tree
  <1>4. CASE F!ListFamily(a)
    <2>1. /\ author'[a].pc \in {"copy", "over"} /\ \A b \in Author \ {a} : author'[b] = author[b]
          /\ author'[a].pc = "copy" => author'[a].folder = author[a].folder
      BY <1>4 DEF F!ListFamily
    <2> QED
      BY <1>0, <1>4, <2>1, AuthorQuiet DEF F!ListFamily, F!tree
  <1>5. CASE F!CopyFiles(a)
    <2>1. /\ author'[a].pc \in {"install", "over"} /\ \A b \in Author \ {a} : author'[b] = author[b]
          /\ author'[a].pc = "install" => author'[a].folder = author[a].folder
      BY <1>5 DEF F!CopyFiles, F!RecordInv, F!TypeOK
    <2> QED
      BY <1>0, <1>5, <2>1, AuthorQuiet DEF F!CopyFiles, F!tree
  <1>6. CASE F!WriteFile(a)
    <2>1. PICK x : x = author[a].folder
      OBVIOUS
    <2>2. x \in F!Folder /\ visible[x] # None /\ visible[x] \in F!Content
      BY <1>6, <2>1 DEF F!WriteFile
    <2>3. F!NextFile(visible[x]) # None
      <3>1. F!NextFile(visible[x]) \in F!Content
        <4>1. PICK d : d = visible[x]
          OBVIOUS
        <4>2. d.steps < F!Steps => d.steps + 1 \in 0 .. F!Steps
          BY <2>2, <4>1 DEF F!Content, F!Steps
        <4> QED
          BY <2>2, <4>1, <4>2 DEF F!NextFile, F!Content
      <3> QED
        BY <3>1, FolderFacts
    <2>4. visible' = [visible EXCEPT ![x] = F!NextFile(visible[x])] /\ UNCHANGED archived
      BY <1>6, <2>1 DEF F!WriteFile
    <2>5. SamePresence
      BY <2>2, <2>3, <2>4 DEF F!RecordInv, F!TypeOK
    <2>6. /\ author'[a].pc \in {"write", "load"} /\ \A b \in Author \ {a} : author'[b] = author[b]
          /\ author'[a].folder = author[a].folder /\ author[a].pc = "write"
      BY <1>6 DEF F!WriteFile
    <2> QED
      BY <1>0, <1>6, <2>5, <2>6, AuthorQuiet DEF F!WriteFile
  <1> QED
    BY <1>1, <1>2, <1>3, <1>4, <1>5, <1>6

LEMMA AuthorKilled ==
    ASSUME F!RecordInv, F!RestInv, NEW a \in Author, F!KillAuthor(a)
    PROVE  F!RestInv'
  <1>1. author'[a].pc = "killed" /\ author[a].pc # "over" /\ \A b \in Author \ {a} : author'[b] = author[b]
    BY AuthorActs DEF F!KillAuthor
  <1>2. F!Broken'
    BY <1>1 DEF F!Broken
  <1>3. F!Alone'
    BY <1>1, SoleAuthorNext DEF F!RestInv, F!KillAuthor
  <1>4. F!RestTypes'
    BY <1>1, TypesKept DEF F!RestInv, F!KillAuthor, F!tree
  <1> QED
    BY <1>2, <1>3, <1>4 DEF F!RestInv

\* A step that only rewrites what is in folders, or touches none.
LEMMA RewritesOnly ==
    ASSUME F!RestInv, SamePresence, UNCHANGED <<index, author, archiver, raced>>
    PROVE  F!RestInv'
  <1>1. \A k : F!Schemas(k)' = F!Schemas(k)
    BY DEF F!Schemas
  <1>2. F!RestTypes'
    BY <1>1, Zenon DEF F!RestTypes, F!RestInv
  <1>3. F!Alone' /\ F!Drafts' = F!Drafts /\ (F!Broken' <=> F!Broken)
    BY DEF F!Alone, F!Drafts, F!Broken, F!RestInv
  <1>4. ASSUME ~F!Broken PROVE F!Accounted'
    <2>1. F!BaseStays /\ Books
      BY <1>4, AccountIs DEF F!RestInv
    <2>2. Books'
      BY <1>3, <2>1, BooksKept
    <2>3. F!BaseStays'
      <3>1. \A f : F!Of(f)' = F!Of(f)
        BY SameFolders
      <3>2. F!At(F!Moving)' = F!At(F!Moving)
        BY DEF F!At
      <3> QED
        BY <2>1, <3>1, <3>2 DEF F!BaseStays
    <2> QED
      BY <2>2, <2>3 DEF F!Accounted, Books
  <1> QED
    BY <1>2, <1>3, <1>4 DEF F!RestInv

\* The content of one folder that is there is replaced.
LEMMA Rewritten ==
    ASSUME F!RecordInv, NEW x, visible[x] # None, NEW d, x \in F!Folder => d \in F!Content,
           visible' = [visible EXCEPT ![x] = d], UNCHANGED archived
    PROVE  SamePresence
    BY FolderFacts DEF SamePresence, F!RecordInv, F!TypeOK

LEMMA WorldStep ==
    ASSUME F!RecordInv, F!RestInv,
           \/ \E x \in F!Folder : F!Edit(x)
           \/ \E e \in F!Env, f \in Family : F!ChangeLive(e, f)
           \/ \E c \in Applier : F!ApplierSteps(c) \/ F!KillApplier(c)
    PROVE  F!RestInv'
  <1>1. UNCHANGED <<archived, index, author, archiver, raced>>
    BY DEF F!Edit, F!ChangeLive, F!ApplierSteps, F!KillApplier,
           F!ApplyLoad, F!ApplyCheck, F!ApplyReread, F!ApplyBoundary, F!ApplyPending,
           F!SessionCommits, F!SessionFails, F!ApplyFinish, F!tree
  <1>2. SamePresence
    <2>1. CASE UNCHANGED visible
      BY <1>1, <2>1 DEF SamePresence
    <2>2. ASSUME NEW x \in F!Folder, F!Edit(x)
          PROVE  SamePresence
      <3>1. PICK d : d = [visible[x] EXCEPT !.text = 1, !.base = live["dev"][x.family]]
        OBVIOUS
      <3>2. visible[x] # None /\ visible[x] \in F!Content
        BY <2>2, HeldFacts DEF F!Edit, F!Loads, F!RecordInv
      <3>3. live["dev"][x.family] \in Nat
        BY DEF F!RecordInv, F!TypeOK, F!Env, F!Folder
      <3>4. d \in F!Content
        BY <3>1, <3>2, <3>3 DEF F!Content
      <3>5. visible' = [visible EXCEPT ![x] = d]
        BY <2>2, <3>1 DEF F!Edit, F!RecordInv, F!TypeOK
      <3> QED
        BY <1>1, <3>2, <3>4, <3>5, Rewritten
    <2>3. ASSUME NEW c \in Applier, F!ApplyPending(c), ~UNCHANGED visible
          PROVE  SamePresence
      <3>1. PICK x : x = applier[c].folder
        OBVIOUS
      <3>2. PICK ev : ev = [by |-> c, env |-> applier[c].env]
        OBVIOUS
      <3>3. PICK d : d = [visible[x] EXCEPT !.events = @ \cup {ev}]
        OBVIOUS
      <3>4. visible[x] # None /\ visible' = [visible EXCEPT ![x] = d]
        BY <2>3, <3>1, <3>2, <3>3 DEF F!ApplyPending, F!RecordInv, F!TypeOK
      <3>5. ev \in [by : Applier, env : F!Env]
        BY <3>2 DEF F!RecordInv, F!TypeOK
      <3>6. x \in F!Folder => d \in F!Content
        <4>1. x \in F!Folder => visible[x] \in F!Content
          BY <3>4, HeldFacts DEF F!RecordInv
        <4> QED
          BY <4>1, <3>3, <3>5 DEF F!Content
      <3> QED
        BY <1>1, <3>4, <3>6, Rewritten
    <2>4. ASSUME NEW c \in Applier, F!ApplyFinish(c), ~UNCHANGED visible
          PROVE  SamePresence
      <3>1. PICK x : x = applier[c].folder
        OBVIOUS
      <3>2. PICK receipt : receipt = [env |-> applier[c].env, payload |-> applier[c].payload]
        OBVIOUS
      <3>3. PICK d : d = [visible[x] EXCEPT !.receipts = @ \cup {receipt}]
        OBVIOUS
      <3>4. /\ visible[x] # None /\ visible' = [visible EXCEPT ![x] = d] /\ applier[c].pc = "running"
        BY <2>4, <3>1, <3>2, <3>3
           DEF F!ApplyFinish, F!SourceIsFrozen, F!Loads, F!RecordInv, F!TypeOK
      <3>5. receipt \in [env : F!Env, payload : F!Frozen]
        BY <3>2, <3>4 DEF F!RecordInv, F!TypeOK, F!FolderChosen
      <3>6. x \in F!Folder => d \in F!Content
        <4>1. x \in F!Folder => visible[x] \in F!Content
          BY <3>4, HeldFacts DEF F!RecordInv
        <4> QED
          BY <4>1, <3>3, <3>5 DEF F!Content
      <3> QED
        BY <1>1, <3>4, <3>6, Rewritten
    <2>5. CASE \/ \E e \in F!Env, f \in Family : F!ChangeLive(e, f)
               \/ \E c \in Applier : \/ F!ApplyLoad(c) \/ F!ApplyCheck(c) \/ F!ApplyReread(c)
                                     \/ F!ApplyBoundary(c) \/ F!SessionCommits(c) \/ F!SessionFails(c)
                                     \/ F!KillApplier(c)
      <3>1. UNCHANGED visible
        BY <2>5 DEF F!ChangeLive, F!KillApplier, F!ApplyLoad, F!ApplyCheck, F!ApplyReread,
             F!ApplyBoundary, F!SessionCommits, F!SessionFails, F!tree
      <3> QED
        BY <2>1, <3>1
    <2> QED
      BY <2>1, <2>2, <2>3, <2>4, <2>5 DEF F!ApplierSteps
  <1> QED
    BY <1>1, <1>2, RewritesOnly

\* A step on the folders of the tree that leaves the archive alone: the books
\* stay in order as long as new folders are younger than what is archived or
\* about to be.
LEMMA BooksGrow ==
    ASSUME Books, UNCHANGED <<archived, index, archiver>>, raced \subseteq raced',
           \A f \in Family \ raced' :
               /\ F!Numbered(f)' /\ F!DraftAlone(f)'
               /\ \A y \in F!Here(f)' \ F!Here(f) :
                     /\ \A z \in F!There(f) : z.rev < y.rev
                     /\ \A k \in F!At(F!Moving) : \A z \in archiver[k].plan : z.family = f => z.rev < y.rev
    PROVE  Books'
  <1>1. \A f : /\ F!There(f)' = F!There(f)
               /\ F!Of(f) = F!Here(f) \cup F!There(f)
               /\ F!Of(f)' = F!Here(f)' \cup F!There(f)'
    BY DEF F!There, F!Of, F!Here
  <1>2. \A pcs : F!At(pcs)' = F!At(pcs)
    BY DEF F!At
  <1>3. ASSUME NEW f \in Family \ raced', F!InOrder(f) PROVE F!InOrder(f)'
    BY <1>1, <1>3 DEF F!InOrder
  <1>4. ASSUME NEW k PROVE (F!PlanIsLow(k) => F!PlanIsLow(k)') /\ (F!Indexes(k) => F!Indexes(k)')
    BY DEF F!PlanIsLow, F!Indexes, F!Planned, F!Schemas
  <1>5. ASSUME NEW k \in F!At(F!Moving), NEW f \in Family \ raced', F!Sorted(k, f)
        PROVE  F!Sorted(k, f)'
    <2>1. \A x \in F!Folder \ archiver[k].plan : x.family = f =>
            (x \in F!There(f)' <=> F!Recorded(x, IF SchemaOf[f] \in F!Schemas(k)' THEN archiver[k].original[SchemaOf[f]] ELSE index[SchemaOf[f]]))
      BY <1>1, <1>5 DEF F!Sorted, F!Schemas
    <2>2. \A x \in F!There(f)' \ archiver[k].plan, y \in F!Of(f)' : y \in F!There(f)' \ archiver[k].plan \/ x.rev < y.rev
      BY <1>1, <1>5 DEF F!Sorted
    <2>3. \A x \in archiver[k].plan, y \in F!Here(f)' \ archiver[k].plan : x.family = f => x.rev < y.rev
      BY <1>1, <1>5 DEF F!Sorted
    <2> QED
      BY <1>5, <2>1, <2>2, <2>3 DEF F!Sorted
  <1>6. ASSUME NEW k, NEW f, F!Extent(k, f) PROVE F!Extent(k, f)'
    BY <1>1, <1>6 DEF F!Extent, F!Schemas
  <1> QED
    BY <1>2, <1>3, <1>4, <1>5, <1>6, Zenon DEF Books

\* What a step of an author has to show.
LEMMA AuthorKeeps ==
    ASSUME F!RestInv, NEW a \in Author, author[a].pc \notin {"over", "killed"},
           UNCHANGED <<archived, index, archiver>>, raced \subseteq raced',
           \A b \in Author \ {a} : author'[b] = author[b],
           author'[a].pc \in {"read", "make", "write", "load"} => author'[a].folder.rev = 1,
           ~F!Broken => Books' /\ F!BaseStays'
    PROVE  F!RestInv'
  <1>1. F!RestTypes'
    BY TypesKept DEF F!RestInv
  <1>2. F!Alone'
    <2>1. F!Alone /\ author[a].pc # "over" /\ UNCHANGED archiver
      BY DEF F!RestInv
    <2> QED
      BY <2>1, SoleAuthorNext
  <1>3. F!Broken => F!Broken'
    BY DEF F!Broken
  <1> QED
    BY <1>1, <1>2, <1>3 DEF F!RestInv, F!Accounted, Books

LEMMA AuthorMakes ==
    ASSUME F!RecordInv, F!RestInv, NEW a \in Author, F!MakeFolder(a)
    PROVE  F!RestInv'
  <1>1. PICK x : x = author[a].folder
    OBVIOUS
  <1>2. author[a].pc = "make" /\ x \in F!Folder /\ x.rev = 1 /\ UNCHANGED <<archived, index, archiver>>
    BY <1>1, AuthorFacts DEF F!MakeFolder, AuthorFits, F!RestInv, F!RestTypes, F!tree
  <1>3. CASE visible[x] # None
    <2>1. author'[a].pc = "over" /\ (\A b \in Author \ {a} : author'[b] = author[b]) /\ UNCHANGED <<visible, raced>>
      BY <1>1, <1>3, AuthorMoves DEF F!MakeFolder, F!tree, F!Idle
    <2> QED
      BY <1>2, <2>1, AuthorQuiet DEF SamePresence
  <1>4. CASE visible[x] = None
    <2>1. /\ visible' = [visible EXCEPT ![x] = [F!Empty EXCEPT !.base = author[a].base]]
          /\ raced' = IF F!Leaving(x.family) THEN raced \cup {x.family} ELSE raced
          /\ author'[a].pc = "write" /\ author'[a].folder = x /\ \A b \in Author \ {a} : author'[b] = author[b]
      BY <1>1, <1>4, AuthorActs DEF F!MakeFolder
    <2>2. [F!Empty EXCEPT !.base = author[a].base] # None
      <3>1. author[a].base \in Nat
        BY AuthorFacts DEF AuthorFits
      <3>2. [F!Empty EXCEPT !.base = author[a].base] \in F!Content
        BY <3>1, FolderFacts DEF F!Content
      <3> QED
        BY <3>2, FolderFacts
    <2>3. \A y \in F!Folder : visible'[y] # None <=> visible[y] # None \/ y = x
      BY <1>2, <2>1, <2>2 DEF F!RecordInv, F!TypeOK
    <2>4. \A f : /\ F!Here(f)' = F!Here(f) \cup (IF f = x.family THEN {x} ELSE {})
                 /\ F!There(f)' = F!There(f)
                 /\ F!Of(f)' = F!Of(f) \cup (IF f = x.family THEN {x} ELSE {})
      BY <1>2, <2>3 DEF F!Here, F!There, F!Of
    <2>5. F!Drafts = {} /\ F!Drafts' = {x} /\ \A b \in Author \ {a} : author'[b].pc = "over"
      <3>1. F!Alone /\ author[a].pc # "over"
        BY <1>2 DEF F!RestInv
      <3>2. F!Drafts = {}
        BY <1>2, <3>1, SoleAuthor
      <3>3. F!Drafts' = {x} /\ \A b \in Author \ {a} : author'[b].pc = "over"
        BY <2>1, <3>1, SoleAuthorNext
      <3> QED
        BY <3>2, <3>3
    <2>6. ASSUME x.family \notin raced'
          PROVE  /\ F!There(x.family) = {} /\ F!PlansOf(x.family) = {} /\ x \notin F!Of(x.family)
                 /\ \A k \in Archiver : archiver[k].pc # "over" => \A z \in archiver[k].plan : z.family # x.family
      <3>1. ~F!Leaving(x.family)
        BY <2>1, <2>6
      <3> QED
        BY <1>2, <1>4, <3>1 DEF F!Leaving, F!Archived, F!There, F!PlansOf, F!Of
    <2>7. ASSUME ~F!Broken PROVE Books' /\ F!BaseStays'
      <3>1. Books /\ F!BaseStays
        BY <2>7, AccountIs DEF F!RestInv
      <3>2. ASSUME NEW f \in Family \ raced'
            PROVE  F!Numbered(f)' /\ F!DraftAlone(f)'
        <4>1. f \notin raced /\ F!Numbered(f) /\ F!DraftAlone(f)
          BY <2>1, <3>1 DEF Books
        <4>2. F!Settled(f)' = F!Settled(f)
          BY <2>4, <2>5, <2>6 DEF F!Settled, F!Of
        <4>3. F!Here(f)' \cap F!There(f)' = {}
          BY <2>4, <2>6, <4>1 DEF F!Numbered
        <4>4. F!Numbered(f)'
          BY <4>1, <4>2, <4>3 DEF F!Numbered
        <4>5. F!DraftAlone(f)'
          <5>1. F!PlansOf(f)' = F!PlansOf(f)
            BY <1>2 DEF F!PlansOf
          <5> QED
            BY <2>4, <2>5, <2>6, <5>1 DEF F!DraftAlone
        <4> QED
          BY <4>4, <4>5
      <3>3. ASSUME NEW f \in Family \ raced', NEW y \in F!Here(f)' \ F!Here(f)
            PROVE  /\ \A z \in F!There(f) : z.rev < y.rev
                   /\ \A k \in F!At(F!Moving) : \A z \in archiver[k].plan : z.family = f => z.rev < y.rev
        <4>1. f = x.family
          BY <2>4
        <4> QED
          BY <2>6, <4>1, NotMoving DEF F!At
      <3>4. Books'
        BY <1>2, <2>1, <3>1, <3>2, <3>3, BooksGrow
      <3>5. F!BaseStays'
        <4>1. F!At(F!Moving)' = F!At(F!Moving)
          BY <1>2 DEF F!At
        <4>2. \A k \in F!At(F!Moving) : \A z \in archiver[k].plan : z.family \notin raced => z \in F!Of(z.family)
          BY <1>2, <3>1 DEF F!BaseStays
        <4> QED
          BY <1>2, <2>1, <2>4, <2>5, <4>1, <4>2 DEF F!BaseStays
      <3> QED
        BY <3>4, <3>5
    <2> QED
      BY <1>2, <2>1, <2>7, AuthorKeeps
  <1> QED
    BY <1>3, <1>4

\* An author that is over leaves no draft, and no revision in the making.
LEMMA AuthorOver ==
    ASSUME F!RestInv, NEW a \in Author, author[a].pc # "over", author'[a].pc = "over",
           \A b \in Author \ {a} : author'[b] = author[b]
    PROVE  F!BaseStays' /\ F!Drafts' = {}
  <1>1. \A b \in Author : author'[b].pc = "over"
    BY DEF F!RestInv, F!Alone
  <1> QED
    BY <1>1 DEF F!BaseStays, F!Drafts

LEMMA AuthorRemoves ==
    ASSUME F!RecordInv, F!RestInv, NEW a \in Author, author[a].pc \in {"write", "load"},
           F!RemoveFolder(a), UNCHANGED <<archived, index, archiver, raced>>
    PROVE  F!RestInv'
  <1>1. PICK x : x = author[a].folder
    OBVIOUS
  <1>2. x \in F!Folder /\ x.rev = 1
    BY <1>1, AuthorFacts DEF AuthorFits, F!RestInv, F!RestTypes
  <1>3. /\ visible' = [visible EXCEPT ![x] = None]
        /\ author'[a].pc = "over" /\ \A b \in Author \ {a} : author'[b] = author[b]
    BY <1>1, AuthorMoves DEF F!RemoveFolder, F!Idle
  <1>4. \A y \in F!Folder : visible'[y] # None <=> visible[y] # None /\ y # x
    BY <1>2, <1>3 DEF F!RecordInv, F!TypeOK
  <1>5. \A f : /\ F!Here(f)' = F!Here(f) \ {x} /\ F!There(f)' = F!There(f)
               /\ F!Of(f) = F!Here(f) \cup F!There(f)
               /\ F!Of(f)' = F!Here(f)' \cup F!There(f)'
    BY <1>2, <1>4 DEF F!Here, F!There, F!Of
  <1>6. F!Drafts = {x} /\ F!Drafts' = {} /\ F!BaseStays'
    <2>1. F!Alone /\ author[a].pc # "over"
      BY DEF F!RestInv
    <2>2. F!Drafts = {x}
      BY <1>1, <2>1, SoleAuthor
    <2> QED
      BY <1>3, <2>1, <2>2, AuthorOver
  <1>7. ASSUME ~F!Broken PROVE Books'
    <2>1. Books
      BY <1>7, AccountIs DEF F!RestInv
    <2>2. ASSUME NEW f \in Family \ raced'
          PROVE  F!Numbered(f)' /\ F!DraftAlone(f)'
      <3>1. F!Numbered(f) /\ F!DraftAlone(f)
        BY <2>1, <2>2 DEF Books
      <3>2. F!DraftAlone(f)'
        BY <1>6 DEF F!DraftAlone
      <3>3. F!Here(f)' \cap F!There(f)' = {}
        BY <1>5, <3>1 DEF F!Numbered
      <3>4. CASE x \notin F!There(f)
        <4>1. F!Settled(f)' = F!Settled(f)
          BY <1>5, <1>6, <3>4 DEF F!Settled
        <4> QED
          BY <3>1, <3>2, <3>3, <4>1 DEF F!Numbered
      <3>5. CASE x \in F!There(f)
        <4>1. x.family = f
          BY <3>5 DEF F!There, F!Of
        <4>2. F!Of(f) \subseteq {x}
          BY <1>6, <3>1, <3>5, <4>1 DEF F!DraftAlone
        <4>3. F!Settled(f)' = {x}
          BY <1>5, <1>6, <3>5, <4>2 DEF F!Settled
        <4>4. {y.rev : y \in {x}} = 1 .. 1 /\ 1 \in 0 .. MaxRevision
          BY <1>2, FolderFacts
        <4> QED
          BY <3>2, <3>3, <4>3, <4>4 DEF F!Numbered
      <3> QED
        BY <3>4, <3>5
    <2> QED
      BY <1>5, <2>1, <2>2, BooksGrow
  <1> QED
    BY <1>3, <1>6, <1>7, AuthorKeeps

\* What validates the tree: a new folder is the first of its family.
LEMMA DraftCounts ==
    ASSUME F!TreeValid, NEW f \in Family, F!Numbered(f), F!DraftAlone(f),
           NEW x \in F!Folder, x.family = f, x.rev = 1, F!Drafts = {x}, visible[x] # None
    PROVE  F!Of(f) = {x}
  <1>1. x \in F!Of(f) /\ F!Of(f) = F!Here(f) \cup F!There(f)
    BY DEF F!Of, F!Here, F!There
  <1>2. CASE F!There(f) \cup F!PlansOf(f) # {}
    BY <1>1, <1>2 DEF F!DraftAlone
  <1>3. CASE F!There(f) = {}
    <2>1. \A y \in F!Of(f) : visible[y] # None /\ y \in F!Folder /\ y.family = f
      BY <1>1, <1>3 DEF F!Here, F!Of
    <2>2. \A y \in F!Of(f) : y.rev = 1 => y = x
      BY <2>1 DEF F!TreeValid, F!FamilyValid, F!Visible
    <2>3. PICK n \in 0 .. MaxRevision : {y.rev : y \in F!Settled(f)} = 1 .. n
      BY DEF F!Numbered
    <2>4. n = 0
      <3>1. 1 \notin {y.rev : y \in F!Settled(f)}
        BY <2>2 DEF F!Settled
      <3> QED
        BY <2>3, <3>1, FolderFacts
    <2>5. {y.rev : y \in F!Settled(f)} = {}
      BY <2>3, <2>4
    <2>6. F!Settled(f) = {}
      BY <2>5
    <2> QED
      BY <1>1, <2>6 DEF F!Settled
  <1> QED
    BY <1>2, <1>3

LEMMA AuthorLoads ==
    ASSUME F!RecordInv, F!RestInv, NEW a \in Author, F!LoadNew(a) \/ F!WriteFails(a)
    PROVE  F!RestInv'
  <1>1. CASE F!RemoveFolder(a)
    BY <1>1, AuthorRemoves DEF F!LoadNew, F!WriteFails
  <1>2. CASE ~F!RemoveFolder(a)
    <2>1. PICK x : x = author[a].folder
      OBVIOUS
    <2>2. /\ author[a].pc = "load" /\ F!TreeValid /\ F!Loads(x) /\ F!AuthorEnds(a)
          /\ UNCHANGED <<visible, archived, index, archiver, raced>>
      BY <1>2, <2>1 DEF F!LoadNew, F!WriteFails
    <2>3. x \in F!Folder /\ x.rev = 1 /\ visible[x] # None
      BY <2>1, <2>2, AuthorFacts DEF AuthorFits, F!RestInv, F!RestTypes, F!Loads
    <2>4. author'[a].pc = "over" /\ \A b \in Author \ {a} : author'[b] = author[b]
      BY <2>2, AuthorMoves DEF F!Idle
    <2>5. F!Drafts = {x} /\ F!Drafts' = {} /\ F!BaseStays'
      <3>1. F!Alone /\ author[a].pc # "over"
        BY <2>2 DEF F!RestInv
      <3>2. F!Drafts = {x}
        BY <2>1, <2>2, <3>1, SoleAuthor
      <3> QED
        BY <2>4, <3>1, <3>2, AuthorOver
    <2>6. \A f : F!Here(f)' = F!Here(f) /\ F!There(f)' = F!There(f) /\ F!Of(f)' = F!Of(f)
      BY <2>2 DEF F!Here, F!There, F!Of
    <2>7. ASSUME ~F!Broken PROVE Books'
      <3>1. Books
        BY <2>7, AccountIs DEF F!RestInv
      <3>2. ASSUME NEW f \in Family \ raced'
            PROVE  F!Numbered(f)' /\ F!DraftAlone(f)'
        <4>1. F!Numbered(f) /\ F!DraftAlone(f)
          BY <2>2, <3>1, <3>2 DEF Books
        <4>2. F!DraftAlone(f)'
          BY <2>5 DEF F!DraftAlone
        <4>3. CASE x.family # f
          <5>1. F!Settled(f)' = F!Settled(f)
            BY <2>5, <2>6, <4>3 DEF F!Settled, F!Of
          <5> QED
            BY <2>6, <4>1, <4>2, <5>1 DEF F!Numbered
        <4>4. CASE x.family = f
          <5>1. F!Of(f) = {x}
            BY <2>2, <2>3, <2>5, <4>1, <4>4, DraftCounts
          <5>2. F!Settled(f)' = {x}
            BY <2>5, <2>6, <5>1 DEF F!Settled
          <5>3. {y.rev : y \in {x}} = 1 .. 1 /\ 1 \in 0 .. MaxRevision
            BY <2>3, FolderFacts
          <5> QED
            BY <2>6, <4>1, <4>2, <5>2, <5>3 DEF F!Numbered
        <4> QED
          BY <4>3, <4>4
      <3> QED
        BY <2>2, <2>6, <3>1, <3>2, BooksGrow
    <2> QED
      BY <2>2, <2>4, <2>5, <2>7, AuthorKeeps
  <1> QED
    BY <1>1, <1>2

LEMMA AuthorInstalls ==
    ASSUME F!RecordInv, F!RestInv, NEW a \in Author, F!InstallRevision(a)
    PROVE  F!RestInv'
  <1>1. PICK x : x = author[a].folder
    OBVIOUS
  <1>2. PICK y : y = F!NextRevision(x)
    OBVIOUS
  <1>3. /\ author[a].pc = "install" /\ x \in F!Folder /\ UNCHANGED <<archived, index, archiver>>
        /\ author[a].copy \in F!Frozen
        /\ raced' = IF \E z \in F!Archived : z.family = y.family /\ z.rev = y.rev THEN raced \cup {y.family} ELSE raced
    BY <1>1, <1>2, AuthorFacts DEF F!InstallRevision, AuthorFits
  <1>4. y.family = x.family /\ y.rev = x.rev + 1 /\ y.day = x.day /\ x.rev \in 1 .. MaxRevision
    BY <1>2, <1>3 DEF F!NextRevision, F!Folder
  <1>5. author'[a].pc = "over" /\ \A b \in Author \ {a} : author'[b] = author[b]
    BY AuthorMoves DEF F!InstallRevision, F!Idle
  <1>6. CASE y \notin F!Folder \/ visible[y] # None
    <2>1. UNCHANGED visible
      <3>1. visible[y] # None => UNCHANGED visible
        BY <1>1, <1>2 DEF F!InstallRevision
      <3>2. y \notin F!Folder => UNCHANGED visible
        BY <1>1, <1>2 DEF F!InstallRevision, F!RecordInv, F!TypeOK
      <3> QED
        BY <1>6, <3>1, <3>2
    <2> QED
      BY <1>3, <1>5, <2>1, AuthorQuiet DEF SamePresence
  <1>7. CASE y \in F!Folder /\ visible[y] = None
    <2>1. \A z \in F!Folder : visible'[z] # None <=> visible[z] # None \/ z = y
      <3>1. PICK d : d = [F!Empty EXCEPT !.base = author[a].copy.base, !.text = author[a].copy.text,
                                         !.steps = author[a].copy.steps, !.checks = TRUE]
        OBVIOUS
      <3>2. author[a].copy.steps = F!Steps /\ author[a].copy.steps \in 0 .. F!Steps
        BY <1>3, AuthorFacts, FolderFacts DEF AuthorFits, F!Steps
      <3>3. d \in F!Content
        BY <1>3, <3>1, <3>2, FolderFacts DEF F!Content, F!Frozen
      <3>4. d # None
        BY <3>3, FolderFacts
      <3>5. visible' = [visible EXCEPT ![y] = d]
        BY <1>1, <1>2, <1>7, <3>1 DEF F!InstallRevision
      <3> QED
        BY <1>7, <3>4, <3>5 DEF F!RecordInv, F!TypeOK
    <2>2. \A f : /\ F!Here(f)' = F!Here(f) \cup (IF f = x.family THEN {y} ELSE {})
                 /\ F!There(f)' = F!There(f)
                 /\ F!Of(f) = F!Here(f) \cup F!There(f)
                 /\ F!Of(f)' = F!Here(f)' \cup F!There(f)'
      BY <1>3, <1>4, <1>7, <2>1 DEF F!Here, F!There, F!Of
    <2>3. F!Drafts = {} /\ F!Drafts' = {} /\ F!BaseStays'
      <3>1. F!Alone /\ author[a].pc # "over"
        BY <1>3 DEF F!RestInv
      <3>2. F!Drafts = {}
        BY <1>3, <3>1, SoleAuthor
      <3> QED
        BY <1>5, <3>1, <3>2, AuthorOver
    <2>4. ASSUME ~F!Broken PROVE Books'
      <3>1. Books /\ F!BaseStays
        BY <2>4, AccountIs DEF F!RestInv
      <3> DEFINE f == x.family
      <3>2. ASSUME f \notin raced', f \in Family
            PROVE  /\ y \notin F!There(f) /\ f \notin raced
                   /\ \A z \in F!Of(f) : z.rev < y.rev
                   /\ \E n \in 0 .. MaxRevision : n + 1 = y.rev /\ {z.rev : z \in F!Of(f)} = 1 .. n
        <4>1. f \notin raced /\ y \notin F!There(f)
          BY <1>3, <1>4, <3>2 DEF F!There, F!Of, F!Archived
        <4>2. F!Settled(f) = F!Of(f) /\ F!Numbered(f)
          BY <2>3, <3>1, <3>2, <4>1 DEF F!Settled, Books
        <4>3. PICK n \in 0 .. MaxRevision : {z.rev : z \in F!Of(f)} = 1 .. n
          BY <4>2 DEF F!Numbered
        <4>4. x \in F!Of(f)
          BY <1>1, <1>3, <3>1, <4>1 DEF F!BaseStays
        <4>5. x.rev \in 1 .. n
          BY <4>3, <4>4
        <4>6. ~(x.rev + 1 \in 1 .. n)
          <5>1. SUFFICES ASSUME x.rev + 1 \in 1 .. n PROVE FALSE
            OBVIOUS
          <5>2. PICK z \in F!Of(f) : z.rev = x.rev + 1
            BY <4>3, <5>1
          <5>3. z.day = x.day /\ z.family = f /\ z \in F!Folder
            BY <4>2, <4>4, <5>2 DEF F!Numbered, F!Of
          <5>4. z = y
            BY <1>3, <1>4, <1>7, <5>2, <5>3 DEF F!Folder
          <5> QED
            BY <1>7, <4>1, <5>2, <5>4 DEF F!Of, F!There
        <4>7. n + 1 = y.rev
          BY <1>4, <4>5, <4>6
        <4>8. \A z \in F!Of(f) : z.rev < y.rev
          BY <4>3, <4>7
        <4> QED
          BY <4>1, <4>3, <4>7, <4>8
      <3>3. ASSUME NEW g \in Family \ raced'
            PROVE  F!Numbered(g)' /\ F!DraftAlone(g)'
        <4>1. F!Numbered(g)
          BY <1>3, <3>1, <3>3 DEF Books
        <4>2. F!DraftAlone(g)'
          BY <2>3 DEF F!DraftAlone
        <4>3. CASE g # f
          <5>1. F!Settled(g)' = F!Settled(g)
            BY <2>2, <2>3, <4>3 DEF F!Settled
          <5> QED
            BY <2>2, <4>1, <4>2, <4>3, <5>1 DEF F!Numbered
        <4>4. CASE g = f
          <5>1. F!Settled(f)' = F!Of(f) \cup {y} /\ F!Settled(f) = F!Of(f)
            BY <2>2, <2>3 DEF F!Settled
          <5>2. PICK n \in 0 .. MaxRevision : n + 1 = y.rev /\ {z.rev : z \in F!Of(f)} = 1 .. n
            BY <3>2, <3>3, <4>4
          <5>3. {z.rev : z \in F!Of(f) \cup {y}} = 1 .. (n + 1)
            <6>1. {z.rev : z \in F!Of(f) \cup {y}} = {z.rev : z \in F!Of(f)} \cup {y.rev}
              OBVIOUS
            <6>2. (1 .. n) \cup {n + 1} = 1 .. (n + 1)
              BY <5>2
            <6> QED
              BY <5>2, <6>1, <6>2
          <5>4. n + 1 \in 0 .. MaxRevision
            BY <1>7, <5>2, FolderFacts DEF F!Folder
          <5>5. x \in F!Of(f)
            BY <1>1, <1>3, <3>1, <3>2, <3>3, <4>4 DEF F!BaseStays
          <5>6. \A u, v \in F!Of(f) \cup {y} : u.day = v.day
            BY <1>4, <4>1, <4>4, <5>1, <5>5 DEF F!Numbered
          <5>7. F!Here(f)' \cap F!There(f)' = {}
            BY <2>2, <3>2, <3>3, <4>1, <4>4 DEF F!Numbered
          <5> QED
            BY <4>2, <4>4, <5>1, <5>3, <5>4, <5>6, <5>7 DEF F!Numbered
        <4> QED
          BY <4>3, <4>4
      <3>4. ASSUME NEW g \in Family \ raced', NEW u \in F!Here(g)' \ F!Here(g)
            PROVE  /\ \A z \in F!There(g) : z.rev < u.rev
                   /\ \A k \in F!At(F!Moving) : \A z \in archiver[k].plan : z.family = g => z.rev < u.rev
        <4>1. g = f /\ u = y
          BY <2>2
        <4>2. \A z \in F!Of(f) : z.rev < y.rev
          BY <3>2, <4>1
        <4>3. \A k \in F!At(F!Moving) : \A z \in archiver[k].plan : z.family = f => z \in F!Of(f)
          BY <1>3, <3>1, <3>2, <4>1 DEF F!BaseStays
        <4> QED
          BY <2>2, <4>1, <4>2, <4>3
      <3> QED
        BY <1>3, <3>1, <3>3, <3>4, BooksGrow
    <2> QED
      BY <1>3, <1>5, <2>3, <2>4, AuthorKeeps
  <1> QED
    BY <1>6, <1>7

LEMMA RestAuthor ==
    ASSUME F!RecordInv, F!RestInv, NEW a \in Author, F!AuthorSteps(a) \/ F!KillAuthor(a)
    PROVE  F!RestInv'
    BY AuthorLooksOnly, AuthorKilled, AuthorMakes, AuthorLoads, AuthorInstalls DEF F!AuthorSteps

-----------------------------------------------------------------------------
(* archive-migrations, and what is moved back by hand *)

LEMMA DraftFacts ==
    ASSUME F!RecordInv, F!RestInv, NEW x \in F!Drafts
    PROVE  x \in F!Folder /\ x.rev = 1 /\ F!Drafts = {x}
  <1>1. PICK a \in Author : author[a].pc \in {"write", "load"} /\ x = author[a].folder
    BY DEF F!Drafts
  <1>2. F!Drafts = {x}
    <2>1. F!Alone /\ author[a].pc # "over"
      BY <1>1 DEF F!RestInv
    <2> QED
      BY <1>1, <2>1, SoleAuthor
  <1> QED
    BY <1>1, <1>2, AuthorFacts DEF AuthorFits, F!RestInv, F!RestTypes

LEMMA Unarchived ==
    ASSUME F!RecordInv, F!RestInv, NEW x \in F!Folder, F!Unarchive(x)
    PROVE  F!RestInv'
  <1>1. /\ archived[x] # None /\ visible[x] = None /\ UNCHANGED <<author, archiver, raced>>
        /\ \A k \in Archiver : archiver[k].pc \in {"idle", "over"}
        /\ \A y \in F!Archived : y.family = x.family => y.rev <= x.rev
        /\ index' = [index EXCEPT ![SchemaOf[x.family]] = {r \in @ : r.folder # x}]
    BY DEF F!Unarchive
  <1>2. x.family \in Family /\ SchemaOf[x.family] \in Schema
    BY FolderFacts DEF F!Folder
  <1>3. \A y \in F!Folder : /\ visible'[y] # None <=> visible[y] # None \/ y = x
                            /\ archived'[y] # None <=> archived[y] # None /\ y # x
    BY <1>1 DEF F!Unarchive, F!RecordInv, F!TypeOK
  <1>4. \A f : /\ F!Here(f)' = F!Here(f) \cup (IF f = x.family THEN {x} ELSE {})
               /\ F!There(f)' = F!There(f) \ {x}
               /\ F!Of(f)' = F!Of(f)
    BY <1>1, <1>3 DEF F!Here, F!There, F!Of
  <1>5. index \in [Schema -> SUBSET [folder : F!Folder, payload : F!Frozen]]
    BY DEF F!RestInv, F!RestTypes
  <1>6. \A s \in Schema : index'[s] = IF s = SchemaOf[x.family] THEN {r \in index[s] : r.folder # x} ELSE index[s]
    BY <1>1, <1>2, <1>5
  <1>7. F!RestTypes'
    <2>1. index' \in [Schema -> SUBSET [folder : F!Folder, payload : F!Frozen]]
      BY <1>1, <1>5
    <2>2. \A k : F!Schemas(k)' = F!Schemas(k)
      BY <1>1 DEF F!Schemas
    <2> QED
      BY <1>1, <2>1, <2>2, Zenon DEF F!RestTypes, F!RestInv
  <1>8. F!Alone' /\ F!Drafts' = F!Drafts /\ (F!Broken' <=> F!Broken)
    BY <1>1 DEF F!Alone, F!Drafts, F!Broken, F!RestInv
  <1>9. F!At(F!Moving) = {} /\ F!At(F!Moving)' = {} /\ F!At({"check"})' = {}
    BY <1>1, NotMoving DEF F!At
  <1>10. \A f : F!PlansOf(f)' = {}
    <2>1. \A k \in Archiver : archiver[k].pc # "over" => archiver[k].plan = {}
      BY <1>1 DEF F!RestInv, F!RestTypes
    <2> QED
      BY <1>1, <2>1 DEF F!PlansOf
  <1>11. ASSUME ~F!Broken PROVE F!Accounted'
    <2>1. F!Accounted
      BY <1>11 DEF F!RestInv
    <2>2. F!BaseStays'
      BY <1>1, <1>4, <1>9, <2>1 DEF F!Accounted, F!BaseStays
    <2>3. ASSUME NEW f \in Family \ raced
          PROVE  F!Numbered(f)' /\ F!DraftAlone(f)' /\ F!InOrder(f)'
      <3>1. F!Numbered(f) /\ F!DraftAlone(f) /\ F!InOrder(f)
        BY <1>9, <2>1 DEF F!Accounted
      <3>2. F!Settled(f)' = F!Settled(f)
        BY <1>4, <1>8 DEF F!Settled
      <3>3. F!Here(f)' \cap F!There(f)' = {}
        BY <1>4, <3>1 DEF F!Numbered
      <3>4. F!Numbered(f)'
        BY <3>1, <3>2, <3>3 DEF F!Numbered
      <3>5. F!DraftAlone(f)'
        BY <1>4, <1>8, <1>10, <3>1 DEF F!DraftAlone
      <3>6. \A y \in F!Folder : y.family = f =>
               (y \in F!There(f)' <=> F!Recorded(y, index'[SchemaOf[f]]))
        <4>1. SchemaOf[f] \in Schema
          BY FolderFacts
        <4> SUFFICES ASSUME NEW y \in F!Folder, y.family = f
                     PROVE  y \in F!There(f)' <=> F!Recorded(y, index'[SchemaOf[f]])
          OBVIOUS
        <4>2. y \in F!There(f) <=> F!Recorded(y, index[SchemaOf[f]])
          BY <3>1 DEF F!InOrder
        <4>3. F!Recorded(y, index'[SchemaOf[f]]) <=> F!Recorded(y, index[SchemaOf[f]]) /\ y # x
          <5>1. CASE SchemaOf[f] = SchemaOf[x.family]
            <6>1. index'[SchemaOf[f]] = {r \in index[SchemaOf[f]] : r.folder # x}
              BY <1>6, <4>1, <5>1
            <6> QED
              BY <6>1 DEF F!Recorded
          <5>2. CASE SchemaOf[f] # SchemaOf[x.family]
            <6>1. index'[SchemaOf[f]] = index[SchemaOf[f]] /\ y # x
              BY <1>6, <4>1, <5>2
            <6> QED
              BY <6>1 DEF F!Recorded
          <5> QED
            BY <5>1, <5>2
        <4> QED
          BY <1>4, <4>2, <4>3
      <3>7. ASSUME NEW z \in F!There(f)', NEW y \in F!Here(f)' PROVE z.rev < y.rev
        <4>1. z \in F!There(f) /\ z # x
          BY <1>4
        <4>2. CASE y # x
          BY <1>4, <3>1, <4>1, <4>2 DEF F!InOrder
        <4>3. CASE y = x
          <5>1. /\ f = x.family /\ x \in F!There(f) /\ x \in F!Of(f) /\ z \in F!Of(f)
                /\ z \in F!Folder /\ z.family = f /\ z \in F!Archived
            BY <1>1, <1>4, <3>1, <4>1, <4>3 DEF F!There, F!Of, F!Archived, F!Here
          <5>2. z.rev <= x.rev /\ z.rev \in 1 .. MaxRevision /\ x.rev \in 1 .. MaxRevision
            BY <1>1, <5>1 DEF F!Folder
          <5>3. \A d \in F!Drafts : d.family # f
            BY <3>1, <4>1, <5>1 DEF F!DraftAlone
          <5>4. z \in F!Settled(f) /\ x \in F!Settled(f)
            BY <5>1, <5>3 DEF F!Settled
          <5>5. z.day = x.day
            BY <3>1, <5>4 DEF F!Numbered
          <5>6. z.rev # x.rev
            BY <4>1, <5>1, <5>5 DEF F!Folder
          <5> QED
            BY <4>3, <5>2, <5>6, FolderFacts
        <4> QED
          BY <4>2, <4>3
      <3> QED
        BY <3>4, <3>5, <3>6, <3>7 DEF F!InOrder
    <2> QED
      BY <1>1, <1>9, <2>2, <2>3 DEF F!Accounted
  <1> QED
    BY <1>7, <1>8, <1>11 DEF F!RestInv

\* What an archive has, in the state or after a step.
ArchiverFits(r) ==
    /\ DOMAIN r = {"pc", "plan", "payloads", "seen", "flag", "original", "moved", "written", "kept", "stuck"}
    /\ r.plan \subseteq F!Folder /\ r.seen \subseteq F!Folder
    /\ r.payloads \subseteq [folder : F!Folder, payload : F!Frozen]
    /\ r.plan = {p.folder : p \in r.payloads}
    /\ r.original \in [Schema -> SUBSET [folder : F!Folder, payload : F!Frozen]]
    /\ r.moved \subseteq r.plan
    /\ r.written \subseteq {SchemaOf[x.family] : x \in r.plan}
    /\ r.pc = "idle" => r.plan = {}
    /\ r.pc \in {"idle", "check"} => r.moved = {} /\ r.written = {}

LEMMA ArchiverFacts ==
    ASSUME F!RecordInv, F!RestInv, NEW k \in Archiver
    PROVE  /\ ArchiverFits(archiver[k]) /\ DOMAIN archiver = Archiver
           /\ F!Schemas(k) \subseteq Schema
           /\ index \in [Schema -> SUBSET [folder : F!Folder, payload : F!Frozen]]
  <1>1. ArchiverFits(archiver[k]) /\ DOMAIN archiver = Archiver
    BY DEF F!RestInv, F!RestTypes, F!Schemas, ArchiverFits, F!RecordInv, F!TypeOK
  <1>2. F!Schemas(k) \subseteq Schema
    BY <1>1, FolderFacts DEF F!Schemas, ArchiverFits, F!Folder
  <1> QED
    BY <1>1, <1>2 DEF F!RestInv, F!RestTypes

\* What a step of an archive has to show.
LEMMA ArchiverKeeps ==
    ASSUME F!RecordInv, F!RestInv, NEW k \in Archiver, archiver[k].pc \notin {"over", "inspect", "killed"},
           UNCHANGED <<author, raced>>, \A l \in Archiver \ {k} : archiver'[l] = archiver[l],
           ArchiverFits(archiver'[k]), index' \in [Schema -> SUBSET [folder : F!Folder, payload : F!Frozen]],
           ~F!Broken /\ archiver'[k].pc \notin {"inspect", "killed"} => F!Accounted'
    PROVE  F!RestInv'
  <1>1. \A l \in Archiver : ArchiverFits(archiver'[l])
    BY ArchiverFacts
  <1>2. F!RestTypes'
    <2>1. \A a \in Author : author'[a].pc \in {"read", "make", "write", "load"} => author'[a].folder.rev = 1
      BY DEF F!RestInv, F!RestTypes
    <2> QED
      BY <1>1, <2>1 DEF F!RestTypes, ArchiverFits, F!Schemas
  <1>3. F!Alone'
    BY SoleArchiverNext DEF F!RestInv
  <1>4. ~F!Broken' => ~F!Broken /\ archiver'[k].pc \notin {"inspect", "killed"}
    BY DEF F!Broken
  <1> QED
    BY <1>2, <1>3, <1>4 DEF F!RestInv

\* Only the command's own progress is noted.
LEMMA ArchiverActs ==
    ASSUME F!RecordInv, F!RestInv, NEW k \in Archiver, NEW l, F!ArchiverGoes(k, l)
    PROVE  /\ \A o \in Archiver \ {k} : archiver'[o] = archiver[o]
           /\ archiver'[k] = [archiver[k] EXCEPT !.pc = l]
           /\ archiver'[k].pc = l /\ \A n \in DOMAIN archiver[k] \ {"pc"} : archiver'[k][n] = archiver[k][n]
           /\ archiver'[k].plan = archiver[k].plan /\ archiver'[k].payloads = archiver[k].payloads
           /\ archiver'[k].seen = archiver[k].seen /\ archiver'[k].original = archiver[k].original
           /\ archiver'[k].moved = archiver[k].moved /\ archiver'[k].written = archiver[k].written
           /\ archiver'[k].kept = archiver[k].kept /\ archiver'[k].stuck = archiver[k].stuck
           /\ l \notin {"idle", "check"} => ArchiverFits(archiver'[k])
  <1>1. ArchiverFits(archiver[k]) /\ DOMAIN archiver = Archiver
    BY ArchiverFacts
  <1>2. archiver'[k] = [archiver[k] EXCEPT !.pc = l] /\ \A o \in Archiver \ {k} : archiver'[o] = archiver[o]
    BY <1>1 DEF F!ArchiverGoes
  <1>3. /\ DOMAIN archiver'[k] = DOMAIN archiver[k]
        /\ archiver'[k].pc = l /\ \A n \in DOMAIN archiver[k] \ {"pc"} : archiver'[k][n] = archiver[k][n]
    BY <1>1, <1>2 DEF ArchiverFits
  <1>4. /\ archiver'[k].plan = archiver[k].plan /\ archiver'[k].payloads = archiver[k].payloads
        /\ archiver'[k].seen = archiver[k].seen /\ archiver'[k].original = archiver[k].original
        /\ archiver'[k].moved = archiver[k].moved /\ archiver'[k].written = archiver[k].written
        /\ archiver'[k].kept = archiver[k].kept /\ archiver'[k].stuck = archiver[k].stuck
    BY <1>1, <1>2 DEF ArchiverFits
  <1> QED
    BY <1>1, <1>2, <1>3, <1>4 DEF ArchiverFits

LEMMA ArchiverKilled ==
    ASSUME F!RecordInv, F!RestInv, NEW k \in Archiver, F!KillArchiver(k)
    PROVE  F!RestInv'
  <1>1. F!ArchiverGoes(k, "killed") /\ archiver[k].pc \notin {"over", "inspect", "killed"} /\ UNCHANGED <<index, author, raced>>
    BY DEF F!KillArchiver, F!tree
  <1>2. /\ archiver'[k].pc = "killed" /\ ArchiverFits(archiver'[k]) /\ \A o \in Archiver \ {k} : archiver'[o] = archiver[o]
    BY <1>1, ArchiverActs
  <1>3. index' \in [Schema -> SUBSET [folder : F!Folder, payload : F!Frozen]]
    BY <1>1, ArchiverFacts
  <1> QED
    BY <1>1, <1>2, <1>3, ArchiverKeeps

\* The books of an archive that plans, or gives its plan up or begins.
LEMMA ArchiverPlans ==
    ASSUME F!RecordInv, F!RestInv, NEW k \in Archiver, F!PlanArchive(k)
    PROVE  F!RestInv'
  <1>1. PICK chosen \in SUBSET F!Visible \ {{}}, flag \in BOOLEAN :
          /\ F!LowPrefix(chosen)
          /\ \A x \in chosen : F!Loads(x) /\ archived[x] = None
          /\ archiver' = [archiver EXCEPT ![k] = [@ EXCEPT
                !.pc = "check", !.flag = flag,
                !.plan = chosen,
                !.payloads = {[folder |-> x, payload |-> F!Payload(visible[x])] : x \in chosen},
                !.seen = F!Families(chosen),
                !.original = index]]
    BY DEF F!PlanArchive
  <1>2. archiver[k].pc = "idle" /\ F!TreeValid /\ UNCHANGED <<visible, archived, index, author, raced>>
    BY DEF F!PlanArchive, F!tree
  <1>3. /\ ArchiverFits(archiver[k]) /\ DOMAIN archiver = Archiver
        /\ index \in [Schema -> SUBSET [folder : F!Folder, payload : F!Frozen]]
    BY ArchiverFacts
  <1>4. PICK payloads : payloads = {[folder |-> x, payload |-> F!Payload(visible[x])] : x \in chosen}
    OBVIOUS
  <1>5. /\ \A l \in Archiver \ {k} : archiver'[l] = archiver[l]
        /\ DOMAIN archiver'[k] = DOMAIN archiver[k]
        /\ archiver'[k].pc = "check" /\ archiver'[k].plan = chosen /\ archiver'[k].payloads = payloads
        /\ archiver'[k].seen = F!Families(chosen) /\ archiver'[k].original = index
        /\ archiver'[k].moved = archiver[k].moved /\ archiver'[k].written = archiver[k].written
    BY <1>1, <1>3, <1>4 DEF ArchiverFits
  <1>6. ArchiverFits(archiver'[k])
    <2>1. chosen \subseteq F!Folder /\ F!Families(chosen) \subseteq F!Folder
      BY DEF F!Visible, F!Families
    <2>2. payloads \subseteq [folder : F!Folder, payload : F!Frozen] /\ chosen = {p.folder : p \in payloads}
      <3>1. \A x \in chosen : F!Payload(visible[x]) \in F!Frozen
        BY <1>1, <2>1, LoadedIsWhole
      <3>2. \A p \in payloads : p.folder \in chosen /\ p \in [folder : F!Folder, payload : F!Frozen]
        BY <1>4, <2>1, <3>1
      <3>3. ASSUME NEW x \in chosen PROVE \E p \in payloads : p.folder = x
        <4>1. [folder |-> x, payload |-> F!Payload(visible[x])] \in payloads
          BY <1>4
        <4> QED
          BY <4>1
      <3> QED
        BY <3>2, <3>3
    <2>3. archiver'[k].moved = {} /\ archiver'[k].written = {}
      BY <1>2, <1>3, <1>5 DEF ArchiverFits
    <2> QED
      BY <1>3, <1>5, <2>1, <2>2, <2>3 DEF ArchiverFits
  <1>7. /\ F!At(F!Moving) = {} /\ F!At(F!Moving)' = {} /\ F!At({"check"})' = {k}
        /\ \A f : F!PlansOf(f) = {} /\ F!PlansOf(f)' = {x \in chosen : x.family = f}
    <2>1. F!Alone /\ archiver[k].pc # "over"
      BY <1>2 DEF F!RestInv
    <2>2. archiver[k].plan = {}
      BY <1>2, <1>3 DEF ArchiverFits
    <2>3. /\ \A f : F!PlansOf(f) = {x \in archiver[k].plan : x.family = f}
          /\ F!At(F!Moving) = {}
      BY <1>2, <2>1, SoleArchiver, NotMoving
    <2>4. \A f : F!PlansOf(f) = {}
      BY <2>2, <2>3
    <2>5. /\ \A f : F!PlansOf(f)' = {x \in chosen : x.family = f}
          /\ F!At(F!Moving)' = {} /\ F!At({"check"})' = {k}
      BY <1>5, <2>1, SoleArchiverNext, NotMoving
    <2> QED
      BY <2>3, <2>4, <2>5
  <1>8. \A f : /\ F!Of(f)' = F!Of(f) /\ F!Here(f)' = F!Here(f)
               /\ F!There(f)' = F!There(f) /\ F!Settled(f)' = F!Settled(f)
               /\ F!Drafts' = F!Drafts
    BY <1>2 DEF F!Of, F!Here, F!There, F!Settled, F!Drafts
  <1>9. ASSUME ~F!Broken PROVE F!Accounted'
    <2>1. F!Accounted
      BY <1>9 DEF F!RestInv
    <2>2. F!BaseStays'
      BY <1>2, <1>7, <1>8, <2>1 DEF F!Accounted, F!BaseStays
    <2>3. ASSUME NEW f \in Family \ raced
          PROVE  F!Numbered(f)' /\ F!DraftAlone(f)' /\ F!InOrder(f)'
      <3>1. F!Numbered(f) /\ F!DraftAlone(f) /\ F!InOrder(f)
        BY <1>7, <2>1 DEF F!Accounted
      <3>2. F!Numbered(f)' /\ F!InOrder(f)'
        BY <1>2, <1>8, <3>1 DEF F!Numbered, F!InOrder
      <3>3. ASSUME NEW x \in F!Drafts, x.family = f
            PROVE  x \in F!Of(f) /\ (F!There(f) \cup F!PlansOf(f)' # {} => F!Of(f) \cup F!PlansOf(f)' \subseteq {x})
        <4>1. x \in F!Folder /\ x.rev = 1 /\ F!Drafts = {x}
          BY DraftFacts
        <4>2. x \in F!Of(f)
          BY <3>1, <3>3 DEF F!DraftAlone
        <4>3. F!PlansOf(f)' \subseteq F!Of(f)
          BY <1>7 DEF F!Visible, F!Of
        <4>4. CASE F!There(f) # {}
          BY <3>1, <3>3, <4>2, <4>3, <4>4 DEF F!DraftAlone
        <4>5. CASE F!There(f) = {}
          <5>1. visible[x] # None
            BY <4>2, <4>5 DEF F!There, F!Of
          <5> QED
            BY <1>2, <3>1, <3>3, <4>1, <4>3, <5>1, DraftCounts
        <4> QED
          BY <4>4, <4>5
      <3> QED
        BY <1>8, <3>2, <3>3 DEF F!DraftAlone
    <2>4. F!PlanIsLow(k)'
      <3>1. chosen \subseteq F!Families(chosen)
        BY DEF F!Families, F!Visible
      <3>2. \A x \in chosen, y \in F!Families(chosen) : x.family = y.family /\ y.rev < x.rev => y \in chosen
        BY <1>1 DEF F!LowPrefix, F!Families
      <3> QED
        BY <1>5, <3>1, <3>2 DEF F!PlanIsLow
    <2> QED
      BY <1>2, <1>7, <2>2, <2>3, <2>4 DEF F!Accounted
  <1> QED
    BY <1>2, <1>3, <1>5, <1>6, <1>9, ArchiverKeeps

LEMMA ArchiverChecks ==
    ASSUME F!RecordInv, F!RestInv, NEW k \in Archiver, F!CheckPlan(k)
    PROVE  F!RestInv'
  <1>1. /\ archiver[k].pc = "check" /\ UNCHANGED <<visible, archived, index, author, raced>>
        /\ F!ArchiverGoes(k, IF F!Stale(k) THEN "over" ELSE "move")
    BY DEF F!CheckPlan, F!tree
  <1>2. /\ \A o \in Archiver \ {k} : archiver'[o] = archiver[o]
        /\ archiver'[k].pc = IF F!Stale(k) THEN "over" ELSE "move"
        /\ archiver'[k].plan = archiver[k].plan /\ archiver'[k].original = archiver[k].original
        /\ archiver'[k].moved = {} /\ archiver'[k].written = {}
        /\ archiver'[k].payloads = archiver[k].payloads /\ ArchiverFits(archiver'[k])
    <2>1. PICK l : l = IF F!Stale(k) THEN "over" ELSE "move"
      OBVIOUS
    <2>2. F!ArchiverGoes(k, l) /\ l \notin {"idle", "check"}
      BY <1>1, <2>1
    <2>3. archiver[k].moved = {} /\ archiver[k].written = {}
      BY <1>1, ArchiverFacts DEF ArchiverFits
    <2> QED
      BY <2>1, <2>2, <2>3, ArchiverActs
  <1>3. /\ ArchiverFits(archiver[k]) /\ DOMAIN archiver = Archiver
        /\ index \in [Schema -> SUBSET [folder : F!Folder, payload : F!Frozen]]
    BY ArchiverFacts
  <1>4. /\ F!At(F!Moving) = {} /\ F!At({"check"}) = {k} /\ F!At({"check"})' = {}
        /\ F!At(F!Moving)' = (IF F!Stale(k) THEN {} ELSE {k})
        /\ \A f : F!PlansOf(f)' \subseteq F!PlansOf(f)
    <2>1. F!Alone /\ archiver[k].pc # "over"
      BY <1>1 DEF F!RestInv
    <2>2. /\ \A f : F!PlansOf(f) = {x \in archiver[k].plan : x.family = f}
          /\ F!At(F!Moving) = {} /\ F!At({"check"}) = {k}
      BY <1>1, <2>1, SoleArchiver, NotMoving
    <2>3. /\ \A f : F!PlansOf(f)' = {x \in archiver'[k].plan : x.family = f /\ archiver'[k].pc # "over"}
          /\ F!At(F!Moving)' = (IF archiver'[k].pc \in F!Moving THEN {k} ELSE {})
          /\ F!At({"check"})' = (IF archiver'[k].pc = "check" THEN {k} ELSE {})
      BY <1>2, <2>1, SoleArchiverNext, NotMoving
    <2>4. "move" \in F!Moving
      BY DEF F!Moving
    <2> QED
      BY <1>2, <2>2, <2>3, <2>4, NotMoving
  <1>5. \A f : /\ F!Of(f)' = F!Of(f) /\ F!Here(f)' = F!Here(f)
               /\ F!There(f)' = F!There(f) /\ F!Settled(f)' = F!Settled(f)
               /\ F!Drafts' = F!Drafts
    BY <1>1 DEF F!Of, F!Here, F!There, F!Settled, F!Drafts
  <1>6. ASSUME ~F!Broken PROVE F!Accounted'
    <2>1. F!Accounted /\ F!PlanIsLow(k)
      BY <1>4, <1>6 DEF F!RestInv, F!Accounted
    <2>2. ASSUME NEW f \in Family \ raced
          PROVE  F!Numbered(f)' /\ F!DraftAlone(f)' /\ F!InOrder(f)' /\ F!InOrder(f)
      <3>1. F!Numbered(f) /\ F!DraftAlone(f) /\ F!InOrder(f)
        BY <1>4, <2>1 DEF F!Accounted
      <3> QED
        BY <1>1, <1>4, <1>5, <3>1 DEF F!Numbered, F!InOrder, F!DraftAlone
    <2>3. CASE F!Stale(k)
      <3>1. F!BaseStays'
        BY <1>1, <1>4, <1>5, <2>1, <2>3 DEF F!Accounted, F!BaseStays
      <3> QED
        BY <1>1, <1>4, <2>2, <2>3, <3>1 DEF F!Accounted
    <2>4. CASE ~F!Stale(k)
      <3>1. \A x \in archiver[k].plan : x \in F!Folder /\ visible[x] # None /\ archived[x] = None
        <4>1. \A r \in archiver[k].payloads : F!Loads(r.folder) /\ archived[r.folder] = None
          BY <2>4 DEF F!Stale
        <4> QED
          BY <1>3, <4>1 DEF ArchiverFits, F!Loads
      <3>2. \A s \in F!Schemas(k) : index[s] = archiver[k].original[s]
        BY <2>4 DEF F!Stale
      <3>3. \A x \in archiver[k].plan : x \in F!Here(x.family) /\ x \notin F!There(x.family) /\ x \in F!Of(x.family)
        BY <3>1 DEF F!Here, F!There, F!Of
      <3>4. F!BaseStays'
        <4>1. \A a \in Author : author[a].pc \in {"list", "copy", "install"} /\ author[a].folder.family \notin raced =>
               author[a].folder \in F!Of(author[a].folder.family)
          BY <2>1 DEF F!Accounted, F!BaseStays
        <4> QED
          BY <1>1, <1>2, <1>4, <1>5, <2>4, <3>3, <4>1 DEF F!BaseStays
      <3>5. F!Indexes(k)'
        BY <1>1, <1>2, <2>4, <3>2 DEF F!Indexes, F!Schemas
      <3>6. ASSUME NEW f \in Family \ raced PROVE F!Extent(k, f)'
        <4>1. archiver'[k].pc = "move" /\ archiver'[k].moved = {} /\ archiver'[k].plan = archiver[k].plan
          BY <1>2, <2>4
        <4>2. {x \in archiver[k].plan : x.family = f} \cap F!There(f) = {}
          BY <3>3
        <4> QED
          BY <1>5, <4>1, <4>2 DEF F!Extent
      <3>7. ASSUME NEW f \in Family \ raced PROVE F!Sorted(k, f)'
        <4>1. F!InOrder(f)
          BY <2>2
        <4>2. \A x \in F!Folder \ archiver[k].plan : x.family = f =>
                (x \in F!There(f) <=> F!Recorded(x, IF SchemaOf[f] \in F!Schemas(k) THEN archiver[k].original[SchemaOf[f]] ELSE index[SchemaOf[f]]))
          BY <3>2, <4>1 DEF F!InOrder
        <4>3. \A x \in archiver[k].plan : x.family = f => ~F!Recorded(x, archiver[k].original[SchemaOf[f]])
          BY <3>1, <3>2, <3>3, <4>1 DEF F!InOrder, F!Schemas
        <4>4. \A x \in F!There(f) \ archiver[k].plan, y \in F!Of(f) : y \in F!There(f) \ archiver[k].plan \/ x.rev < y.rev
          <5>1. \A y \in F!Of(f) : (y \in F!Here(f) \/ y \in F!There(f)) /\ y.family = f
            BY DEF F!Of, F!Here, F!There
          <5> QED
            BY <3>3, <4>1, <5>1 DEF F!InOrder
        <4>5. ASSUME NEW x \in archiver[k].plan, NEW y \in F!Here(f) \ archiver[k].plan, x.family = f
              PROVE  x.rev < y.rev
          <5>1. y \in F!Visible /\ y.family = f /\ y \in F!Folder /\ x \in F!Visible /\ x \in F!Folder
            BY <3>1 DEF F!Here, F!Of, F!Visible
          <5>2. archiver[k].seen = F!Families(archiver[k].plan)
            BY <2>4 DEF F!Stale
          <5>3. y \in archiver[k].seen
            BY <4>5, <5>1, <5>2 DEF F!Families
          <5>4. ~(y.rev < x.rev)
            BY <2>1, <4>5, <5>1, <5>3 DEF F!PlanIsLow
          <5>5. y.rev # x.rev
            <6>1. F!FamilyValid(f)
              BY <2>4 DEF F!Stale, F!TreeValid
            <6> QED
              BY <4>5, <5>1, <6>1 DEF F!FamilyValid
          <5>6. x.rev \in 1 .. MaxRevision /\ y.rev \in 1 .. MaxRevision
            BY <5>1 DEF F!Folder
          <5> QED
            BY <5>4, <5>5, <5>6, FolderFacts
        <4> QED
          BY <1>1, <1>2, <1>5, <4>2, <4>3, <4>4, <4>5 DEF F!Sorted, F!Schemas
      <3> QED
        BY <1>1, <1>4, <2>2, <2>4, <3>4, <3>5, <3>6, <3>7 DEF F!Accounted
    <2> QED
      BY <2>3, <2>4
  <1> QED
    BY <1>1, <1>2, <1>3, <1>6, ArchiverKeeps

\* Folders go between the tree and the archive, none is lost.
Transfer(k) ==
    \A x \in F!Folder :
        /\ visible'[x] # None \/ archived'[x] # None <=> visible[x] # None \/ archived[x] # None
        /\ visible'[x] # None /\ archived'[x] # None => visible[x] # None /\ archived[x] # None
        /\ x \notin archiver[k].plan => (visible'[x] # None <=> visible[x] # None) /\ (archived'[x] # None <=> archived[x] # None)

LEMMA Transferred ==
    ASSUME NEW k, Transfer(k), NEW f
    PROVE  /\ F!Of(f)' = F!Of(f)
           /\ F!Here(f)' \ archiver[k].plan = F!Here(f) \ archiver[k].plan
           /\ F!There(f)' \ archiver[k].plan = F!There(f) \ archiver[k].plan
           /\ F!Here(f) \cap F!There(f) = {} => F!Here(f)' \cap F!There(f)' = {}
    BY DEF Transfer, F!Of, F!Here, F!There

\* A step of an archive that has begun to move folders, and what it keeps.
ArchiverWorks(k) ==
    /\ archiver[k].pc \in F!Moving
    /\ UNCHANGED <<author, raced>> /\ \A l \in Archiver \ {k} : archiver'[l] = archiver[l]
    /\ archiver'[k].plan = archiver[k].plan /\ archiver'[k].payloads = archiver[k].payloads
    /\ archiver'[k].original = archiver[k].original
    /\ Transfer(k)

LEMMA WorksFacts ==
    ASSUME F!RestInv, NEW k \in Archiver, ArchiverWorks(k)
    PROVE  /\ F!Schemas(k)' = F!Schemas(k) /\ \A s : F!Planned(k, s)' = F!Planned(k, s)
           /\ F!Drafts' = F!Drafts
           /\ F!At(F!Moving) = {k}
           /\ \A pcs : "over" \notin pcs => F!At(pcs)' = (IF archiver'[k].pc \in pcs THEN {k} ELSE {})
           /\ \A f : F!PlansOf(f) = {x \in archiver[k].plan : x.family = f}
           /\ \A f : F!PlansOf(f)' \subseteq F!PlansOf(f)
  <1>1. F!Alone /\ archiver[k].pc # "over" /\ archiver[k].pc \in F!Moving
    BY NotMoving DEF F!RestInv, ArchiverWorks
  <1>2. /\ \A f : F!PlansOf(f) = {x \in archiver[k].plan : x.family = f}
        /\ F!At(F!Moving) = {k}
    BY <1>1, SoleArchiver, NotMoving
  <1>3. /\ \A f : F!PlansOf(f)' = {x \in archiver'[k].plan : x.family = f /\ archiver'[k].pc # "over"}
        /\ \A pcs : "over" \notin pcs => F!At(pcs)' = (IF archiver'[k].pc \in pcs THEN {k} ELSE {})
    BY <1>1, SoleArchiverNext DEF ArchiverWorks
  <1>4. F!Schemas(k)' = F!Schemas(k) /\ (\A s : F!Planned(k, s)' = F!Planned(k, s)) /\ F!Drafts' = F!Drafts
    BY DEF ArchiverWorks, F!Schemas, F!Planned, F!Drafts
  <1> QED
    BY <1>2, <1>3, <1>4 DEF ArchiverWorks

\* The part of the account that no step of an archive touches.
LEMMA WorksKeep ==
    ASSUME F!RestInv, ~F!Broken, NEW k \in Archiver, ArchiverWorks(k)
    PROVE  /\ F!Indexes(k)
           /\ \A f \in Family \ raced : /\ F!Numbered(f) /\ F!Sorted(k, f) /\ F!Extent(k, f)
                                        /\ F!Numbered(f)' /\ F!DraftAlone(f)'
           /\ (archiver'[k].pc \in F!Moving \cup {"over"} => F!BaseStays')
  <1>1. F!Accounted /\ k \in F!At(F!Moving)
    BY WorksFacts DEF F!RestInv
  <1>2. F!Indexes(k) /\ \A f \in Family \ raced : F!Numbered(f) /\ F!DraftAlone(f) /\ F!Sorted(k, f) /\ F!Extent(k, f)
    BY <1>1 DEF F!Accounted
  <1>3. ASSUME NEW f \in Family \ raced
        PROVE  F!Numbered(f)' /\ F!DraftAlone(f)'
    <2>1. Transfer(k) /\ F!Drafts' = F!Drafts
      BY WorksFacts DEF ArchiverWorks
    <2>2. F!Of(f)' = F!Of(f) /\ F!Here(f)' \cap F!There(f)' = {}
      BY <1>2, <2>1, Transferred DEF F!Numbered
    <2>3. F!Settled(f)' = F!Settled(f)
      BY <2>1, <2>2 DEF F!Settled
    <2>4. F!There(f)' \subseteq F!There(f) \cup F!PlansOf(f)
      <3>1. F!There(f)' \ archiver[k].plan \subseteq F!There(f)
        BY <2>1, Transferred
      <3>2. \A x \in F!There(f)' : x.family = f
        BY DEF F!There, F!Of
      <3> QED
        BY <3>1, <3>2, WorksFacts
    <2>5. F!PlansOf(f)' \subseteq F!PlansOf(f)
      BY WorksFacts
    <2>6. F!DraftAlone(f)'
      BY <1>2, <2>1, <2>2, <2>4, <2>5 DEF F!DraftAlone
    <2> QED
      BY <1>2, <2>2, <2>3, <2>6 DEF F!Numbered
  <1>4. ASSUME archiver'[k].pc \in F!Moving \cup {"over"}
        PROVE  F!BaseStays'
    <2>1. UNCHANGED <<author, raced>> /\ \A f : F!Of(f)' = F!Of(f)
      BY Transferred DEF ArchiverWorks
    <2>2. F!At(F!Moving)' \subseteq {k} /\ archiver'[k].plan = archiver[k].plan
      BY WorksFacts, NotMoving DEF ArchiverWorks
    <2> QED
      BY <1>1, <2>1, <2>2 DEF F!Accounted, F!BaseStays
  <1> QED
    BY <1>2, <1>3, <1>4

\* It goes on.
LEMMA ArchiverGoesOn ==
    ASSUME F!RestInv, ~F!Broken, NEW k \in Archiver, ArchiverWorks(k), archiver'[k].pc \in F!Moving,
           \A f \in Family \ raced : SchemaOf[f] \notin F!Schemas(k) => index'[SchemaOf[f]] = index[SchemaOf[f]],
           F!Indexes(k)', \A f \in Family \ raced : F!Extent(k, f)'
    PROVE  F!Accounted'
  <1>1. F!At(F!Moving)' = {k} /\ F!At({"check"})' = {}
    BY WorksFacts, NotMoving DEF F!Moving
  <1>2. ASSUME NEW f \in Family \ raced PROVE F!Sorted(k, f)'
    <2>1. F!Sorted(k, f) /\ Transfer(k)
      BY WorksKeep DEF ArchiverWorks
    <2>2. /\ F!Of(f)' = F!Of(f)
          /\ F!Here(f)' \ archiver[k].plan = F!Here(f) \ archiver[k].plan
          /\ F!There(f)' \ archiver[k].plan = F!There(f) \ archiver[k].plan
      BY <2>1, Transferred
    <2>3. archiver'[k].plan = archiver[k].plan /\ archiver'[k].original = archiver[k].original /\ F!Schemas(k)' = F!Schemas(k)
      BY WorksFacts DEF ArchiverWorks
    <2>4. \A x \in F!Folder \ archiver'[k].plan : x.family = f =>
            (x \in F!There(f)' <=> F!Recorded(x, IF SchemaOf[f] \in F!Schemas(k)' THEN archiver'[k].original[SchemaOf[f]] ELSE index'[SchemaOf[f]]))
      <3>1. \A x \in F!Folder \ archiver[k].plan : x \in F!There(f)' <=> x \in F!There(f)
        BY <2>2
      <3> QED
        BY <2>1, <2>3, <3>1 DEF F!Sorted
    <2>5. /\ \A x \in archiver'[k].plan : x.family = f => ~F!Recorded(x, archiver'[k].original[SchemaOf[f]])
          /\ \A x \in F!There(f)' \ archiver'[k].plan, y \in F!Of(f)' : y \in F!There(f)' \ archiver'[k].plan \/ x.rev < y.rev
          /\ \A x \in archiver'[k].plan, y \in F!Here(f)' \ archiver'[k].plan : x.family = f => x.rev < y.rev
      BY <2>1, <2>2, <2>3 DEF F!Sorted
    <2> QED
      BY <2>4, <2>5 DEF F!Sorted
  <1>3. \A f \in Family \ raced : F!Numbered(f)' /\ F!DraftAlone(f)'
    BY WorksKeep
  <1>4. F!BaseStays' /\ raced' = raced
    BY WorksKeep DEF ArchiverWorks
  <1> QED
    BY <1>1, <1>2, <1>3, <1>4 DEF F!Accounted

\* It ends: of each schema directory either the index names the plan and the
\* folders are in the archive, or the index is as it was and they are not.
LEMMA ArchiverComesOut ==
    ASSUME F!RecordInv, F!RestInv, ~F!Broken, NEW k \in Archiver, ArchiverWorks(k), archiver'[k].pc = "over",
           \A f \in Family \ raced :
               LET s == SchemaOf[f]
                   mine == {x \in archiver[k].plan : x.family = f} IN
               IF s \in F!Schemas(k)
                 THEN \/ index'[s] = F!Planned(k, s) /\ mine \subseteq F!There(f)'
                      \/ index'[s] = archiver[k].original[s] /\ mine \cap F!There(f)' = {}
                 ELSE index'[s] = index[s]
    PROVE  F!Accounted'
  <1>1. F!At(F!Moving)' = {} /\ F!At({"check"})' = {}
    BY WorksFacts, NotMoving
  <1>2. ASSUME NEW f \in Family \ raced PROVE F!InOrder(f)'
    <2>1. PICK s : s = SchemaOf[f]
      OBVIOUS
    <2>2. PICK mine : mine = {x \in archiver[k].plan : x.family = f}
      OBVIOUS
    <2>3. PICK index2 : index2 = index'[s]
      OBVIOUS
    <2>4. /\ F!Sorted(k, f) /\ Transfer(k) /\ F!Numbered(f)'
      BY WorksKeep DEF ArchiverWorks
    <2>5. /\ F!Of(f)' = F!Of(f)
          /\ F!Here(f)' \ archiver[k].plan = F!Here(f) \ archiver[k].plan
          /\ F!There(f)' \ archiver[k].plan = F!There(f) \ archiver[k].plan
          /\ F!Here(f)' \cap F!There(f)' = {}
      BY <2>4, Transferred DEF F!Numbered
    <2>6. \A x \in archiver[k].plan : x.family = f => s \in F!Schemas(k)
      BY <2>1 DEF F!Schemas
    <2>7. IF s \in F!Schemas(k)
            THEN \/ index2 = F!Planned(k, s) /\ mine \subseteq F!There(f)'
                 \/ index2 = archiver[k].original[s] /\ mine \cap F!There(f)' = {}
            ELSE index2 = index[s]
      BY <2>1, <2>2, <2>3
    <2>8. archiver[k].plan = {p.folder : p \in archiver[k].payloads}
      BY ArchiverFacts DEF ArchiverFits
    <2>9. \A x : F!Recorded(x, F!Planned(k, s)) <=>
                 F!Recorded(x, archiver[k].original[s]) \/ (x \in archiver[k].plan /\ SchemaOf[x.family] = s)
      BY <2>8 DEF F!Recorded, F!Planned
    <2>10. ASSUME NEW x \in F!Folder, x.family = f
           PROVE  x \in F!There(f)' <=> F!Recorded(x, index2)
      <3>1. CASE x \notin archiver[k].plan
        <4>1. x \in F!There(f)' <=> x \in F!There(f)
          BY <2>5, <3>1
        <4>2. x \in F!There(f) <=> F!Recorded(x, IF s \in F!Schemas(k) THEN archiver[k].original[s] ELSE index[s])
          BY <2>1, <2>4, <2>10, <3>1 DEF F!Sorted
        <4>3. F!Recorded(x, F!Planned(k, s)) <=> F!Recorded(x, archiver[k].original[s])
          BY <2>9, <3>1
        <4> QED
          BY <2>7, <4>1, <4>2, <4>3
      <3>2. CASE x \in archiver[k].plan
        <4>1. s \in F!Schemas(k) /\ x \in mine /\ ~F!Recorded(x, archiver[k].original[s])
          BY <2>1, <2>2, <2>4, <2>6, <2>10, <3>2 DEF F!Sorted
        <4>2. F!Recorded(x, F!Planned(k, s))
          BY <2>1, <2>9, <2>10, <3>2
        <4> QED
          BY <2>7, <4>1, <4>2
      <3> QED
        BY <3>1, <3>2
    <2>11. ASSUME NEW x \in F!There(f)', NEW y \in F!Here(f)'
           PROVE  x.rev < y.rev
      <3>1. x.family = f /\ y.family = f /\ y \in F!Of(f) /\ y \notin F!There(f)'
        BY <2>5 DEF F!There, F!Here, F!Of
      <3>2. CASE x \notin archiver[k].plan
        <4>1. x \in F!There(f) \ archiver[k].plan
          BY <2>5, <3>2
        <4>2. y \notin F!There(f) \ archiver[k].plan
          BY <2>5, <3>1
        <4> QED
          BY <2>4, <3>1, <4>1, <4>2 DEF F!Sorted
      <3>3. CASE x \in archiver[k].plan
        <4>1. mine \subseteq F!There(f)'
          BY <2>2, <2>6, <2>7, <3>1, <3>3
        <4>2. y \in F!Here(f) \ archiver[k].plan
          BY <2>2, <2>5, <3>1, <4>1
        <4> QED
          BY <2>4, <3>1, <3>3, <4>2 DEF F!Sorted
      <3> QED
        BY <3>2, <3>3
    <2> QED
      BY <2>1, <2>3, <2>10, <2>11 DEF F!InOrder
  <1>3. \A f \in Family \ raced : F!Numbered(f)' /\ F!DraftAlone(f)'
    BY WorksKeep
  <1>4. F!BaseStays' /\ raced' = raced
    BY WorksKeep DEF ArchiverWorks
  <1> QED
    BY <1>1, <1>2, <1>3, <1>4 DEF F!Accounted

\* Some step of k alone, by its new pc.
LEMMA WorkKept ==
    ASSUME F!RecordInv, F!RestInv, NEW k \in Archiver, ArchiverWorks(k),
           ArchiverFits(archiver'[k]), index' \in [Schema -> SUBSET [folder : F!Folder, payload : F!Frozen]],
           ~F!Broken /\ archiver'[k].pc \notin {"inspect", "killed"} => F!Accounted'
    PROVE  F!RestInv'
  <1>1. archiver[k].pc \notin {"over", "inspect", "killed"}
    BY DEF ArchiverWorks, F!Moving
  <1> QED
    BY <1>1, ArchiverKeeps DEF ArchiverWorks

LEMMA ArchiverMoves ==
    ASSUME F!RecordInv, F!RestInv, NEW k \in Archiver, F!MoveEntry(k)
    PROVE  F!RestInv'
  <1>1. PICK x \in F!Left(k) :
          /\ F!Movable(x) /\ F!ToArchive({x})
          /\ archiver' = [archiver EXCEPT ![k].moved = @ \cup {x},
                                          ![k].pc = IF F!Left(k) = {x} THEN "index" ELSE "move"]
    BY DEF F!MoveEntry
  <1>2. archiver[k].pc = "move" /\ UNCHANGED <<index, author, raced>>
    BY DEF F!MoveEntry
  <1>3. /\ ArchiverFits(archiver[k]) /\ DOMAIN archiver = Archiver /\ F!Schemas(k) \subseteq Schema
        /\ index \in [Schema -> SUBSET [folder : F!Folder, payload : F!Frozen]]
    BY ArchiverFacts
  <1>4. x \in archiver[k].plan /\ x \in F!Folder
    BY <1>3 DEF F!Left, ArchiverFits
  <1>5. /\ \A l \in Archiver \ {k} : archiver'[l] = archiver[l]
        /\ DOMAIN archiver'[k] = DOMAIN archiver[k]
        /\ archiver'[k].plan = archiver[k].plan /\ archiver'[k].payloads = archiver[k].payloads
        /\ archiver'[k].seen = archiver[k].seen /\ archiver'[k].written = archiver[k].written
        /\ archiver'[k].original = archiver[k].original /\ archiver'[k].moved = archiver[k].moved \cup {x}
        /\ archiver'[k].pc = IF F!Left(k) = {x} THEN "index" ELSE "move"
    BY <1>1, <1>3 DEF ArchiverFits
  <1>6. ArchiverFits(archiver'[k])
    BY <1>3, <1>4, <1>5 DEF ArchiverFits
  <1>7. \A y \in F!Folder : /\ visible'[y] # None <=> visible[y] # None /\ y # x
                            /\ archived'[y] # None <=> archived[y] # None \/ y = x
    BY <1>1 DEF F!ToArchive, F!Movable
  <1>8. ArchiverWorks(k)
    BY <1>1, <1>2, <1>4, <1>5, <1>7 DEF ArchiverWorks, Transfer, F!Moving, F!Movable
  <1>9. ASSUME ~F!Broken PROVE F!Accounted'
    <2>1. F!Indexes(k) /\ \A f \in Family \ raced : F!Extent(k, f)
      BY <1>8, <1>9, WorksKeep
    <2>2. F!Indexes(k)'
      <3>1. archiver[k].written = {} /\ \A s \in F!Schemas(k) : index[s] = archiver[k].original[s]
        BY <1>2, <2>1 DEF F!Indexes
      <3>2. F!Schemas(k)' = F!Schemas(k)
        BY <1>8, WorksFacts
      <3>3. F!Left(k) = {x} => archiver'[k].moved = archiver'[k].plan
        BY <1>3, <1>5 DEF F!Left, ArchiverFits
      <3> QED
        BY <1>2, <1>5, <3>1, <3>2, <3>3 DEF F!Indexes
    <2>3. ASSUME NEW f \in Family \ raced PROVE F!Extent(k, f)'
      <3>1. {z \in archiver[k].plan : z.family = f} \cap F!There(f) = {z \in archiver[k].plan : z.family = f} \cap archiver[k].moved
        BY <1>2, <2>1 DEF F!Extent
      <3>2. F!There(f)' = F!There(f) \cup (IF x.family = f THEN {x} ELSE {})
        BY <1>4, <1>7 DEF F!There, F!Of
      <3>3. {z \in archiver[k].plan : z.family = f} \cap F!There(f)' = {z \in archiver[k].plan : z.family = f} \cap archiver'[k].moved
        BY <1>4, <1>5, <3>1, <3>2
      <3>4. archiver'[k].pc # "recover" /\ archiver'[k].plan = archiver[k].plan
        BY <1>5
      <3> QED
        BY <3>3, <3>4 DEF F!Extent
    <2>4. archiver'[k].pc \in F!Moving
      BY <1>5 DEF F!Moving
    <2> QED
      BY <1>2, <1>8, <1>9, <2>2, <2>3, <2>4, ArchiverGoesOn
  <1> QED
    BY <1>2, <1>3, <1>6, <1>8, <1>9, WorkKept

LEMMA ArchiverFails ==
    ASSUME F!RecordInv, F!RestInv, NEW k \in Archiver, F!MoveFails(k) \/ F!IndexFails(k)
    PROVE  F!RestInv'
  <1>1. archiver[k].pc \in {"move", "index"} /\ UNCHANGED <<visible, archived, index, author, raced>> /\ F!ArchiverGoes(k, "restore")
    BY DEF F!MoveFails, F!IndexFails, F!tree
  <1>2. /\ archiver'[k].pc = "restore" /\ ArchiverFits(archiver'[k]) /\ \A o \in Archiver \ {k} : archiver'[o] = archiver[o]
        /\ archiver'[k].plan = archiver[k].plan /\ archiver'[k].payloads = archiver[k].payloads
        /\ archiver'[k].original = archiver[k].original /\ archiver'[k].moved = archiver[k].moved
    BY <1>1, ArchiverActs
  <1>3. ArchiverWorks(k)
    BY <1>1, <1>2 DEF ArchiverWorks, Transfer, F!Moving
  <1>4. ASSUME ~F!Broken PROVE F!Accounted'
    <2>1. F!Indexes(k) /\ \A f \in Family \ raced : F!Extent(k, f)
      BY <1>3, <1>4, WorksKeep
    <2>2. /\ F!Schemas(k)' = F!Schemas(k) /\ \A s : F!Planned(k, s)' = F!Planned(k, s)
      BY <1>3, WorksFacts
    <2>3. F!Indexes(k)'
      <3>1. \A s \in F!Schemas(k) : index[s] # archiver[k].original[s] =>
              index[s] = F!Planned(k, s) /\ archiver[k].moved = archiver[k].plan
        BY <1>1, <2>1 DEF F!Indexes
      <3> QED
        BY <1>1, <1>2, <2>2, <3>1 DEF F!Indexes
    <2>4. ASSUME NEW f \in Family \ raced PROVE F!Extent(k, f)'
      <3>1. {z \in archiver[k].plan : z.family = f} \cap F!There(f) = {z \in archiver[k].plan : z.family = f} \cap archiver[k].moved
        BY <1>1, <2>1 DEF F!Extent
      <3>2. F!There(f)' = F!There(f)
        BY <1>1 DEF F!There, F!Of
      <3> QED
        BY <1>2, <3>1, <3>2 DEF F!Extent
    <2>5. archiver'[k].pc \in F!Moving
      BY <1>2 DEF F!Moving
    <2> QED
      BY <1>1, <1>3, <1>4, <2>3, <2>4, <2>5, ArchiverGoesOn
  <1>5. index' \in [Schema -> SUBSET [folder : F!Folder, payload : F!Frozen]]
    BY <1>1, ArchiverFacts
  <1> QED
    BY <1>2, <1>3, <1>4, <1>5, WorkKept

\* What a plan makes of an index is an index.
LEMMA PlannedFits ==
    ASSUME F!RecordInv, F!RestInv, NEW k \in Archiver, NEW s \in Schema
    PROVE  /\ F!Planned(k, s) \in SUBSET [folder : F!Folder, payload : F!Frozen]
           /\ archiver[k].original[s] \in SUBSET [folder : F!Folder, payload : F!Frozen]
    BY ArchiverFacts DEF ArchiverFits, F!Planned

LEMMA ArchiverWrites ==
    ASSUME F!RecordInv, F!RestInv, NEW k \in Archiver, F!WriteIndex(k)
    PROVE  F!RestInv'
  <1>1. PICK s \in F!Schemas(k) \ archiver[k].written :
          /\ index' = [index EXCEPT ![s] = F!Planned(k, s)]
          /\ archiver' = [archiver EXCEPT ![k].written = @ \cup {s},
                            ![k].pc = IF archiver[k].written \cup {s} = F!Schemas(k) THEN "over" ELSE "index"]
    BY DEF F!WriteIndex
  <1>2. archiver[k].pc = "index" /\ UNCHANGED <<visible, archived, author, raced>>
    BY DEF F!WriteIndex
  <1>3. /\ ArchiverFits(archiver[k]) /\ DOMAIN archiver = Archiver /\ F!Schemas(k) \subseteq Schema
        /\ index \in [Schema -> SUBSET [folder : F!Folder, payload : F!Frozen]]
    BY ArchiverFacts
  <1>4. /\ \A l \in Archiver \ {k} : archiver'[l] = archiver[l]
        /\ DOMAIN archiver'[k] = DOMAIN archiver[k]
        /\ archiver'[k].plan = archiver[k].plan /\ archiver'[k].payloads = archiver[k].payloads
        /\ archiver'[k].seen = archiver[k].seen /\ archiver'[k].written = archiver[k].written \cup {s}
        /\ archiver'[k].original = archiver[k].original /\ archiver'[k].moved = archiver[k].moved
        /\ archiver'[k].pc = IF archiver[k].written \cup {s} = F!Schemas(k) THEN "over" ELSE "index"
    BY <1>1, <1>3 DEF ArchiverFits
  <1>5. ArchiverFits(archiver'[k])
    BY <1>3, <1>4 DEF ArchiverFits, F!Schemas
  <1>6. index' \in [Schema -> SUBSET [folder : F!Folder, payload : F!Frozen]]
    BY <1>1, <1>3, PlannedFits
  <1>7. \A t \in Schema : index'[t] = IF t = s THEN F!Planned(k, s) ELSE index[t]
    BY <1>1, <1>3
  <1>8. ArchiverWorks(k)
    BY <1>2, <1>4 DEF ArchiverWorks, Transfer, F!Moving
  <1>9. ASSUME ~F!Broken PROVE F!Accounted'
    <2>1. F!Indexes(k) /\ \A f \in Family \ raced : F!Extent(k, f)
      BY <1>8, <1>9, WorksKeep
    <2>2. /\ F!Schemas(k)' = F!Schemas(k) /\ \A t : F!Planned(k, t)' = F!Planned(k, t)
      BY <1>8, WorksFacts
    <2>3. /\ archiver[k].moved = archiver[k].plan
          /\ \A t \in F!Schemas(k) : index'[t] = IF t \in archiver'[k].written THEN F!Planned(k, t) ELSE archiver[k].original[t]
      BY <1>2, <1>3, <1>4, <1>7, <2>1 DEF F!Indexes
    <2>4. \A f \in Family : SchemaOf[f] \in Schema /\ (SchemaOf[f] \notin F!Schemas(k) => index'[SchemaOf[f]] = index[SchemaOf[f]])
      BY <1>7, FolderFacts
    <2>5. ASSUME NEW f \in Family \ raced
          PROVE  {z \in archiver[k].plan : z.family = f} \cap F!There(f)' = {z \in archiver[k].plan : z.family = f} \cap archiver[k].moved
      <3>1. {z \in archiver[k].plan : z.family = f} \cap F!There(f) = {z \in archiver[k].plan : z.family = f} \cap archiver[k].moved
        BY <1>2, <2>1 DEF F!Extent
      <3>2. F!There(f)' = F!There(f)
        BY <1>2 DEF F!There, F!Of
      <3> QED
        BY <3>1, <3>2
    <2>6. CASE archiver'[k].pc = "index"
      <3>1. F!Indexes(k)'
        BY <1>4, <2>2, <2>3, <2>6 DEF F!Indexes
      <3>2. \A f \in Family \ raced : F!Extent(k, f)'
        BY <1>4, <2>5, <2>6 DEF F!Extent
      <3>3. archiver'[k].pc \in F!Moving
        BY <2>6 DEF F!Moving
      <3> QED
        BY <1>8, <1>9, <2>4, <3>1, <3>2, <3>3, ArchiverGoesOn
    <2>7. CASE archiver'[k].pc = "over"
      <3>1. \A t \in F!Schemas(k) : index'[t] = F!Planned(k, t)
        BY <1>4, <2>3, <2>7
      <3>2. \A f \in Family \ raced : {z \in archiver[k].plan : z.family = f} \subseteq F!There(f)'
        BY <2>3, <2>5
      <3> QED
        BY <1>8, <1>9, <2>4, <2>7, <3>1, <3>2, ArchiverComesOut
    <2> QED
      BY <1>4, <2>6, <2>7
  <1> QED
    BY <1>5, <1>6, <1>8, <1>9, WorkKept

\* The unwinding: the indexes that this command wrote, the folders, and what
\* could not go back.
LEMMA ArchiverRestores ==
    ASSUME F!RecordInv, F!RestInv, NEW k \in Archiver, F!RestoreIndexes(k)
    PROVE  F!RestInv'
  <1>1. PICK changed : changed = {s \in F!Schemas(k) : index[s] # archiver[k].original[s]}
    OBVIOUS
  <1>2. PICK mine : mine = {s \in changed : index[s] = F!Planned(k, s)}
    OBVIOUS
  <1>3. PICK failed \in SUBSET mine :
          /\ index' = [s \in Schema |-> IF s \in mine \ failed THEN archiver[k].original[s] ELSE index[s]]
          /\ archiver' = [archiver EXCEPT ![k].pc = "return", ![k].kept = (changed \ mine) \cup failed]
    BY <1>1, <1>2 DEF F!RestoreIndexes
  <1>4. archiver[k].pc = "restore" /\ UNCHANGED <<visible, archived, author, raced>>
    BY DEF F!RestoreIndexes
  <1>5. /\ ArchiverFits(archiver[k]) /\ DOMAIN archiver = Archiver /\ F!Schemas(k) \subseteq Schema
        /\ index \in [Schema -> SUBSET [folder : F!Folder, payload : F!Frozen]]
    BY ArchiverFacts
  <1>6. /\ \A l \in Archiver \ {k} : archiver'[l] = archiver[l]
        /\ DOMAIN archiver'[k] = DOMAIN archiver[k]
        /\ archiver'[k].plan = archiver[k].plan /\ archiver'[k].payloads = archiver[k].payloads
        /\ archiver'[k].seen = archiver[k].seen /\ archiver'[k].written = archiver[k].written
        /\ archiver'[k].original = archiver[k].original /\ archiver'[k].moved = archiver[k].moved
        /\ archiver'[k].pc = "return" /\ archiver'[k].kept = (changed \ mine) \cup failed
    BY <1>3, <1>5 DEF ArchiverFits
  <1>7. ArchiverFits(archiver'[k])
    BY <1>5, <1>6 DEF ArchiverFits
  <1>8. index' \in [Schema -> SUBSET [folder : F!Folder, payload : F!Frozen]]
    BY <1>3, <1>5, PlannedFits
  <1>9. \A s \in Schema : index'[s] = IF s \in mine \ failed THEN archiver[k].original[s] ELSE index[s]
    BY <1>3
  <1>10. ArchiverWorks(k)
    BY <1>4, <1>6 DEF ArchiverWorks, Transfer, F!Moving
  <1>11. ASSUME ~F!Broken PROVE F!Accounted'
    <2>1. F!Indexes(k) /\ \A f \in Family \ raced : F!Extent(k, f)
      BY <1>10, <1>11, WorksKeep
    <2>2. /\ F!Schemas(k)' = F!Schemas(k) /\ \A s : F!Planned(k, s)' = F!Planned(k, s)
      BY <1>10, WorksFacts
    <2>3. \A s \in F!Schemas(k) : index[s] # archiver[k].original[s] =>
            index[s] = F!Planned(k, s) /\ archiver[k].moved = archiver[k].plan
      BY <1>4, <2>1 DEF F!Indexes
    <2>4. changed = mine /\ archiver'[k].kept = failed
      BY <1>1, <1>2, <1>6, <2>3
    <2>5. ASSUME NEW s \in F!Schemas(k)
          PROVE  IF s \in failed THEN index'[s] = F!Planned(k, s) /\ archiver[k].moved = archiver[k].plan
                                 ELSE index'[s] = archiver[k].original[s]
      BY <1>1, <1>2, <1>5, <1>9, <2>3, <2>4
    <2>6. F!Indexes(k)'
      BY <1>6, <2>2, <2>4, <2>5 DEF F!Indexes
    <2>7. ASSUME NEW f \in Family \ raced PROVE F!Extent(k, f)'
      <3>1. {z \in archiver[k].plan : z.family = f} \cap F!There(f) = {z \in archiver[k].plan : z.family = f} \cap archiver[k].moved
        BY <1>4, <2>1 DEF F!Extent
      <3>2. F!There(f)' = F!There(f)
        BY <1>4 DEF F!There, F!Of
      <3> QED
        BY <1>6, <3>1, <3>2 DEF F!Extent
    <2>8. \A f \in Family \ raced : SchemaOf[f] \notin F!Schemas(k) => index'[SchemaOf[f]] = index[SchemaOf[f]]
      BY <1>1, <1>2, <1>9, FolderFacts
    <2>9. archiver'[k].pc \in F!Moving
      BY <1>6 DEF F!Moving
    <2> QED
      BY <1>10, <1>11, <2>6, <2>7, <2>8, <2>9, ArchiverGoesOn
  <1> QED
    BY <1>7, <1>8, <1>10, <1>11, WorkKept

LEMMA ArchiverReturns ==
    ASSUME F!RecordInv, F!RestInv, NEW k \in Archiver, F!ReturnFolders(k)
    PROVE  F!RestInv'
  <1>1. PICK back : back = {x \in archiver[k].moved : SchemaOf[x.family] \notin archiver[k].kept}
    OBVIOUS
  <1>2. PICK failed \in SUBSET back :
          /\ \A x \in back \ failed : F!Returnable(x)
          /\ F!ToTree(back \ failed)
          /\ archiver' = [archiver EXCEPT
                ![k].stuck = {SchemaOf[x.family] : x \in failed},
                ![k].pc = IF failed = {} THEN "over" ELSE "recover"]
    BY <1>1 DEF F!ReturnFolders
  <1>3. archiver[k].pc = "return" /\ UNCHANGED <<index, author, raced>>
    BY DEF F!ReturnFolders
  <1>4. /\ ArchiverFits(archiver[k]) /\ DOMAIN archiver = Archiver /\ F!Schemas(k) \subseteq Schema
        /\ index \in [Schema -> SUBSET [folder : F!Folder, payload : F!Frozen]]
    BY ArchiverFacts
  <1>5. /\ \A l \in Archiver \ {k} : archiver'[l] = archiver[l]
        /\ DOMAIN archiver'[k] = DOMAIN archiver[k]
        /\ archiver'[k].plan = archiver[k].plan /\ archiver'[k].payloads = archiver[k].payloads
        /\ archiver'[k].seen = archiver[k].seen /\ archiver'[k].written = archiver[k].written
        /\ archiver'[k].original = archiver[k].original /\ archiver'[k].moved = archiver[k].moved
        /\ archiver'[k].kept = archiver[k].kept /\ archiver'[k].stuck = {SchemaOf[x.family] : x \in failed}
        /\ archiver'[k].pc = IF failed = {} THEN "over" ELSE "recover"
    BY <1>2, <1>4 DEF ArchiverFits
  <1>6. ArchiverFits(archiver'[k])
    BY <1>4, <1>5 DEF ArchiverFits
  <1>7. back \subseteq archiver[k].plan /\ archiver[k].plan \subseteq F!Folder
    BY <1>1, <1>4 DEF ArchiverFits
  <1>8. \A y \in F!Folder : /\ visible'[y] # None <=> visible[y] # None \/ y \in back \ failed
                            /\ archived'[y] # None <=> archived[y] # None /\ y \notin back \ failed
    BY <1>2 DEF F!ToTree, F!Returnable
  <1>9. ArchiverWorks(k)
    BY <1>2, <1>3, <1>5, <1>7, <1>8 DEF ArchiverWorks, Transfer, F!Moving, F!Returnable
  <1>10. ASSUME ~F!Broken PROVE F!Accounted'
    <2>1. F!Indexes(k) /\ \A f \in Family \ raced : F!Extent(k, f)
      BY <1>9, <1>10, WorksKeep
    <2>2. /\ F!Schemas(k)' = F!Schemas(k) /\ \A s : F!Planned(k, s)' = F!Planned(k, s)
      BY <1>9, WorksFacts
    <2>3. \A s \in F!Schemas(k) :
            IF s \in archiver[k].kept THEN index[s] = F!Planned(k, s) /\ archiver[k].moved = archiver[k].plan
                                      ELSE index[s] = archiver[k].original[s]
      BY <1>3, <2>1 DEF F!Indexes
    <2>4. ASSUME NEW f \in Family \ raced, NEW x \in archiver[k].plan, x.family = f
          PROVE  /\ SchemaOf[f] \in F!Schemas(k)
                 /\ x \in F!There(f)' <=> x \in archiver[k].moved /\ (SchemaOf[f] \in archiver[k].kept \/ x \in failed)
      <3>1. {z \in archiver[k].plan : z.family = f} \cap F!There(f) = {z \in archiver[k].plan : z.family = f} \cap archiver[k].moved
        BY <1>3, <2>1 DEF F!Extent
      <3>2. x \in F!There(f) <=> x \in archiver[k].moved
        BY <2>4, <3>1
      <3>3. x \in F!There(f)' <=> x \in F!There(f) /\ x \notin back \ failed
        BY <1>7, <1>8, <2>4 DEF F!There, F!Of
      <3> QED
        BY <1>1, <2>4, <3>2, <3>3 DEF F!Schemas
    <2>5. CASE failed # {}
      <3>1. archiver'[k].pc = "recover" /\ archiver'[k].pc \in F!Moving
        BY <1>5, <2>5 DEF F!Moving
      <3>2. \A x \in failed : SchemaOf[x.family] \in F!Schemas(k) \ archiver[k].kept
        BY <1>1, <1>7 DEF F!Schemas
      <3>3. F!Indexes(k)'
        BY <1>3, <1>5, <2>2, <2>3, <3>1, <3>2 DEF F!Indexes
      <3>4. ASSUME NEW f \in Family \ raced PROVE F!Extent(k, f)'
        <4>1. PICK s : s = SchemaOf[f]
          OBVIOUS
        <4>2. PICK mine : mine = {x \in archiver[k].plan : x.family = f}
          OBVIOUS
        <4>3. s \in archiver[k].kept => mine \subseteq F!There(f)'
          <5>1. SUFFICES ASSUME s \in archiver[k].kept, NEW x \in mine PROVE x \in F!There(f)'
            OBVIOUS
          <5>2. x \in archiver[k].plan /\ x.family = f /\ s \in F!Schemas(k)
            BY <2>4, <4>1, <4>2
          <5> QED
            BY <2>3, <2>4, <4>1, <5>1, <5>2
        <4>4. s \in F!Schemas(k) \ (archiver[k].kept \cup archiver'[k].stuck) => mine \cap F!There(f)' = {}
          BY <1>5, <2>4, <4>1, <4>2
        <4> QED
          BY <1>5, <2>2, <3>1, <4>1, <4>2, <4>3, <4>4 DEF F!Extent
      <3> QED
        BY <1>3, <1>9, <1>10, <3>1, <3>3, <3>4, ArchiverGoesOn
    <2>6. CASE failed = {}
      <3>1. archiver'[k].pc = "over"
        BY <1>5, <2>6
      <3>2. ASSUME NEW f \in Family \ raced
            PROVE  IF SchemaOf[f] \in F!Schemas(k)
                     THEN \/ /\ index'[SchemaOf[f]] = F!Planned(k, SchemaOf[f])
                             /\ {x \in archiver[k].plan : x.family = f} \subseteq F!There(f)'
                          \/ /\ index'[SchemaOf[f]] = archiver[k].original[SchemaOf[f]]
                             /\ {x \in archiver[k].plan : x.family = f} \cap F!There(f)' = {}
                     ELSE index'[SchemaOf[f]] = index[SchemaOf[f]]
        <4>1. CASE SchemaOf[f] \in F!Schemas(k) /\ SchemaOf[f] \in archiver[k].kept
          BY <1>3, <2>3, <2>4, <4>1
        <4>2. CASE SchemaOf[f] \in F!Schemas(k) /\ SchemaOf[f] \notin archiver[k].kept
          BY <1>3, <2>3, <2>4, <2>6, <4>2
        <4> QED
          BY <1>3, <4>1, <4>2
      <3> QED
        BY <1>9, <1>10, <3>1, <3>2, ArchiverComesOut
    <2> QED
      BY <2>5, <2>6
  <1>11. index' \in [Schema -> SUBSET [folder : F!Folder, payload : F!Frozen]]
    BY <1>3, <1>4
  <1> QED
    BY <1>6, <1>9, <1>10, <1>11, WorkKept

LEMMA ArchiverRecovers ==
    ASSUME F!RecordInv, F!RestInv, NEW k \in Archiver, F!RecoverArchive(k)
    PROVE  F!RestInv'
  <1> DEFINE of(s) == {x \in archiver[k].plan : SchemaOf[x.family] = s}
             lost(s) == \E x \in of(s) : (visible[x] = None) = (archived[x] = None)
             again == {x \in archiver[k].plan : SchemaOf[x.family] \in archiver[k].stuck /\ archived[x] = None}
  <1>1. PICK failed \in SUBSET again, unwritten \in SUBSET archiver[k].stuck :
          LET moves == {x \in again \ failed : visible[x] # None}
              broken2 == unwritten \cup {s \in archiver[k].stuck : lost(s) \/ of(s) \cap failed # {}} IN
          /\ F!ToArchive(moves)
          /\ index' = [s \in Schema |-> IF s \in archiver[k].stuck \ broken2 THEN F!Planned(k, s) ELSE index[s]]
          /\ F!ArchiverGoes(k, IF broken2 = {} THEN "over" ELSE "inspect")
    BY DEF F!RecoverArchive
  <1>2. PICK moves : moves = {x \in again \ failed : visible[x] # None}
    OBVIOUS
  <1>3. PICK bad : bad = unwritten \cup {s \in archiver[k].stuck : lost(s) \/ of(s) \cap failed # {}}
    OBVIOUS
  <1>4. /\ F!ToArchive(moves)
        /\ index' = [s \in Schema |-> IF s \in archiver[k].stuck \ bad THEN F!Planned(k, s) ELSE index[s]]
        /\ F!ArchiverGoes(k, IF bad = {} THEN "over" ELSE "inspect")
    BY <1>1, <1>2, <1>3
  <1>5. archiver[k].pc = "recover" /\ UNCHANGED <<author, raced>>
    BY DEF F!RecoverArchive
  <1>6. /\ ArchiverFits(archiver[k]) /\ DOMAIN archiver = Archiver /\ F!Schemas(k) \subseteq Schema
        /\ index \in [Schema -> SUBSET [folder : F!Folder, payload : F!Frozen]]
    BY ArchiverFacts
  <1>7. /\ \A l \in Archiver \ {k} : archiver'[l] = archiver[l]
        /\ archiver'[k].plan = archiver[k].plan /\ archiver'[k].payloads = archiver[k].payloads
        /\ archiver'[k].original = archiver[k].original
        /\ archiver'[k].pc = (IF bad = {} THEN "over" ELSE "inspect") /\ ArchiverFits(archiver'[k])
    <2>1. PICK l : l = IF bad = {} THEN "over" ELSE "inspect"
      OBVIOUS
    <2>2. F!ArchiverGoes(k, l) /\ l \notin {"idle", "check"}
      BY <1>4, <2>1
    <2> QED
      BY <2>1, <2>2, ArchiverActs
  <1>8. \A y \in F!Folder : /\ visible'[y] # None <=> visible[y] # None /\ y \notin moves
                            /\ archived'[y] # None <=> archived[y] # None \/ y \in moves
    BY <1>2, <1>4 DEF F!ToArchive
  <1>9. moves \subseteq archiver[k].plan /\ \A x \in moves : visible[x] # None /\ archived[x] = None
    BY <1>2
  <1>10. ArchiverWorks(k)
    BY <1>5, <1>7, <1>8, <1>9 DEF ArchiverWorks, Transfer, F!Moving
  <1>11. index' \in [Schema -> SUBSET [folder : F!Folder, payload : F!Frozen]]
    BY <1>4, <1>6, PlannedFits
  <1>12. ASSUME ~F!Broken, bad = {} PROVE F!Accounted'
    <2>1. F!Indexes(k) /\ \A f \in Family \ raced : F!Extent(k, f)
      BY <1>10, <1>12, WorksKeep
    <2>2. /\ archiver[k].stuck \subseteq F!Schemas(k) \ archiver[k].kept
          /\ \A s \in F!Schemas(k) :
               IF s \in archiver[k].kept THEN index[s] = F!Planned(k, s) ELSE index[s] = archiver[k].original[s]
      BY <1>5, <2>1 DEF F!Indexes
    <2>3. \A s \in Schema : index'[s] = IF s \in archiver[k].stuck THEN F!Planned(k, s) ELSE index[s]
      BY <1>4, <1>12
    <2>4. \A x \in archiver[k].plan : SchemaOf[x.family] \in archiver[k].stuck =>
             x \notin failed /\ ((visible[x] # None) <=> (archived[x] = None))
      <3>1. \A s \in archiver[k].stuck : ~lost(s) /\ of(s) \cap failed = {}
        BY <1>3, <1>12
      <3> QED
        BY <3>1
    <2>5. ASSUME NEW x \in archiver[k].plan, SchemaOf[x.family] \in archiver[k].stuck
          PROVE  archived'[x] # None
      <3>1. x \in F!Folder
        BY <1>6 DEF ArchiverFits
      <3>2. CASE archived[x] # None
        BY <1>8, <3>1, <3>2
      <3>3. CASE archived[x] = None
        <4>1. x \in moves
          BY <1>2, <2>4, <2>5, <3>3
        <4> QED
          BY <1>8, <3>1, <4>1
      <3> QED
        BY <3>2, <3>3
    <2>6. ASSUME NEW f \in Family \ raced
          PROVE  IF SchemaOf[f] \in F!Schemas(k)
                   THEN \/ /\ index'[SchemaOf[f]] = F!Planned(k, SchemaOf[f])
                           /\ {x \in archiver[k].plan : x.family = f} \subseteq F!There(f)'
                        \/ /\ index'[SchemaOf[f]] = archiver[k].original[SchemaOf[f]]
                           /\ {x \in archiver[k].plan : x.family = f} \cap F!There(f)' = {}
                   ELSE index'[SchemaOf[f]] = index[SchemaOf[f]]
      <3>1. PICK s : s = SchemaOf[f]
        OBVIOUS
      <3>2. PICK mine : mine = {x \in archiver[k].plan : x.family = f}
        OBVIOUS
      <3>3. s \in Schema
        BY <3>1, FolderFacts
      <3>4. /\ s \in archiver[k].kept => mine \subseteq F!There(f)
            /\ s \in F!Schemas(k) \ (archiver[k].kept \cup archiver[k].stuck) => mine \cap F!There(f) = {}
        BY <1>5, <2>1, <3>1, <3>2 DEF F!Extent
      <3>5. \A x \in F!Folder : x \in F!There(f)' <=> x.family = f /\ archived'[x] # None
        BY DEF F!There, F!Of
      <3>6. \A x \in F!Folder : x \in F!There(f) <=> x.family = f /\ archived[x] # None
        BY DEF F!There, F!Of
      <3>7. mine \subseteq F!Folder /\ \A x \in mine : x \in archiver[k].plan /\ x.family = f
        BY <1>6, <3>2 DEF ArchiverFits
      <3>8. CASE s \in archiver[k].stuck
        <4>1. index'[s] = F!Planned(k, s) /\ s \in F!Schemas(k)
          BY <2>2, <2>3, <3>3, <3>8
        <4>2. mine \subseteq F!There(f)'
          BY <2>5, <3>1, <3>5, <3>7, <3>8
        <4> QED
          BY <3>1, <3>2, <4>1, <4>2
      <3>9. CASE s \in F!Schemas(k) /\ s \in archiver[k].kept
        <4>1. index'[s] = F!Planned(k, s)
          BY <2>2, <2>3, <3>3, <3>9
        <4>2. mine \subseteq F!There(f)'
          BY <1>8, <3>4, <3>5, <3>6, <3>7, <3>9
        <4> QED
          BY <3>1, <3>2, <3>9, <4>1, <4>2
      <3>10. CASE s \in F!Schemas(k) \ (archiver[k].kept \cup archiver[k].stuck)
        <4>1. index'[s] = archiver[k].original[s]
          BY <2>2, <2>3, <3>3, <3>10
        <4>2. \A x \in mine : x \notin moves
          BY <1>2, <3>1, <3>7, <3>10
        <4>3. mine \cap F!There(f)' = {}
          BY <1>8, <3>4, <3>5, <3>6, <3>7, <3>10, <4>2
        <4> QED
          BY <3>1, <3>2, <3>10, <4>1, <4>3
      <3>11. CASE s \notin F!Schemas(k)
        BY <2>2, <2>3, <3>1, <3>3, <3>11
      <3> QED
        BY <3>8, <3>9, <3>10, <3>11
    <2> QED
      BY <1>7, <1>10, <1>12, <2>6, ArchiverComesOut
  <1> QED
    BY <1>7, <1>10, <1>11, <1>12, WorkKept

LEMMA RestArchiver ==
    ASSUME F!RecordInv, F!RestInv, NEW k \in Archiver, F!ArchiverSteps(k) \/ F!KillArchiver(k)
    PROVE  F!RestInv'
    BY ArchiverPlans, ArchiverChecks, ArchiverMoves, ArchiverFails, ArchiverWrites, ArchiverRestores,
       ArchiverReturns, ArchiverRecovers, ArchiverKilled DEF F!ArchiverSteps

-----------------------------------------------------------------------------
(* All steps, and what the account says of the tree *)

LEMMA RestInit ==
    ASSUME F!OneOfAKind, F!Init
    PROVE  F!RestInv
  <1>1. PICK cast \in Casts :
          LET start(p) == IF p \in cast THEN "idle" ELSE "over" IN
          /\ author = [a \in Author |-> F!Idle(start(a))]
          /\ archiver = [k \in Archiver |-> [pc |-> start(k), plan |-> {}, payloads |-> {}, seen |-> {},
                                      flag |-> FALSE, original |-> index, moved |-> {}, written |-> {},
                                      kept |-> {}, stuck |-> {}]]
    BY DEF F!Init
  <1>2. \A a \in Author : author[a].pc = IF a \in cast THEN "idle" ELSE "over"
    BY <1>1 DEF F!Idle
  <1>3. \A k \in Archiver : archiver[k] = [pc |-> IF k \in cast THEN "idle" ELSE "over", plan |-> {}, payloads |-> {}, seen |-> {},
                                      flag |-> FALSE, original |-> index, moved |-> {}, written |-> {},
                                      kept |-> {}, stuck |-> {}]
    BY <1>1
  <1>4. \A k \in Archiver : archiver[k].pc = (IF k \in cast THEN "idle" ELSE "over") /\ archiver[k].plan = {}
    <2> TAKE k \in Archiver
    <2> DEFINE first == IF k \in cast THEN "idle" ELSE "over"
    <2>1. archiver[k] = [pc |-> first, plan |-> {}, payloads |-> {}, seen |-> {},
                         flag |-> FALSE, original |-> index, moved |-> {}, written |-> {},
                         kept |-> {}, stuck |-> {}]
      BY <1>3
    <2> HIDE DEF first
    <2>2. archiver[k].pc = first /\ archiver[k].plan = {}
      BY <2>1
    <2> QED
      BY <2>2 DEF first
  <1>5. index = [s \in Schema |-> {}] /\ raced = {} /\ archived = [x \in F!Folder |-> None]
    BY DEF F!Init
  <1>6. F!Alone
    BY <1>2, <1>4 DEF F!OneOfAKind, F!Alone
  <1>7. F!RestTypes
    <2>1. index \in [Schema -> SUBSET [folder : F!Folder, payload : F!Frozen]]
      BY <1>5
    <2>2. \A a \in Author : author[a].pc \notin {"read", "make", "write", "load"}
      BY <1>2
    <2>3. \A k \in Archiver : ArchiverFits(archiver[k])
      <3> TAKE k \in Archiver
      <3> DEFINE first == IF k \in cast THEN "idle" ELSE "over"
      <3>1. archiver[k] = [pc |-> first, plan |-> {}, payloads |-> {}, seen |-> {},
                           flag |-> FALSE, original |-> index, moved |-> {}, written |-> {},
                           kept |-> {}, stuck |-> {}]
        BY <1>3
      <3>2. first \in {"idle", "over"}
        OBVIOUS
      <3> HIDE DEF first
      <3>3. archiver[k].pc \in {"idle", "over"}
        BY <3>1, <3>2
      <3> QED
        BY <2>1, <3>1, <3>3 DEF ArchiverFits
    <2> QED
      BY <2>1, <2>2, <2>3 DEF F!RestTypes, ArchiverFits, F!Schemas
  <1>8. F!Drafts = {} /\ F!At({"check"}) = {} /\ F!At(F!Moving) = {}
    BY <1>2, <1>4, NotMoving DEF F!Drafts, F!At
  <1>9. \A f : F!There(f) = {} /\ F!Settled(f) = {x \in F!Folder : x.family = f /\ visible[x] # None}
    BY <1>5, <1>8 DEF F!There, F!Settled, F!Of
  <1>10. ASSUME NEW f \in Family PROVE F!Numbered(f)
    <2> DEFINE Opening(d, g, h) == [x \in F!Folder |->
              IF x \in {[family |-> g, rev |-> r, day |-> d] : r \in {1, 2}} \cup {[family |-> h, rev |-> 1, day |-> d]}
                THEN [F!Empty EXCEPT !.steps = F!Steps, !.checks = TRUE] ELSE None]
    <2>0. PICK d, g, h : d \in Day /\ visible = Opening(d, g, h)
      <3>1. PICK d \in Day, last \in {1, Len(FamilyOrder)} :
              LET found == {[family |-> FamilyOrder[1], rev |-> r, day |-> d] : r \in {1, 2}}
                              \cup {[family |-> FamilyOrder[last], rev |-> 1, day |-> d]} IN
              visible = [x \in F!Folder |->
                IF x \in found
                  THEN [F!Empty EXCEPT !.steps = F!Steps, !.checks = TRUE] ELSE None]
        BY DEF F!Init
      <3>2. visible = Opening(d, FamilyOrder[1], FamilyOrder[last])
        BY <3>1
      <3> HIDE DEF Opening
      <3> QED
        BY <3>2
    <2>1. d \in Day /\ visible = [x \in F!Folder |->
              IF x \in {[family |-> g, rev |-> r, day |-> d] : r \in {1, 2}} \cup {[family |-> h, rev |-> 1, day |-> d]}
                THEN [F!Empty EXCEPT !.steps = F!Steps, !.checks = TRUE] ELSE None]
      BY <2>0
    <2> HIDE DEF Opening
    <2>2. [F!Empty EXCEPT !.steps = F!Steps, !.checks = TRUE] # None
      <3>1. [F!Empty EXCEPT !.steps = F!Steps, !.checks = TRUE] \in F!Content
        <4>1. F!Steps \in 0 .. F!Steps
          BY DEF F!Steps
        <4> QED
          BY <4>1, FolderFacts DEF F!Content
      <3> QED
        BY <3>1, FolderFacts
    <2>3. F!Settled(f) = {x \in F!Folder : /\ x.family = f
              /\ x \in {[family |-> g, rev |-> r, day |-> d] : r \in {1, 2}} \cup {[family |-> h, rev |-> 1, day |-> d]}}
      BY <1>9, <2>1, <2>2
    <2>4. \A x \in F!Folder : x \in F!Settled(f) <=>
             x.family = f /\ x.day = d /\ ((f = g /\ x.rev \in {1, 2}) \/ (f = h /\ x.rev = 1))
      BY <2>3 DEF F!Folder
    <2>5. \A x, y \in F!Settled(f) : x.day = y.day
      BY <2>3, <2>4
    <2>6. \A r \in 1 .. MaxRevision : [family |-> f, rev |-> r, day |-> d] \in F!Folder
      BY <2>1 DEF F!Folder
    <2>7. \A r \in 1 .. MaxRevision : r \in {x.rev : x \in F!Settled(f)} <=> (f = g /\ r \in {1, 2}) \/ (f = h /\ r = 1)
      BY <2>3, <2>4, <2>6
    <2>8. {x.rev : x \in F!Settled(f)} \subseteq 1 .. MaxRevision
      BY <2>3 DEF F!Folder
    <2>9. \E n \in 0 .. MaxRevision : {x.rev : x \in F!Settled(f)} = 1 .. n
      <3> DEFINE revs == {x.rev : x \in F!Settled(f)}
      <3>1. revs \subseteq 1 .. MaxRevision /\ \A r \in 1 .. MaxRevision : r \in revs <=> (f = g /\ r \in {1, 2}) \/ (f = h /\ r = 1)
        BY <2>7, <2>8
      <3> HIDE DEF revs
      <3>2. CASE f = g /\ MaxRevision > 1
        <4>1. 2 \in 1 .. MaxRevision /\ 2 \in 0 .. MaxRevision
          BY <3>2, FolderFacts
        <4>2. \A r \in 1 .. MaxRevision : r \in revs <=> r \in 1 .. 2
          <5>1. \A r \in 1 .. MaxRevision : r \in revs <=> r \in {1, 2}
            BY <3>1, <3>2, <4>1, FolderFacts
          <5>2. 1 .. 2 = {1, 2}
            OBVIOUS
          <5> QED
            BY <5>1, <5>2
        <4>3. 1 .. 2 \subseteq 1 .. MaxRevision
          BY <4>1, FolderFacts
        <4>4. revs = 1 .. 2
          BY <3>1, <4>2, <4>3
        <4> QED
          BY <4>1, <4>4 DEF revs
      <3>3. CASE (f = g /\ MaxRevision = 1) \/ (f # g /\ f = h)
        <4>1. 1 \in 1 .. MaxRevision /\ 1 \in 0 .. MaxRevision
          BY <3>3, FolderFacts
        <4>2. \A r \in 1 .. MaxRevision : r \in revs <=> r \in 1 .. 1
          <5>1. \A r \in 1 .. MaxRevision : r \in revs <=> r \in {1}
            BY <3>1, <3>3, <4>1, FolderFacts
          <5>2. 1 .. 1 = {1}
            OBVIOUS
          <5> QED
            BY <5>1, <5>2
        <4>3. 1 .. 1 \subseteq 1 .. MaxRevision
          BY <4>1, FolderFacts
        <4>4. revs = 1 .. 1
          BY <3>1, <4>2, <4>3
        <4> QED
          BY <4>1, <4>4 DEF revs
      <3>4. CASE f # g /\ f # h
        <4>1. revs = 1 .. 0 /\ 0 \in 0 .. MaxRevision
          BY <3>1, <3>4, FolderFacts
        <4> QED
          BY <4>1 DEF revs
      <3> QED
        BY <3>2, <3>3, <3>4, FolderFacts
    <2> QED
      BY <1>9, <2>5, <2>9 DEF F!Numbered
  <1>11. ASSUME NEW f \in Family PROVE F!DraftAlone(f) /\ F!InOrder(f)
    <2>1. index[SchemaOf[f]] = {}
      BY <1>5, FolderFacts
    <2> QED
      BY <1>8, <1>9, <2>1 DEF F!DraftAlone, F!InOrder, F!Recorded
  <1>12. F!BaseStays
    BY <1>2, <1>8 DEF F!BaseStays
  <1> QED
    BY <1>5, <1>6, <1>7, <1>8, <1>10, <1>11, <1>12 DEF F!RestInv, F!Accounted

LEMMA RestStep ==
    ASSUME F!RecordInv, F!RestInv, F!Next
    PROVE  F!RestInv'
  <1>1. CASE F!Developer
    BY <1>1, WorldStep, Unarchived DEF F!Developer
  <1>2. CASE F!Kill
    BY <1>2, RestAuthor, RestArchiver, WorldStep DEF F!Kill
  <1>3. CASE \E a \in Author : F!AuthorSteps(a)
    BY <1>3, RestAuthor
  <1>4. CASE \E k \in Archiver : F!ArchiverSteps(k)
    BY <1>4, RestArchiver
  <1>5. CASE \E c \in Applier : F!ApplierSteps(c)
    BY <1>5, WorldStep
  <1> QED
    BY <1>1, <1>2, <1>3, <1>4, <1>5 DEF F!Next

\* When every command has ended by itself, archives and indexes agree.
LEMMA RestAgrees ==
    ASSUME F!RecordInv, F!RestInv
    PROVE  F!RestIsConsistent
  <1> SUFFICES ASSUME ~F!Unfinished, ~F!Unsettled
               PROVE  /\ \A f \in Family \ raced : F!FamilyValid(f)
                      /\ \A x \in F!Folder : x.family \notin raced =>
                            (x \in F!Archived <=> \E r \in index[SchemaOf[x.family]] : r.folder = x)
    BY DEF F!RestIsConsistent
  <1>1. F!Accounted /\ F!Drafts = {} /\ F!At(F!Moving) = {}
    <2>1. ~F!Broken
      BY DEF F!Broken, F!Unfinished, F!Unsettled
    <2> QED
      BY <2>1 DEF F!RestInv, F!Drafts, F!Unfinished, F!Unsettled, F!At, F!Moving
  <1>2. ASSUME NEW f \in Family \ raced
        PROVE  F!Numbered(f) /\ F!InOrder(f) /\ F!Settled(f) = F!Of(f)
    BY <1>1, <1>2 DEF F!Accounted, F!Settled
  <1>3. ASSUME NEW x \in F!Folder, x.family \notin raced
        PROVE  x \in F!Archived <=> \E r \in index[SchemaOf[x.family]] : r.folder = x
    <2>1. x.family \in Family
      BY DEF F!Folder
    <2> QED
      BY <1>2, <1>3, <2>1 DEF F!InOrder, F!Archived, F!There, F!Of, F!Recorded
  <1>4. ASSUME NEW f \in Family \ raced PROVE F!FamilyValid(f)
    <2>1. \A x \in F!Visible : x.family = f => x \in F!Of(f) /\ x \in F!Here(f) /\ x \in F!Folder
      BY DEF F!Visible, F!Of, F!Here
    <2>2. \A x, y \in F!Visible : x.family = f /\ y.family = f /\ x.rev = y.rev => x = y
      <3> SUFFICES ASSUME NEW x \in F!Visible, NEW y \in F!Visible, x.family = f, y.family = f, x.rev = y.rev
                   PROVE  x = y
        OBVIOUS
      <3>1. x.day = y.day
        BY <1>2, <2>1 DEF F!Numbered
      <3> QED
        BY <2>1, <3>1 DEF F!Folder
    <2>3. F!ArchivedRevisions(f) = {x.rev : x \in F!There(f)}
      <3>1. index[SchemaOf[f]] \in SUBSET [folder : F!Folder, payload : F!Frozen]
        BY FolderFacts DEF F!RestInv, F!RestTypes
      <3>2. \A x \in F!Folder : x.family = f => (x \in F!There(f) <=> \E q \in index[SchemaOf[f]] : q.folder = x)
        BY <1>2 DEF F!InOrder, F!Recorded
      <3>3. \A x \in F!There(f) : x \in F!Folder /\ x.family = f
        BY DEF F!There, F!Of
      <3>4. ASSUME NEW r \in F!ArchivedRevisions(f) PROVE r \in {x.rev : x \in F!There(f)}
        <4>1. PICK q \in index[SchemaOf[f]] : q.folder.family = f /\ r = q.folder.rev
          BY <3>4 DEF F!ArchivedRevisions
        <4>2. q.folder \in F!There(f)
          BY <3>1, <3>2, <4>1
        <4> QED
          BY <4>1, <4>2
      <3>5. ASSUME NEW x \in F!There(f) PROVE x.rev \in F!ArchivedRevisions(f)
        <4>1. PICK q \in index[SchemaOf[f]] : q.folder = x
          BY <3>2, <3>3
        <4> QED
          BY <3>3, <4>1 DEF F!ArchivedRevisions
      <3> QED
        BY <3>4, <3>5
    <2>4. F!Revisions(f) = {x.rev : x \in F!Here(f)}
      BY DEF F!Revisions, F!Visible, F!Here, F!Of
    <2>5. \A a \in F!ArchivedRevisions(f), v \in F!Revisions(f) : a < v
      BY <1>2, <2>3, <2>4 DEF F!InOrder
    <2>6. F!ArchivedRevisions(f) \cup F!Revisions(f) = {x.rev : x \in F!Of(f)}
      <3>1. F!Of(f) = F!Here(f) \cup F!There(f)
        BY OfAll
      <3> QED
        BY <2>3, <2>4, <3>1
    <2>7. PICK n \in 0 .. MaxRevision : {x.rev : x \in F!Of(f)} = 1 .. n
      BY <1>2 DEF F!Numbered
    <2>8. n \in Nat /\ Cardinality(1 .. n) = n
      <3>1. n \in Nat
        BY FolderFacts
      <3> QED
        BY <3>1, FS_Interval
    <2> DEFINE all == F!ArchivedRevisions(f) \cup F!Revisions(f)
    <2>9. all = 1 .. n
      BY <2>6, <2>7
    <2>10. all = 1 .. Cardinality(all)
      BY <2>8, <2>9
    <2> QED
      <3>1. /\ \A x, y \in F!Visible : x.family = f /\ y.family = f /\ x.rev = y.rev => x = y
            /\ \A a \in F!ArchivedRevisions(f), v \in F!Revisions(f) : a < v
            /\ all = 1 .. Cardinality(all)
        BY <2>2, <2>5, <2>10
      <3>2. F!Cardinality(all) = Cardinality(all)
        BY DEF F!Cardinality, Cardinality
      <3> QED
        BY <3>1, <3>2, Zenon DEF F!FamilyValid
  <1> QED
    BY <1>3, <1>4

\* The account of the archives holds where no two authors and no two archives
\* work side by side.
RestHolds == part = "folders" => F!RecordInv /\ F!RestInv

LEMMA RestInvHolds ==
    ASSUME F!OneOfAKind
    PROVE  Spec => []RestHolds
  <1>1. Init => RestHolds
    BY RecordInit, RestInit DEF Init, InitMirror, InitFolders, InitTemplate, RestHolds
  <1>2. RestHolds /\ [Next]_vars => RestHolds'
    <2> SUFFICES ASSUME RestHolds, [Next]_vars PROVE RestHolds'
      OBVIOUS
    <2>1. CASE StepFolders
      BY <2>1, RecordStep, RestStep DEF StepFolders, RestHolds
    <2>2. CASE StepMirror \/ StepTemplate
      BY <2>2 DEF StepMirror, StepTemplate, RestHolds
    <2>3. CASE UNCHANGED vars
      <3>1. UNCHANGED <<part, visible, archived, index, author, archiver, raced>>
        BY <2>3 DEF vars
      <3>2. F!RestInv => F!RestInv'
        BY <3>1, RewritesOnly DEF SamePresence
      <3>3. F!RecordInv => F!RecordInv'
        BY <2>3 
           DEF vars, F!RecordInv, F!TypeOK, F!FolderChosen,
               F!AttemptsAreOnRecord, F!EvidenceStays, F!ChecksComeLast,
               F!NothingHalfWritten, F!Held, F!Known, F!Attempting
      <3> QED
        BY <3>1, <3>2, <3>3 DEF RestHolds
    <2> QED
      BY <2>1, <2>2, <2>3 DEF Next
  <1> QED
    BY <1>1, <1>2, PTL DEF Spec

\* Whatever of an archive fails, also its own way back, the tree that it
\* leaves when it ends by itself is one that every command accepts, and each
\* index names exactly the folders in the archive; and no command takes an
\* unfinished folder for a finished one.
THEOREM TreeConsistent ==
    ASSUME F!OneOfAKind
    PROVE  Spec => []TreeIsConsistent
  <1>1. RestHolds => TreeIsConsistent
    BY RestAgrees DEF RestHolds, TreeIsConsistent, F!TreeIsConsistent, F!RecordInv
  <1> QED
    BY <1>1, RestInvHolds, PTL

-----------------------------------------------------------------------------
(* Upgrades of the template: the files of the developer *)

LEMMA TextFacts ==
    /\ U!Lock \in U!Files /\ U!Lock \notin U!Owned /\ U!Owned \subseteq U!Files
    /\ \A p \in U!Owned : Candidate[p] \in U!Files /\ Candidate[p] \notin U!Owned /\ Candidate[p] # U!Lock
    /\ \A p, q \in U!Owned : p # q => Candidate[p] # Candidate[q]
    /\ U!Absent \in U!Content /\ U!Absent \notin U!Locks /\ U!Absent \notin Developers /\ Developers \subseteq U!Content
    /\ \A p \in U!Owned : U!Absent \notin U!OfTemplate(p) /\ U!OfTemplate(p) \subseteq U!Content
    /\ \A p \in U!Owned : \A c \in U!OfTemplate(p) : c \notin Developers /\ c[1] \in Nat \ {0} /\ c = <<c[1]>>
    /\ <<0>> \notin Developers
    BY TemplateAssumption DEF U!ConstantsFit, U!Content, U!OfTemplate

LEMMA NewFacts ==
    ASSUME NEW u \in Upgrade
    PROVE  /\ U!NewLock(u) \in U!Locks
           /\ \A p \in U!Owned : /\ U!New(u, p) \in U!Content /\ U!New(u, p) \notin Developers
                                 /\ U!New(u, p) # U!Absent => U!New(u, p) \in U!OfTemplate(p)
  <1>1. Version[u] \in U!Versions
    BY DEF U!Versions
  <1>2. \A p \in U!Owned : U!New(u, p) # U!Absent => U!New(u, p) \in U!OfTemplate(p)
    BY <1>1, TemplateAssumption
       DEF U!ConstantsFit, U!OfTemplate, U!New, U!Range
  <1> QED
    BY <1>1, <1>2, TextFacts DEF U!NewLock, U!Locks

LEMMA LockValues ==
    ASSUME NEW v \in U!Versions, NEW p \in U!Owned
    PROVE  U!Installed(U!LockOf(v), p) = IF Offers[p][v] = U!Absent THEN 0 ELSE Offers[p][v][1]
  <1>1. PICK k : k = CHOOSE j \in DOMAIN Managed : Managed[j] = p
    OBVIOUS
  <1>2. k \in DOMAIN Managed /\ Managed[k] = p
    BY <1>1 DEF U!Owned, U!Range
  <1>3. U!LockOf(v)[k] = IF Offers[p][v] = U!Absent THEN 0 ELSE Offers[p][v][1]
    BY <1>2 DEF U!LockOf
  <1>4. U!LockOf(v) # U!Absent
    BY TextFacts DEF U!Locks
  <1> QED
    BY <1>1, <1>3, <1>4 DEF U!Installed

LEMMA InstalledFacts ==
    ASSUME NEW l \in U!Locks \cup {U!Absent}, NEW p \in U!Owned
    PROVE  /\ U!Installed(l, p) \in Nat /\ <<U!Installed(l, p)>> \notin Developers
           /\ U!Installed(l, p) # 0 => <<U!Installed(l, p)>> \in U!OfTemplate(p)
           /\ <<U!Installed(l, p)>> \in U!OfTemplate(p) => U!Installed(l, p) # 0
  <1>1. \A c \in U!OfTemplate(p) : c[1] \in Nat \ {0} /\ c = <<c[1]>> /\ c \notin Developers
    BY TextFacts
  <1>2. <<0>>[1] = 0
    OBVIOUS
  <1>3. <<0>> \notin U!OfTemplate(p)
    BY <1>1, <1>2
  <1>4. CASE l = U!Absent
    <2>1. U!Installed(l, p) = 0
      BY <1>4 DEF U!Installed
    <2> QED
      BY <2>1, <1>3, TextFacts
  <1>5. CASE l # U!Absent
    <2>1. PICK v \in U!Versions : l = U!LockOf(v)
      BY <1>5 DEF U!Locks
    <2>2. Offers[p][v] # U!Absent => Offers[p][v] \in U!OfTemplate(p)
      BY TemplateAssumption DEF U!ConstantsFit, U!OfTemplate, U!Range
    <2>3. U!Installed(l, p) = IF Offers[p][v] = U!Absent THEN 0 ELSE Offers[p][v][1]
      BY <2>1, LockValues
    <2>4. CASE Offers[p][v] = U!Absent
      BY <2>3, <2>4, <1>3, TextFacts
    <2>5. CASE Offers[p][v] # U!Absent
      BY <2>2, <2>3, <2>5, <1>1
    <2> QED
      BY <2>4, <2>5
  <1> QED
    BY <1>4, <1>5

LEMMA NewInstalled ==
    ASSUME NEW u \in Upgrade, NEW p \in U!Owned
    PROVE  /\ U!New(u, p) = U!Absent => U!Installed(U!NewLock(u), p) = 0
           /\ U!New(u, p) # U!Absent => U!New(u, p) = <<U!Installed(U!NewLock(u), p)>>
  <1>1. PICK v \in U!Versions : v = Version[u]
    BY DEF U!Versions
  <1>2. U!Installed(U!LockOf(v), p) = IF Offers[p][v] = U!Absent THEN 0 ELSE Offers[p][v][1]
    BY LockValues
  <1>3. U!Installed(U!NewLock(u), p) = IF U!New(u, p) = U!Absent THEN 0 ELSE U!New(u, p)[1]
    <2>1. U!NewLock(u) = U!LockOf(v)
      BY <1>1 DEF U!NewLock
    <2>2. U!New(u, p) = Offers[p][v]
      BY <1>1 DEF U!New
    <2> QED
      BY <2>1, <2>2, <1>2
  <1>4. U!New(u, p) # U!Absent => U!New(u, p) = <<U!New(u, p)[1]>>
    <2>1. U!New(u, p) # U!Absent => U!New(u, p) \in U!OfTemplate(p)
      BY NewFacts
    <2>2. \A c \in U!OfTemplate(p) : c = <<c[1]>>
      BY TextFacts
    <2> QED
      BY <2>1, <2>2
  <1> QED
    BY <1>3, <1>4

-----------------------------------------------------------------------------
(* What the steps do to the list of mutations *)

LEMMA Appended ==
    ASSUME U!TypeOK, NEW u \in Upgrade, NEW m \in U!Mutations, done' = [done EXCEPT ![u] = Append(@, m)]
    PROVE  /\ done' \in [Upgrade -> Seq(U!Mutations)] /\ \A o \in Upgrade \ {u} : done'[o] = done[o]
           /\ Len(done'[u]) = Len(done[u]) + 1 /\ Len(done[u]) \in Nat
           /\ DOMAIN done'[u] = 1 .. Len(done[u]) + 1 /\ DOMAIN done[u] = 1 .. Len(done[u])
           /\ \A k \in DOMAIN done[u] : done'[u][k] = done[u][k] /\ done[u][k] \in U!Mutations
           /\ done'[u][Len(done[u]) + 1] = m
           /\ done'[u][Len(done'[u])] = m
  <1>1. done[u] \in Seq(U!Mutations) /\ done'[u] = Append(done[u], m)
    BY DEF U!TypeOK
  <1> QED
    BY <1>1 DEF U!TypeOK

\* A mutation is rewritten: only its notes change.
LEMMA Noted ==
    ASSUME U!TypeOK, NEW u \in Upgrade, NEW k \in DOMAIN done[u], NEW m \in U!Mutations,
           done' = [done EXCEPT ![u][k] = m],
           m.path = done[u][k].path, m.write = done[u][k].write, m.expect = done[u][k].expect,
           m.had = done[u][k].had, m.moved = done[u][k].moved, done[u][k].ready => m.ready
    PROVE  /\ done' \in [Upgrade -> Seq(U!Mutations)] /\ \A o \in Upgrade \ {u} : done'[o] = done[o]
           /\ Len(done'[u]) = Len(done[u]) /\ DOMAIN done'[u] = DOMAIN done[u]
           /\ \A j \in DOMAIN done[u] : /\ done'[u][j].path = done[u][j].path
                                        /\ done'[u][j].write = done[u][j].write
                                        /\ done'[u][j].expect = done[u][j].expect
                                        /\ done'[u][j].had = done[u][j].had
                                        /\ done'[u][j].moved = done[u][j].moved
                                        /\ done[u][j].ready => done'[u][j].ready
           /\ \A j \in DOMAIN done[u] \ {k} : done'[u][j] = done[u][j]
           /\ done'[u][k] = m
  <1>1. done[u] \in Seq(U!Mutations) /\ done[u][k] \in U!Mutations
    BY DEF U!TypeOK
  <1>3. done'[u] = [done[u] EXCEPT ![k] = m]
    BY DEF U!TypeOK
  <1>4. done'[u] \in Seq(U!Mutations) /\ Len(done'[u]) = Len(done[u]) /\ DOMAIN done'[u] = DOMAIN done[u]
    BY <1>1, <1>3
  <1> QED
    BY <1>1, <1>3, <1>4 DEF U!TypeOK

LEMMA MarkedAs ==
    ASSUME NEW m \in U!Mutations, NEW n, n = [m EXCEPT !.ready = TRUE] \/ n = [m EXCEPT !.installed = TRUE]
    PROVE  /\ n \in U!Mutations /\ n.path = m.path /\ n.write = m.write /\ n.expect = m.expect
           /\ n.had = m.had /\ n.moved = m.moved /\ (m.ready => n.ready)
    BY DEF U!Mutations

LEMMA Marked ==
    ASSUME U!TypeOK, NEW u \in Upgrade, done[u] # <<>>
    PROVE  /\ Len(done[u]) \in DOMAIN done[u] /\ U!This(u) \in U!Mutations
           /\ U!Mark(u, "ready") => done' = [done EXCEPT ![u][Len(done[u])] = [done[u][Len(done[u])] EXCEPT !.ready = TRUE]]
           /\ U!Mark(u, "installed") =>
                done' = [done EXCEPT ![u][Len(done[u])] = [done[u][Len(done[u])] EXCEPT !.installed = TRUE]]
  <1>1. done[u] \in Seq(U!Mutations)
    BY DEF U!TypeOK
  <1>2. Len(done[u]) \in DOMAIN done[u]
    BY <1>1
  <1> QED
    BY <1>1, <1>2 DEF U!Mark, U!This, U!TypeOK

-----------------------------------------------------------------------------
(* No save is lost: step by step *)

\* One upgrade goes on; what the invariant says of the others stays.
LEMMA OneUpgrade ==
    ASSUME U!SavesInv, NEW u \in Upgrade, U!TypeOK', U!SavesAreKept', U!PlanFits(u)', U!Where(u)', U!SavesAside(u)',
           \A o \in Upgrade \ {u} :
               /\ ops'[o] = ops[o] /\ done'[o] = done[o] /\ backup'[o] = backup[o] /\ pc'[o] = pc[o]
               /\ i'[o] = i[o] /\ kept'[o] = kept[o] /\ scratch'[o] = scratch[o] /\ exit'[o] = exit[o]
    PROVE  U!SavesInv'
  <1>1. ASSUME NEW o \in Upgrade \ {u}
        PROVE  U!PlanFits(o)' /\ U!Where(o)' /\ U!SavesAside(o)'
    <2>1. U!PlanFits(o) /\ U!Where(o) /\ U!SavesAside(o)
      BY DEF U!SavesInv
    <2>2. U!PlanFits(o)'
      BY <2>1 DEF U!PlanFits, U!Writes, U!New, U!NewLock
    <2>3. U!Where(o)'
      BY <2>1 DEF U!Where
    <2>4. U!SavesAside(o)'
      BY <2>1 DEF U!SavesAside, U!This
    <2> QED
      BY <2>2, <2>3, <2>4
  <1> QED
    BY <1>1 DEF U!SavesInv

\* A step that leaves the files, the backups and the plan alone
LEMMA QuietUpgrade ==
    ASSUME U!SavesInv, NEW u \in Upgrade, U!TypeOK', U!Where(u)', U!SavesAside(u)',
           UNCHANGED <<file, own, backup, ops, done>>, torn => torn',
           scratch'[u] = scratch[u] \/ ~scratch[u],
           \A o \in Upgrade \ {u} : /\ pc'[o] = pc[o] /\ i'[o] = i[o] /\ kept'[o] = kept[o]
                                    /\ scratch'[o] = scratch[o] /\ exit'[o] = exit[o]
    PROVE  U!SavesInv'
  <1>1. U!PlanFits(u)'
    BY DEF U!SavesInv, U!PlanFits, U!Writes, U!New, U!NewLock
  <1>2. U!SavesAreKept'
    <2> SUFFICES ASSUME NEW p \in U!Owned, own[p] # U!Absent, ~torn, file[p] # own[p]
                 PROVE  \E o \in Upgrade : scratch'[o] /\ backup[o][p] = own[p]
      BY DEF U!SavesAreKept
    <2>1. PICK o \in Upgrade : scratch[o] /\ backup[o][p] = own[p]
      BY DEF U!SavesInv, U!SavesAreKept
    <2> QED
      BY <2>1
  <1> QED
    BY <1>1, <1>2, OneUpgrade

\* Before the upgrade moves anything, its backups are empty.
LEMMA NothingAside ==
    ASSUME U!SavesInv, NEW u \in Upgrade, done[u] = <<>>
    PROVE  \A p \in U!Files : backup[u][p] = U!Absent
    BY DEF U!SavesInv, U!PlanFits

LEMMA SavesBefore ==
    ASSUME U!SavesInv, NEW u \in Upgrade, U!Check(u) \/ U!ReadLock(u) \/ U!Stage(u) \/ U!Sync(u)
    PROVE  U!SavesInv'
  <1>1. /\ U!TypeOK /\ U!Where(u) /\ U!SavesAside(u) /\ pc[u] \in U!Before \cup {"sync"}
    BY DEF U!SavesInv, U!Check, U!ReadLock, U!Stage, U!Sync,
           U!Before
  <1>2. /\ UNCHANGED <<U!tree, torn, backup, ops, done, i, kept, why>>
        /\ pc' \in [Upgrade -> U!Before \cup U!Working \cup U!Undoing \cup {"sync", "end"}]
        /\ pc'[u] \in {"lock", "plan", "move", "end"} /\ \A o \in Upgrade \ {u} : pc'[o] = pc[o]
        /\ \A o \in Upgrade \ {u} : exit'[o] = exit[o] /\ scratch'[o] = scratch[o]
        /\ exit' \in [Upgrade -> {0, 2, 130, 137}] /\ (pc'[u] # "end" => exit'[u] = exit[u])
        /\ scratch' \in [Upgrade -> BOOLEAN]
        /\ scratch'[u] = scratch[u] \/ scratch'[u]
        /\ pc'[u] = "move" => scratch'[u]
        /\ recorded' \in [Upgrade -> U!Locks \cup {U!Absent}]
        /\ alone' \in BOOLEAN
        /\ pc'[u] # "end" => pc[u] \in U!Before
    <2>1. CASE U!Check(u)
      <3>1. UNCHANGED <<U!tree, torn, i, recorded, ops, backup, done, scratch, why, kept>>
        BY <2>1 DEF U!Check, U!run
      <3>2. alone' \in BOOLEAN
        BY <2>1, <1>1 DEF U!Check, U!TypeOK
      <3>3. pc[u] = "check" /\ ((U!Goto(u, "lock") /\ UNCHANGED exit) \/ U!End(u, 2))
        BY <2>1 DEF U!Check
      <3>4. CASE U!Goto(u, "lock") /\ UNCHANGED exit
        BY <1>1, <3>1, <3>2, <3>3, <3>4
           DEF U!TypeOK, U!Goto, U!Before, U!Working, U!Undoing
      <3>5. CASE U!End(u, 2)
        BY <1>1, <3>1, <3>2, <3>3, <3>5
           DEF U!TypeOK, U!Goto, U!End, U!Before, U!Working,
               U!Undoing
      <3> QED
        BY <3>3, <3>4, <3>5
    <2>2. CASE U!ReadLock(u)
      BY <1>1, <2>2
         DEF U!TypeOK, U!ReadLock, U!Goto, U!End, U!Before,
             U!Working, U!Undoing, U!tree
    <2>3. CASE U!Stage(u)
      <3>1. /\ UNCHANGED <<U!tree, torn, alone, i, recorded, ops, backup, done, why, kept>>
            /\ \/ scratch' = [scratch EXCEPT ![u] = TRUE] /\ U!Goto(u, "move") /\ UNCHANGED exit
               \/ U!End(u, 2) /\ UNCHANGED scratch
            /\ pc[u] = "stage"
        BY <2>3 DEF U!Stage
      <3>2. CASE scratch' = [scratch EXCEPT ![u] = TRUE] /\ U!Goto(u, "move") /\ UNCHANGED exit
        BY <1>1, <3>1, <3>2
           DEF U!TypeOK, U!Goto, U!Before, U!Working, U!Undoing
      <3>3. CASE U!End(u, 2) /\ UNCHANGED scratch
        BY <1>1, <3>1, <3>3
           DEF U!TypeOK, U!Goto, U!End, U!Before, U!Working,
               U!Undoing
      <3> QED
        BY <3>1, <3>2, <3>3
    <2>4. CASE U!Sync(u)
      BY <1>1, <2>4
         DEF U!TypeOK, U!Sync, U!Goto, U!End, U!Before,
             U!Working, U!Undoing, U!run
    <2> QED
      BY <2>1, <2>2, <2>3, <2>4
  <1>3. U!TypeOK'
    BY <1>1, <1>2 DEF U!TypeOK, U!tree
  <1>4. U!Where(u)'
    BY <1>1, <1>2 DEF U!Where, U!Before, U!Working, U!Undoing
  <1>5. U!SavesAside(u)'
    <2>1. CASE pc'[u] = "end"
      BY <1>2, <2>1 DEF U!SavesAside, U!Undoing
    <2>2. CASE pc'[u] # "end"
      <3>1. \A p \in U!Owned : backup'[u][p] = U!Absent
        BY <1>1, <1>2, <2>2, NothingAside, TextFacts DEF U!Where
      <3> QED
        BY <3>1, TextFacts DEF U!SavesAside
    <2> QED
      BY <2>1, <2>2
  <1>6. UNCHANGED <<file, own>>
    BY <1>2 DEF U!tree
  <1> QED
    BY <1>2, <1>3, <1>4, <1>5, <1>6, QuietUpgrade

\* What the plan decides fits the files and the versions.
LEMMA Planning ==
    ASSUME U!SavesInv, NEW u \in Upgrade, NEW p \in U!Files, NEW o \in U!Operation(u, p)
    PROVE  o.path = p /\ o \in U!Operations /\ U!Writes(u, o) /\ \A q \in U!Operation(u, p) : q = o
  <1> USE DEF U!SavesInv
  <1>1. recorded[u] \in U!Locks \cup {U!Absent}
    BY DEF U!TypeOK
  <1>2. CASE p = U!Lock
    <2>1. /\ U!Operation(u, p) = {U!Op(U!Lock, U!NewLock(u), recorded[u])} /\ o = U!Op(U!Lock, U!NewLock(u), recorded[u])
      BY <1>2 DEF U!Operation
    <2> QED
      BY <2>1, <1>1, <1>2, NewFacts, TextFacts DEF U!Op, U!Operations, U!Writes
  <1>3. CASE p \in U!Owned
    <2>1. p # U!Lock /\ file[p] \in U!Content /\ U!New(u, p) \in U!Content /\ U!New(u, p) \notin Developers
      BY <1>3, TextFacts, NewFacts DEF U!TypeOK
    <2>2. CASE U!Kind(u, p) \in {"CREATE", "UPDATE"}
      <3>1. /\ U!Operation(u, p) = {U!Op(p, U!New(u, p), file[p])} /\ o = U!Op(p, U!New(u, p), file[p])
        BY <1>3, <2>1, <2>2 DEF U!Operation
      <3>2. file[p] = U!Absent \/ file[p] = <<U!Installed(recorded[u], p)>>
        BY <2>2 DEF U!Kind
      <3>3. file[p] \notin Developers
        BY <3>2, <1>1, <1>3, TextFacts, InstalledFacts
      <3> QED
        BY <3>1, <3>3, <2>1, <1>3 DEF U!Op, U!Operations, U!Writes
    <2>3. CASE U!Kind(u, p) = "DELETE"
      <3>1. /\ U!Operation(u, p) = {U!Op(p, U!Absent, file[p])} /\ o = U!Op(p, U!Absent, file[p])
        BY <1>3, <2>1, <2>3 DEF U!Operation
      <3>2. U!New(u, p) = U!Absent /\ file[p] = <<U!Installed(recorded[u], p)>>
        BY <2>3 DEF U!Kind
      <3>3. file[p] \notin Developers
        BY <3>2, <1>1, <1>3, InstalledFacts
      <3> QED
        BY <3>1, <3>2, <3>3, <2>1, <1>3, TextFacts
           DEF U!Op, U!Operations, U!Writes
    <2>4. CASE U!Kind(u, p) \notin {"CREATE", "UPDATE", "DELETE"}
      BY <1>3, <2>1, <2>4 DEF U!Operation
    <2> QED
      BY <2>2, <2>3, <2>4
  <1>4. CASE p # U!Lock /\ p \notin U!Owned
    <2>1. U!Operation(u, p) =
            {U!Op(p, U!New(u, q), U!Absent) : q \in {r \in U!Owned : Candidate[r] = p /\ U!Kind(u, r) = "CONFLICT"}}
      BY <1>4 DEF U!Operation
    <2>2. PICK q \in U!Owned : Candidate[q] = p /\ o = U!Op(p, U!New(u, q), U!Absent)
      BY <2>1
    <2>3. \A r \in U!Operation(u, p) : r = o
      BY <2>1, <2>2, TextFacts
    <2> QED
      BY <2>2, <2>3, <1>4, NewFacts, TextFacts DEF U!Op, U!Operations, U!Writes
  <1> QED
    BY <1>2, <1>3, <1>4

LEMMA SavesPlan ==
    ASSUME U!SavesInv, NEW u \in Upgrade, U!Plan(u)
    PROVE  U!SavesInv'
  <1>1. /\ U!TypeOK /\ U!Where(u) /\ U!PlanFits(u) /\ pc[u] = "plan" /\ done[u] = <<>>
    BY DEF U!SavesInv, U!Plan, U!Where, U!Before
  <1>2. /\ UNCHANGED <<U!tree, torn, alone, i, recorded, backup, done, scratch, why, kept>>
        /\ pc' \in [Upgrade -> U!Before \cup U!Working \cup U!Undoing \cup {"sync", "end"}]
        /\ pc'[u] \in {"stage", "end"} /\ \A o \in Upgrade \ {u} : pc'[o] = pc[o] /\ exit'[o] = exit[o]
        /\ exit' \in [Upgrade -> {0, 2, 130, 137}] /\ (pc'[u] # "end" => exit'[u] = exit[u])
        /\ \A o \in Upgrade \ {u} : ops'[o] = ops[o]
        /\ ops' = ops \/ ops' = [ops EXCEPT ![u] = UNION {U!Operation(u, p) : p \in U!Files}]
    <2>1. PICK all : all = UNION {U!Operation(u, p) : p \in U!Files}
      OBVIOUS
    <2>2. /\ UNCHANGED <<U!tree, torn, alone, i, recorded, backup, done, scratch, why, kept>>
          /\ \/ U!End(u, 2) /\ UNCHANGED ops
             \/ ops' = [ops EXCEPT ![u] = all] /\ U!Goto(u, "stage") /\ UNCHANGED exit
      BY <2>1 DEF U!Plan
    <2>3. CASE U!End(u, 2) /\ UNCHANGED ops
      BY <1>1, <2>2, <2>3
         DEF U!TypeOK, U!Goto, U!End, U!Before, U!Working,
             U!Undoing
    <2>4. CASE ops' = [ops EXCEPT ![u] = all] /\ U!Goto(u, "stage") /\ UNCHANGED exit
      BY <1>1, <2>1, <2>2, <2>4
         DEF U!TypeOK, U!Goto, U!Before, U!Working, U!Undoing
    <2> QED
      BY <2>2, <2>3, <2>4
  <1>3. /\ ops' \in [Upgrade -> SUBSET U!Operations]
        /\ \A o, q \in ops'[u] : o.path = q.path => o = q
        /\ \A o \in ops'[u] : U!Writes(u, o)
    <2>1. CASE ops' = ops
      BY <1>1, <2>1 DEF U!TypeOK, U!PlanFits
    <2>2. CASE ops' = [ops EXCEPT ![u] = UNION {U!Operation(u, p) : p \in U!Files}]
      <3>1. ops'[u] = UNION {U!Operation(u, p) : p \in U!Files}
        BY <2>2, <1>1 DEF U!TypeOK
      <3>2. \A o \in ops'[u] : \E p \in U!Files : o \in U!Operation(u, p)
        BY <3>1
      <3>3. \A o \in ops'[u] : o \in U!Operations /\ U!Writes(u, o) /\ o \in U!Operation(u, o.path) /\ o.path \in U!Files
        BY <3>2, Planning
      <3>4. \A o, q \in ops'[u] : o.path = q.path => o = q
        BY <3>3, Planning
      <3>5. ops' \in [Upgrade -> SUBSET U!Operations]
        BY <2>2, <3>1, <3>3, <1>1 DEF U!TypeOK
      <3> QED
        BY <3>3, <3>4, <3>5
    <2> QED
      BY <1>2, <2>1, <2>2
  <1>4. U!TypeOK'
    BY <1>1, <1>2, <1>3 DEF U!TypeOK, U!tree
  <1>5. U!PlanFits(u)'
    BY <1>1, <1>2, <1>3 DEF U!PlanFits, U!Writes, U!New, U!NewLock
  <1>6. U!Where(u)'
    BY <1>1, <1>2 DEF U!Where, U!Before, U!Working, U!Undoing
  <1>7. U!SavesAside(u)'
    BY <1>1, <1>2, NothingAside, TextFacts DEF U!SavesAside
  <1>8. U!SavesAreKept'
    BY <1>2 DEF U!SavesInv, U!SavesAreKept, U!tree
  <1> QED
    BY <1>2, <1>4, <1>5, <1>6, <1>7, <1>8, OneUpgrade

LEMMA NotedAsMoved ==
    ASSUME NEW p, NEW w, NEW e, NEW h, NEW f
    PROVE  [[path |-> p, write |-> w, expect |-> e, had |-> h, moved |-> f, ready |-> f, installed |-> f]
              EXCEPT !.moved = h] =
           [path |-> p, write |-> w, expect |-> e, had |-> h, moved |-> h, ready |-> f, installed |-> f]
    OBVIOUS

\* What MoveAside does, with the mutation it notes down
LEMMA MovedAside ==
    ASSUME U!TypeOK, NEW u \in Upgrade, U!MoveAside(u)
    PROVE  \E o \in ops[u], m \in U!Mutations :
          /\ m.path = o.path /\ m.write = o.write /\ m.expect = o.expect
          /\ m.had = (file[o.path] # U!Absent) /\ m.moved \in {FALSE, m.had} /\ ~m.ready /\ ~m.installed
          /\ ops' = [ops EXCEPT ![u] = @ \ {o}]
          /\ file' = [file EXCEPT ![o.path] = U!Absent]
          /\ backup' = [backup EXCEPT ![u][o.path] = file[o.path]]
          /\ done' = [done EXCEPT ![u] = Append(@, m)]
          /\ \/ U!Goto(u, "compare") /\ UNCHANGED <<i, why>> /\ m.moved = m.had
             \/ U!Undo(u, "interrupt")
  <1>1. PICK o \in ops[u] :
          LET p == o.path
              present == file[p] # U!Absent
              m == [path |-> p, write |-> o.write, expect |-> o.expect, had |-> present,
                    moved |-> FALSE, ready |-> FALSE, installed |-> FALSE] IN
          /\ ops' = [ops EXCEPT ![u] = @ \ {o}]
          /\ file' = [file EXCEPT ![p] = U!Absent]
          /\ backup' = [backup EXCEPT ![u][p] = file[p]]
          /\ \/ /\ done' = [done EXCEPT ![u] = Append(@, [m EXCEPT !.moved = present])]
                /\ U!Goto(u, "compare") /\ UNCHANGED <<i, why>>
             \/ done' = [done EXCEPT ![u] = Append(@, m)] /\ U!Undo(u, "interrupt")
    BY DEF U!MoveAside
  <1>2. o \in U!Operations
    BY DEF U!TypeOK
  <1>7. PICK present \in BOOLEAN : present = (file[o.path] # U!Absent)
    OBVIOUS
  <1> DEFINE m(b) == [path |-> o.path, write |-> o.write, expect |-> o.expect, had |-> present,
                      moved |-> b, ready |-> FALSE, installed |-> FALSE]
  <1>3. \A b \in BOOLEAN : m(b) \in U!Mutations
    <2>1. o.path \in U!Files /\ o.write \in U!Content \cup U!Locks /\ o.expect \in U!Content \cup U!Locks
      BY <1>2 DEF U!Operations
    <2>2. SUFFICES ASSUME NEW b \in BOOLEAN PROVE m(b) \in U!Mutations
      OBVIOUS
    <2> QED
      BY <2>1, <1>7 DEF U!Mutations
  <1>4. [m(FALSE) EXCEPT !.moved = present] = m(present)
    <2>1. PICK f : f = FALSE
      OBVIOUS
    <2>2. [[path |-> o.path, write |-> o.write, expect |-> o.expect, had |-> present, moved |-> f,
            ready |-> f, installed |-> f] EXCEPT !.moved = present] =
          [path |-> o.path, write |-> o.write, expect |-> o.expect, had |-> present, moved |-> present,
           ready |-> f, installed |-> f]
      BY NotedAsMoved
    <2> QED
      BY <2>1, <2>2
  <1>5. CASE done' = [done EXCEPT ![u] = Append(@, m(present))] /\ U!Goto(u, "compare") /\ UNCHANGED <<i, why>>
    BY <1>1, <1>3, <1>5, <1>7
  <1>6. CASE done' = [done EXCEPT ![u] = Append(@, m(FALSE))] /\ U!Undo(u, "interrupt")
    BY <1>1, <1>3, <1>6, <1>7
  <1> QED
    BY <1>1, <1>4, <1>5, <1>6, <1>7

\* A file is moved aside; an interrupt may come before this is noted.
LEMMA SavesMove ==
    ASSUME U!SavesInv, NEW u \in Upgrade, U!MoveAside(u)
    PROVE  U!SavesInv'
  <1> USE DEF U!SavesInv
  <1>1. /\ U!TypeOK /\ U!Where(u) /\ U!PlanFits(u) /\ U!SavesAside(u) /\ U!SavesAreKept /\ pc[u] = "move"
    BY DEF U!MoveAside
  <1>2. PICK o \in ops[u], m \in U!Mutations :
          /\ m.path = o.path /\ m.write = o.write /\ m.expect = o.expect
          /\ m.had = (file[o.path] # U!Absent) /\ m.moved \in {FALSE, m.had} /\ ~m.ready /\ ~m.installed
          /\ ops' = [ops EXCEPT ![u] = @ \ {o}]
          /\ file' = [file EXCEPT ![o.path] = U!Absent]
          /\ backup' = [backup EXCEPT ![u][o.path] = file[o.path]]
          /\ done' = [done EXCEPT ![u] = Append(@, m)]
          /\ \/ U!Goto(u, "compare") /\ UNCHANGED <<i, why>> /\ m.moved = m.had
             \/ U!Undo(u, "interrupt")
    BY <1>1, MovedAside
  <1>3. /\ o \in U!Operations /\ o.path \in U!Files /\ U!Writes(u, o)
        /\ \A k \in DOMAIN done[u] : done[u][k].path # o.path
    BY <1>1, <1>2 DEF U!TypeOK, U!PlanFits, U!Operations
  <1>4. backup[u][o.path] = U!Absent
    BY <1>1, <1>3 DEF U!PlanFits
  <1>5. /\ done' \in [Upgrade -> Seq(U!Mutations)] /\ \A q \in Upgrade \ {u} : done'[q] = done[q]
        /\ Len(done'[u]) = Len(done[u]) + 1 /\ Len(done[u]) \in Nat
        /\ DOMAIN done'[u] = 1 .. Len(done[u]) + 1 /\ DOMAIN done[u] = 1 .. Len(done[u])
        /\ \A k \in DOMAIN done[u] : done'[u][k] = done[u][k] /\ done[u][k] \in U!Mutations
        /\ done'[u][Len(done[u]) + 1] = m /\ done'[u][Len(done'[u])] = m
    BY <1>1, <1>2, Appended
  <1>6. /\ UNCHANGED <<head, saves, own, alone, torn, recorded, scratch, kept, exit>>
        /\ i' \in [Upgrade -> Nat] /\ why' \in [Upgrade -> {"none", "error", "interrupt"}]
        /\ pc' \in [Upgrade -> U!Before \cup U!Working \cup U!Undoing \cup {"sync", "end"}]
        /\ \A q \in Upgrade \ {u} : pc'[q] = pc[q] /\ i'[q] = i[q]
        /\ pc'[u] = "compare" \/ (pc'[u] = "undo" /\ i'[u] = Len(done'[u]))
    <2>1. UNCHANGED <<head, saves, own, alone, torn, recorded, scratch, kept, exit>>
      BY DEF U!MoveAside
    <2>2. CASE U!Goto(u, "compare") /\ UNCHANGED <<i, why>>
      BY <1>1, <2>1, <2>2
         DEF U!Goto, U!TypeOK, U!Before, U!Working, U!Undoing
    <2>3. CASE U!Undo(u, "interrupt")
      <3>1. Len(done'[u]) \in Nat
        BY <1>5
      <3> QED
        BY <1>1, <2>1, <2>3, <3>1
           DEF U!Goto, U!Undo, U!TypeOK, U!Before, U!Working,
               U!Undoing
    <2> QED
      BY <1>2, <2>1, <2>2, <2>3
  <1>7. /\ \A p \in U!Files \ {o.path} : file'[p] = file[p] /\ backup'[u][p] = backup[u][p]
        /\ file'[o.path] = U!Absent /\ backup'[u][o.path] = file[o.path]
        /\ \A q \in Upgrade \ {u} : backup'[q] = backup[q] /\ ops'[q] = ops[q]
        /\ ops'[u] = ops[u] \ {o}
    BY <1>1, <1>2, <1>3 DEF U!TypeOK
  <1>8. U!TypeOK'
    <2>1. /\ file' \in [U!Files -> U!Content \cup U!Locks] /\ file'[U!Lock] \in U!Locks \cup {U!Absent}
          /\ \A p \in U!Owned : file'[p] \in U!Content
      BY <1>1, <1>2, <1>3, <1>7, TextFacts DEF U!TypeOK
    <2>2. /\ backup' \in [Upgrade -> [U!Files -> U!Content \cup U!Locks]]
          /\ \A q \in Upgrade : backup'[q][U!Lock] \in U!Locks \cup {U!Absent}
          /\ \A q \in Upgrade : \A p \in U!Owned : backup'[q][p] \in U!Content
      BY <1>1, <1>2, <1>3, <1>7, TextFacts DEF U!TypeOK
    <2>3. ops' \in [Upgrade -> SUBSET U!Operations]
      BY <1>1, <1>2 DEF U!TypeOK
    <2> QED
      BY <1>1, <1>5, <1>6, <2>1, <2>2, <2>3 DEF U!TypeOK
  <1>9. U!PlanFits(u)'
    <2>1. U!Writes(u, m)
      BY <1>2, <1>3 DEF U!Writes
    <2>2. \A q \in ops'[u] : U!Writes(u, q) /\ q.path # o.path /\ \A k \in DOMAIN done'[u] : done'[u][k].path # q.path
      BY <1>1, <1>2, <1>5, <1>7 DEF U!PlanFits
    <2>3. /\ \A k \in DOMAIN done'[u] : U!Writes(u, done'[u][k])
          /\ \A k, l \in DOMAIN done'[u] : k # l => done'[u][k].path # done'[u][l].path
      BY <1>1, <1>2, <1>3, <1>5, <2>1 DEF U!PlanFits
    <2>4. ASSUME NEW p \in U!Files, backup'[u][p] # U!Absent
          PROVE  \E k \in DOMAIN done'[u] : done'[u][k].path = p /\ done'[u][k].had
      <3>1. CASE p = o.path
        <4>1. m.had
          BY <1>2, <1>7, <2>4, <3>1
        <4>2. Len(done[u]) + 1 \in DOMAIN done'[u]
          BY <1>5
        <4> QED
          BY <4>1, <4>2, <3>1, <1>2, <1>5
      <3>2. CASE p # o.path
        <4>1. PICK k \in DOMAIN done[u] : done[u][k].path = p /\ done[u][k].had
          BY <1>1, <1>7, <2>4, <3>2 DEF U!PlanFits
        <4>2. k \in DOMAIN done'[u]
          BY <1>5
        <4> QED
          BY <4>1, <4>2, <1>5
      <3> QED
        BY <3>1, <3>2
    <2>5. \A q, r \in ops'[u] : q.path = r.path => q = r
      BY <1>1, <1>7 DEF U!PlanFits
    <2> QED
      BY <2>2, <2>3, <2>4, <2>5
         DEF U!PlanFits, U!Writes, U!New, U!NewLock
  <1>10. U!Where(u)'
    BY <1>1, <1>5, <1>6 DEF U!Where, U!Before, U!Working, U!Undoing
  <1>11. U!SavesAside(u)'
    <2>1. \A p \in U!Owned \ {o.path} : backup'[u][p] \notin Developers
      BY <1>1, <1>7, TextFacts DEF U!SavesAside
    <2>2. CASE pc'[u] = "compare"
      BY <2>1, <2>2, <1>2, <1>5 DEF U!SavesAside, U!This, U!Undoing
    <2>3. CASE pc'[u] = "undo" /\ i'[u] = Len(done'[u])
      BY <2>1, <2>3, <1>2, <1>5 DEF U!SavesAside
    <2> QED
      BY <1>6, <2>2, <2>3
  <1>12. U!SavesAreKept'
    <2> SUFFICES ASSUME NEW p \in U!Owned, own[p] # U!Absent, ~torn, file'[p] # own[p]
                 PROVE  \E q \in Upgrade : scratch[q] /\ backup'[q][p] = own[p]
      BY <1>6 DEF U!SavesAreKept
    <2>1. p \in U!Files
      BY TextFacts
    <2>2. CASE file[p] = own[p]
      <3>1. p = o.path
        BY <2>1, <2>2, <1>7
      <3> QED
        BY <3>1, <2>2, <1>1, <1>7 DEF U!Where, U!Working
    <2>3. CASE file[p] # own[p]
      <3>1. PICK q \in Upgrade : scratch[q] /\ backup[q][p] = own[p]
        BY <2>3, <1>1 DEF U!SavesAreKept
      <3>2. q = u => p # o.path
        BY <3>1, <1>4
      <3> QED
        BY <3>1, <3>2, <1>7, <2>1
    <2> QED
      BY <2>2, <2>3
  <1> QED
    BY <1>6, <1>7, <1>5, <1>8, <1>9, <1>10, <1>11, <1>12, OneUpgrade


\* Steps of one upgrade: where it goes.
LEMMA Went ==
    ASSUME U!TypeOK, NEW u \in Upgrade, NEW l \in U!Before \cup U!Working \cup U!Undoing \cup {"sync", "end"}, U!Goto(u, l)
    PROVE  /\ pc' \in [Upgrade -> U!Before \cup U!Working \cup U!Undoing \cup {"sync", "end"}]
           /\ pc'[u] = l /\ \A o \in Upgrade \ {u} : pc'[o] = pc[o]
    BY DEF U!TypeOK, U!Goto

LEMMA Ended ==
    ASSUME U!TypeOK, NEW u \in Upgrade, NEW code \in {0, 2, 130, 137}, U!End(u, code)
    PROVE  /\ pc' \in [Upgrade -> U!Before \cup U!Working \cup U!Undoing \cup {"sync", "end"}]
           /\ exit' \in [Upgrade -> {0, 2, 130, 137}] /\ exit'[u] = code
           /\ pc'[u] = "end" /\ \A o \in Upgrade \ {u} : pc'[o] = pc[o] /\ exit'[o] = exit[o]
    BY DEF U!TypeOK, U!Goto, U!End

LEMMA Undoes ==
    ASSUME U!TypeOK, NEW u \in Upgrade, NEW reason \in {"error", "interrupt"}, U!Undo(u, reason), Len(done'[u]) \in Nat
    PROVE  /\ pc' \in [Upgrade -> U!Before \cup U!Working \cup U!Undoing \cup {"sync", "end"}]
           /\ i' \in [Upgrade -> Nat] /\ why' \in [Upgrade -> {"none", "error", "interrupt"}]
           /\ pc'[u] = "undo" /\ i'[u] = Len(done'[u])
           /\ \A o \in Upgrade \ {u} : pc'[o] = pc[o] /\ i'[o] = i[o]
    BY DEF U!TypeOK, U!Goto, U!Undo, U!Undoing

LEMMA Mutated ==
    ASSUME U!TypeOK, NEW u \in Upgrade
    PROVE  Len(done[u]) \in Nat /\ DOMAIN done[u] = 1 .. Len(done[u]) /\ \A k \in DOMAIN done[u] : done[u][k] \in U!Mutations
  <1>1. done[u] \in Seq(U!Mutations)
    BY DEF U!TypeOK
  <1> QED
    BY <1>1

LEMMA MarkNotes ==
    ASSUME U!TypeOK, NEW u \in Upgrade, done[u] # <<>>, U!Mark(u, "ready") \/ U!Mark(u, "installed")
    PROVE  /\ done' \in [Upgrade -> Seq(U!Mutations)] /\ \A o \in Upgrade \ {u} : done'[o] = done[o]
           /\ Len(done'[u]) = Len(done[u]) /\ DOMAIN done'[u] = DOMAIN done[u]
           /\ \A j \in DOMAIN done[u] : /\ done'[u][j].path = done[u][j].path
                                        /\ done'[u][j].write = done[u][j].write
                                        /\ done'[u][j].expect = done[u][j].expect
                                        /\ done'[u][j].had = done[u][j].had
                                        /\ done'[u][j].moved = done[u][j].moved
                                        /\ done[u][j].ready => done'[u][j].ready
           /\ \A j \in DOMAIN done[u] \ {Len(done[u])} : done'[u][j] = done[u][j]
           /\ U!Mark(u, "ready") => done'[u][Len(done[u])].ready
  <1>1. PICK k \in DOMAIN done[u] : k = Len(done[u])
    BY Marked
  <1>2. done[u][k] \in U!Mutations
    BY Mutated
  <1>3. ASSUME NEW m, done' = [done EXCEPT ![u][k] = m],
               m = [done[u][k] EXCEPT !.ready = TRUE] \/ m = [done[u][k] EXCEPT !.installed = TRUE]
        PROVE  /\ m \in U!Mutations /\ m.path = done[u][k].path /\ m.write = done[u][k].write
               /\ m.expect = done[u][k].expect /\ m.had = done[u][k].had /\ m.moved = done[u][k].moved
               /\ (done[u][k].ready => m.ready)
    BY <1>2, <1>3, MarkedAs
  <1>4. CASE U!Mark(u, "ready")
    <2>1. PICK m : m = [done[u][k] EXCEPT !.ready = TRUE]
      OBVIOUS
    <2>2. done' = [done EXCEPT ![u][k] = m]
      BY <1>1, <1>4, <2>1, Marked
    <2>3. m.ready
      BY <1>2, <2>1 DEF U!Mutations
    <2>4. /\ m \in U!Mutations /\ m.path = done[u][k].path /\ m.write = done[u][k].write
          /\ m.expect = done[u][k].expect /\ m.had = done[u][k].had /\ m.moved = done[u][k].moved
          /\ (done[u][k].ready => m.ready)
      BY <1>3, <2>1, <2>2
    <2>5. done'[u][k] = m
      BY <2>2, <2>4, Noted
    <2> QED
      BY <1>1, <2>2, <2>3, <2>4, <2>5, Noted
  <1>5. CASE U!Mark(u, "installed") /\ ~U!Mark(u, "ready")
    <2>1. PICK m : m = [done[u][k] EXCEPT !.installed = TRUE]
      OBVIOUS
    <2>2. done' = [done EXCEPT ![u][k] = m]
      BY <1>1, <1>5, <2>1, Marked
    <2>3. /\ m \in U!Mutations /\ m.path = done[u][k].path /\ m.write = done[u][k].write
          /\ m.expect = done[u][k].expect /\ m.had = done[u][k].had /\ m.moved = done[u][k].moved
          /\ (done[u][k].ready => m.ready)
      BY <1>3, <2>1, <2>2
    <2> QED
      BY <1>1, <1>5, <2>2, <2>3, Noted
  <1> QED
    BY <1>4, <1>5

\* What the invariant says of the plan survives a note.
LEMMA PlanNoted ==
    ASSUME NEW u \in Upgrade, U!PlanFits(u), UNCHANGED <<ops, backup>>, DOMAIN done'[u] = DOMAIN done[u],
           \A k \in DOMAIN done[u] : /\ done'[u][k].path = done[u][k].path
                                     /\ done'[u][k].write = done[u][k].write
                                     /\ done'[u][k].expect = done[u][k].expect
                                     /\ done'[u][k].had = done[u][k].had
    PROVE  U!PlanFits(u)'
    BY DEF U!PlanFits, U!Writes, U!New, U!NewLock

LEMMA StillKept ==
    ASSUME U!SavesAreKept, UNCHANGED <<file, own, backup>>, torn => torn', \A o \in Upgrade : scratch[o] => scratch'[o]
    PROVE  U!SavesAreKept'
    BY DEF U!SavesAreKept

\* A scratch directory without a developer's text can go.
LEMMA ScratchGoes ==
    ASSUME U!SavesInv, NEW u \in Upgrade, U!RemoveScratch(u), UNCHANGED <<file, own, ops, done>>, torn => torn',
           torn' \/ \A p \in U!Owned : backup[u][p] \notin Developers
    PROVE  /\ U!SavesAreKept' /\ U!PlanFits(u)' /\ U!SavesAside(u)'
           /\ scratch' \in [Upgrade -> BOOLEAN] /\ backup' \in [Upgrade -> [U!Files -> U!Content \cup U!Locks]]
           /\ \A o \in Upgrade : backup'[o][U!Lock] \in U!Locks \cup {U!Absent}
           /\ \A o \in Upgrade : \A p \in U!Owned : backup'[o][p] \in U!Content
           /\ \A o \in Upgrade \ {u} : scratch'[o] = scratch[o] /\ backup'[o] = backup[o]
  <1>1. /\ U!TypeOK /\ U!PlanFits(u) /\ U!SavesAreKept
    BY DEF U!SavesInv
  <1>2. /\ scratch' \in [Upgrade -> BOOLEAN] /\ ~scratch'[u]
        /\ backup' \in [Upgrade -> [U!Files -> U!Content \cup U!Locks]]
        /\ \A p \in U!Files : backup'[u][p] = U!Absent
        /\ \A o \in Upgrade \ {u} : scratch'[o] = scratch[o] /\ backup'[o] = backup[o]
    BY <1>1, TextFacts DEF U!RemoveScratch, U!TypeOK
  <1>3. U!PlanFits(u)'
    BY <1>1, <1>2 DEF U!PlanFits, U!Writes, U!New, U!NewLock
  <1>4. U!SavesAside(u)'
    BY <1>2, TextFacts DEF U!SavesAside
  <1>5. U!SavesAreKept'
    <2> SUFFICES ASSUME NEW p \in U!Owned, own[p] # U!Absent, ~torn', file[p] # own[p]
                 PROVE  \E o \in Upgrade : scratch'[o] /\ backup'[o][p] = own[p]
      BY DEF U!SavesAreKept
    <2>1. PICK o \in Upgrade : scratch[o] /\ backup[o][p] = own[p]
      BY <1>1 DEF U!SavesAreKept
    <2>2. own[p] \in Developers
      BY <1>1 DEF U!TypeOK
    <2>3. o # u
      BY <2>1, <2>2
    <2> QED
      BY <2>1, <2>3, <1>2
  <1>6. /\ \A o \in Upgrade : backup'[o][U!Lock] \in U!Locks \cup {U!Absent}
        /\ \A o \in Upgrade : \A p \in U!Owned : backup'[o][p] \in U!Content
    <2> SUFFICES ASSUME NEW o \in Upgrade
                 PROVE  /\ backup'[o][U!Lock] \in U!Locks \cup {U!Absent}
                        /\ \A p \in U!Owned : backup'[o][p] \in U!Content
      OBVIOUS
    <2>1. CASE o = u
      BY <1>2, <2>1, TextFacts
    <2>2. CASE o # u
      BY <1>1, <1>2, <2>2 DEF U!TypeOK
    <2> QED
      BY <2>1, <2>2
  <1> QED
    BY <1>2, <1>3, <1>4, <1>5, <1>6

LEMMA SavesFinish ==
    ASSUME U!SavesInv, NEW u \in Upgrade, U!Finish(u)
    PROVE  U!SavesInv'
  <1>1. /\ U!TypeOK /\ U!Where(u) /\ U!SavesAside(u) /\ pc[u] = "move"
    BY DEF U!SavesInv, U!Finish
  <1>2. /\ U!RemoveScratch(u) /\ U!Goto(u, "sync")
        /\ UNCHANGED <<file, head, saves, own, torn, alone, i, recorded, ops, done, why, kept, exit>>
    BY DEF U!Finish, U!tree
  <1>3. \A p \in U!Owned : backup[u][p] \notin Developers
    BY <1>1 DEF U!SavesAside
  <1>4. /\ pc' \in [Upgrade -> U!Before \cup U!Working \cup U!Undoing \cup {"sync", "end"}]
        /\ pc'[u] = "sync" /\ \A o \in Upgrade \ {u} : pc'[o] = pc[o]
    BY <1>1, <1>2, Went
  <1>5. /\ U!SavesAreKept' /\ U!PlanFits(u)' /\ U!SavesAside(u)'
        /\ scratch' \in [Upgrade -> BOOLEAN] /\ backup' \in [Upgrade -> [U!Files -> U!Content \cup U!Locks]]
        /\ \A o \in Upgrade : backup'[o][U!Lock] \in U!Locks \cup {U!Absent}
        /\ \A o \in Upgrade : \A p \in U!Owned : backup'[o][p] \in U!Content
        /\ \A o \in Upgrade \ {u} : scratch'[o] = scratch[o] /\ backup'[o] = backup[o]
    BY <1>2, <1>3, ScratchGoes
  <1>6. U!TypeOK'
    BY <1>1, <1>2, <1>4, <1>5 DEF U!TypeOK
  <1>7. U!Where(u)'
    BY <1>1, <1>2, <1>4 DEF U!Where, U!Before, U!Working, U!Undoing
  <1> QED
    BY <1>2, <1>4, <1>5, <1>6, <1>7, OneUpgrade

\* What was moved aside is compared with what the decision was about.
LEMMA SavesCompare ==
    ASSUME U!SavesInv, NEW u \in Upgrade, U!Compare(u)
    PROVE  U!SavesInv'
  <1>1. /\ U!TypeOK /\ U!Where(u) /\ U!PlanFits(u) /\ U!SavesAside(u) /\ U!SavesAreKept
        /\ pc[u] = "compare" /\ done[u] # <<>> /\ scratch[u]
    BY DEF U!SavesInv, U!Compare, U!Where, U!Working
  <1>2. /\ UNCHANGED <<file, head, saves, own, torn, alone, recorded, ops, backup, scratch, kept, exit>>
        /\ \/ UNCHANGED done /\ U!Undo(u, "error")
           \/ U!AsPlanned(u) /\ U!Goto(u, "move") /\ UNCHANGED <<i, why, done>>
           \/ U!AsPlanned(u) /\ U!Mark(u, "ready") /\ U!Goto(u, "install") /\ UNCHANGED <<i, why>>
    BY DEF U!Compare, U!tree, U!Continue
  <1>3. /\ Len(done[u]) \in DOMAIN done[u] /\ U!This(u) = done[u][Len(done[u])]
        /\ Len(done[u]) \in Nat /\ DOMAIN done[u] = 1 .. Len(done[u])
    BY <1>1, Marked, Mutated DEF U!This
  <1>4. U!AsPlanned(u) => \A p \in U!Owned : backup[u][p] \notin Developers
    <2> SUFFICES ASSUME U!AsPlanned(u), NEW p \in U!Owned, backup[u][p] \in Developers
                 PROVE  FALSE
      OBVIOUS
    <2>1. p = U!This(u).path
      BY <1>1 DEF U!SavesAside
    <2>2. U!This(u).expect \notin Developers
      BY <2>1, <1>1, <1>3 DEF U!PlanFits, U!Writes
    <2> QED
      BY <2>1, <2>2 DEF U!AsPlanned
  <1>5. U!SavesAreKept'
    BY <1>1, <1>2, StillKept
  <1>6. CASE UNCHANGED done /\ U!Undo(u, "error")
    <2>1. Len(done'[u]) \in Nat /\ Len(done'[u]) = Len(done[u])
      BY <1>3, <1>6
    <2>2. /\ pc' \in [Upgrade -> U!Before \cup U!Working \cup U!Undoing \cup {"sync", "end"}]
          /\ i' \in [Upgrade -> Nat] /\ why' \in [Upgrade -> {"none", "error", "interrupt"}]
          /\ pc'[u] = "undo" /\ i'[u] = Len(done'[u])
          /\ \A o \in Upgrade \ {u} : pc'[o] = pc[o] /\ i'[o] = i[o]
      BY <1>1, <1>6, <2>1, Undoes
    <2>3. U!TypeOK'
      BY <1>1, <1>2, <1>6, <2>2 DEF U!TypeOK
    <2>4. U!Where(u)'
      BY <1>1, <1>2, <1>6, <2>1, <2>2, <1>3
         DEF U!Where, U!Before, U!Working, U!Undoing
    <2>5. U!SavesAside(u)'
      BY <1>1, <1>2, <1>3, <1>6, <2>1, <2>2 DEF U!SavesAside
    <2> QED
      BY <1>2, <1>6, <2>2, <2>3, <2>4, <2>5, QuietUpgrade
  <1>7. CASE U!AsPlanned(u) /\ U!Goto(u, "move") /\ UNCHANGED <<i, why, done>>
    <2>1. /\ pc' \in [Upgrade -> U!Before \cup U!Working \cup U!Undoing \cup {"sync", "end"}]
          /\ pc'[u] = "move" /\ \A o \in Upgrade \ {u} : pc'[o] = pc[o]
      BY <1>1, <1>7, Went DEF U!Working
    <2>2. U!TypeOK'
      BY <1>1, <1>2, <1>7, <2>1 DEF U!TypeOK
    <2>3. U!Where(u)'
      BY <1>1, <1>2, <1>7, <2>1
         DEF U!Where, U!Before, U!Working, U!Undoing
    <2>4. U!SavesAside(u)'
      BY <1>2, <1>4, <1>7 DEF U!SavesAside
    <2> QED
      BY <1>2, <1>7, <2>1, <2>2, <2>3, <2>4, QuietUpgrade
  <1>8. CASE U!AsPlanned(u) /\ U!Mark(u, "ready") /\ U!Goto(u, "install") /\ UNCHANGED <<i, why>>
    <2>1. /\ pc' \in [Upgrade -> U!Before \cup U!Working \cup U!Undoing \cup {"sync", "end"}]
          /\ pc'[u] = "install" /\ \A o \in Upgrade \ {u} : pc'[o] = pc[o]
      BY <1>1, <1>8, Went DEF U!Working
    <2>2. /\ done' \in [Upgrade -> Seq(U!Mutations)] /\ \A o \in Upgrade \ {u} : done'[o] = done[o]
          /\ Len(done'[u]) = Len(done[u]) /\ DOMAIN done'[u] = DOMAIN done[u]
          /\ \A j \in DOMAIN done[u] : /\ done'[u][j].path = done[u][j].path
                                       /\ done'[u][j].write = done[u][j].write
                                       /\ done'[u][j].expect = done[u][j].expect
                                       /\ done'[u][j].had = done[u][j].had
      BY <1>1, <1>8, MarkNotes
    <2>3. U!TypeOK'
      BY <1>1, <1>2, <1>8, <2>1, <2>2 DEF U!TypeOK
    <2>4. U!Where(u)'
      BY <1>1, <1>2, <1>3, <1>8, <2>1, <2>2
         DEF U!Where, U!Before, U!Working, U!Undoing
    <2>5. U!SavesAside(u)'
      BY <1>2, <1>4, <1>8 DEF U!SavesAside
    <2>6. U!PlanFits(u)'
      BY <1>1, <1>2, <2>2, PlanNoted
    <2> QED
      BY <1>2, <1>5, <1>8, <2>1, <2>2, <2>3, <2>4, <2>5, <2>6, OneUpgrade
  <1> QED
    BY <1>2, <1>6, <1>7, <1>8

LEMMA SavesInstall ==
    ASSUME U!SavesInv, NEW u \in Upgrade, U!Install(u)
    PROVE  U!SavesInv'
  <1>1. /\ U!TypeOK /\ U!Where(u) /\ U!PlanFits(u) /\ U!SavesAside(u) /\ U!SavesAreKept
        /\ pc[u] = "install" /\ done[u] # <<>> /\ scratch[u]
    BY DEF U!SavesInv, U!Install, U!Where, U!Working
  <1>2. /\ UNCHANGED <<head, saves, own, torn, alone, recorded, ops, backup, scratch, kept, exit>>
        /\ \/ UNCHANGED <<file, done>> /\ U!Undo(u, "error")
           \/ /\ file[U!This(u).path] = U!Absent /\ file' = [file EXCEPT ![U!This(u).path] = U!This(u).write]
              /\ \/ U!Mark(u, "installed") /\ U!Goto(u, "move") /\ UNCHANGED <<i, why>>
                 \/ UNCHANGED done /\ U!Undo(u, "interrupt")
    BY DEF U!Install, U!Continue
  <1>3. /\ Len(done[u]) \in DOMAIN done[u] /\ U!This(u) = done[u][Len(done[u])] /\ U!This(u) \in U!Mutations
        /\ Len(done[u]) \in Nat /\ DOMAIN done[u] = 1 .. Len(done[u])
    BY <1>1, Marked, Mutated DEF U!This
  <1>4. U!Writes(u, U!This(u)) /\ U!This(u).path \in U!Files
    BY <1>1, <1>3 DEF U!PlanFits, U!Mutations
  <1>5. /\ file' \in [U!Files -> U!Content \cup U!Locks] /\ file'[U!Lock] \in U!Locks \cup {U!Absent}
        /\ \A p \in U!Owned : file'[p] \in U!Content
    <2>1. CASE UNCHANGED file
      BY <1>1, <2>1 DEF U!TypeOK
    <2>2. CASE file' = [file EXCEPT ![U!This(u).path] = U!This(u).write]
      <3>1. U!This(u).write \in U!Content \cup U!Locks
        BY <1>3 DEF U!Mutations
      <3>2. U!This(u).path = U!Lock => U!This(u).write \in U!Locks
        BY <1>4, NewFacts DEF U!Writes
      <3>3. U!This(u).path \in U!Owned => U!This(u).write \in U!Content
        BY <1>4, NewFacts DEF U!Writes
      <3> QED
        BY <1>1, <1>4, <2>2, <3>1, <3>2, <3>3, TextFacts DEF U!TypeOK
    <2> QED
      BY <1>2, <2>1, <2>2
  <1>6. U!SavesAreKept'
    <2> SUFFICES ASSUME NEW p \in U!Owned, own[p] # U!Absent, ~torn, file'[p] # own[p]
                 PROVE  \E o \in Upgrade : scratch[o] /\ backup[o][p] = own[p]
      BY <1>2 DEF U!SavesAreKept
    <2>1. file[p] = own[p] => file'[p] = own[p]
      BY <1>1, <1>2, TextFacts DEF U!TypeOK
    <2> QED
      BY <2>1, <1>1 DEF U!SavesAreKept
  <1>7. \A p \in U!Owned : backup[u][p] \notin Developers
    BY <1>1 DEF U!SavesAside
  <1>8. U!SavesAside(u)'
    BY <1>2, <1>7 DEF U!SavesAside
  <1>9. CASE UNCHANGED done /\ \E r \in {"error", "interrupt"} : U!Undo(u, r)
    <2>1. Len(done'[u]) \in Nat /\ Len(done'[u]) = Len(done[u])
      BY <1>3, <1>9
    <2>2. /\ pc' \in [Upgrade -> U!Before \cup U!Working \cup U!Undoing \cup {"sync", "end"}]
          /\ i' \in [Upgrade -> Nat] /\ why' \in [Upgrade -> {"none", "error", "interrupt"}]
          /\ pc'[u] = "undo" /\ i'[u] = Len(done'[u])
          /\ \A o \in Upgrade \ {u} : pc'[o] = pc[o] /\ i'[o] = i[o]
      BY <1>1, <1>9, <2>1, Undoes
    <2>3. U!TypeOK'
      BY <1>1, <1>2, <1>5, <1>9, <2>2 DEF U!TypeOK
    <2>4. U!Where(u)'
      BY <1>1, <1>2, <1>9, <2>1, <2>2, <1>3
         DEF U!Where, U!Before, U!Working, U!Undoing
    <2>5. U!PlanFits(u)'
      BY <1>1, <1>2, <1>9, PlanNoted
    <2> QED
      BY <1>2, <1>6, <1>8, <1>9, <2>2, <2>3, <2>4, <2>5, OneUpgrade
  <1>10. CASE U!Mark(u, "installed") /\ U!Goto(u, "move") /\ UNCHANGED <<i, why>>
    <2>1. /\ pc' \in [Upgrade -> U!Before \cup U!Working \cup U!Undoing \cup {"sync", "end"}]
          /\ pc'[u] = "move" /\ \A o \in Upgrade \ {u} : pc'[o] = pc[o]
      BY <1>1, <1>10, Went DEF U!Working
    <2>2. /\ done' \in [Upgrade -> Seq(U!Mutations)] /\ \A o \in Upgrade \ {u} : done'[o] = done[o]
          /\ Len(done'[u]) = Len(done[u]) /\ DOMAIN done'[u] = DOMAIN done[u]
          /\ \A j \in DOMAIN done[u] : /\ done'[u][j].path = done[u][j].path
                                       /\ done'[u][j].write = done[u][j].write
                                       /\ done'[u][j].expect = done[u][j].expect
                                       /\ done'[u][j].had = done[u][j].had
      BY <1>1, <1>10, MarkNotes
    <2>3. U!TypeOK'
      BY <1>1, <1>2, <1>5, <1>10, <2>1, <2>2 DEF U!TypeOK
    <2>4. U!Where(u)'
      BY <1>1, <1>2, <1>10, <2>1
         DEF U!Where, U!Before, U!Working, U!Undoing
    <2>5. U!PlanFits(u)'
      BY <1>1, <1>2, <2>2, PlanNoted
    <2> QED
      BY <1>2, <1>6, <1>8, <1>10, <2>1, <2>2, <2>3, <2>4, <2>5, OneUpgrade
  <1> QED
    BY <1>2, <1>9, <1>10

LEMMA InstalledAs ==
    ASSUME NEW m \in U!Mutations, NEW b \in BOOLEAN, NEW n, n = [m EXCEPT !.installed = b]
    PROVE  /\ n \in U!Mutations /\ n.path = m.path /\ n.write = m.write /\ n.expect = m.expect
           /\ n.had = m.had /\ n.moved = m.moved /\ n.ready = m.ready /\ n.installed = b
    BY DEF U!Mutations

LEMMA Recognizes ==
    ASSUME U!TypeOK, NEW u \in Upgrade, i[u] \in DOMAIN done[u]
    PROVE  LET m == U!Recognized(u)
           IN  /\ m \in U!Mutations /\ m.path = U!Undone(u).path /\ m.write = U!Undone(u).write
               /\ m.expect = U!Undone(u).expect /\ m.had = U!Undone(u).had /\ m.moved = U!Undone(u).moved
               /\ m.ready = U!Undone(u).ready /\ U!Undone(u) \in U!Mutations
               /\ U!Undone(u).installed => m.installed
               /\ m.ready /\ file[m.path] = m.write => m.installed
  <1>1. U!Undone(u) \in U!Mutations
    BY Mutated DEF U!Undone
  <1>2. PICK b \in BOOLEAN : b = (U!Undone(u).installed \/ (U!Undone(u).ready /\ file[U!Undone(u).path] = U!Undone(u).write))
    BY <1>1 DEF U!Mutations
  <1>3. U!Recognized(u) = [U!Undone(u) EXCEPT !.installed = b]
    BY <1>2 DEF U!Recognized
  <1>4. /\ U!Recognized(u) \in U!Mutations /\ U!Recognized(u).path = U!Undone(u).path
        /\ U!Recognized(u).write = U!Undone(u).write /\ U!Recognized(u).expect = U!Undone(u).expect
        /\ U!Recognized(u).had = U!Undone(u).had /\ U!Recognized(u).moved = U!Undone(u).moved
        /\ U!Recognized(u).ready = U!Undone(u).ready /\ U!Recognized(u).installed = b
    BY <1>1, <1>3, InstalledAs
  <1>5. (U!Undone(u).installed => b) /\ (U!Undone(u).ready /\ file[U!Undone(u).path] = U!Undone(u).write => b)
    BY <1>2
  <1> QED
    BY <1>1, <1>4, <1>5

\* The look at a mutation that is to be taken back: what it says, where it leads.
LEMMA Looked ==
    ASSUME U!SavesInv, NEW u \in Upgrade, U!Look(u)
    PROVE  /\ pc[u] = "undo" /\ i[u] \in DOMAIN done[u] /\ i[u] \in Nat \ {0}
           /\ done' \in [Upgrade -> Seq(U!Mutations)] /\ \A o \in Upgrade \ {u} : done'[o] = done[o]
           /\ Len(done'[u]) = Len(done[u]) /\ DOMAIN done'[u] = DOMAIN done[u]
           /\ \A j \in DOMAIN done[u] : /\ done'[u][j].path = done[u][j].path
                                        /\ done'[u][j].write = done[u][j].write
                                        /\ done'[u][j].expect = done[u][j].expect
                                        /\ done'[u][j].had = done[u][j].had
                                        /\ done'[u][j].moved = done[u][j].moved
                                        /\ done[u][j].ready => done'[u][j].ready
           /\ \A j \in DOMAIN done[u] \ {i[u]} : done'[u][j] = done[u][j]
           /\ done'[u][i[u]] = U!Recognized(u)
           /\ kept' \in [Upgrade -> BOOLEAN] /\ \A o \in Upgrade \ {u} : kept'[o] = kept[o]
           /\ (kept[u] => kept'[u])
           /\ \/ U!Goto(u, "unlink") /\ UNCHANGED <<i, kept>>
              \/ U!Goto(u, "putback") /\ UNCHANGED <<i, kept>>
              \/ U!NextUndo(u) /\ kept'[u]
              \/ U!NextUndo(u) /\ UNCHANGED kept /\ ~U!ToRestore(u, U!Recognized(u))
  <1>1. U!TypeOK /\ U!Where(u)
    BY DEF U!SavesInv
  <1>2. pc[u] = "undo" /\ i[u] > 0 /\ i[u] \in Nat
    BY <1>1 DEF U!Look, U!TypeOK
  <1>3. i[u] \in DOMAIN done[u]
    BY <1>1, <1>2, Mutated DEF U!Where, U!Undoing
  <1>4. done' = [done EXCEPT ![u][i[u]] = U!Recognized(u)]
    BY DEF U!Look, U!Forget
  <1>5. /\ U!Recognized(u) \in U!Mutations /\ U!Recognized(u).path = done[u][i[u]].path
        /\ U!Recognized(u).write = done[u][i[u]].write /\ U!Recognized(u).expect = done[u][i[u]].expect
        /\ U!Recognized(u).had = done[u][i[u]].had /\ U!Recognized(u).moved = done[u][i[u]].moved
        /\ U!Recognized(u).ready = done[u][i[u]].ready
    BY <1>1, <1>3, Recognizes DEF U!Undone
  <1>6. \/ U!Goto(u, "unlink") /\ UNCHANGED <<i, kept>>
        \/ U!Goto(u, "putback") /\ UNCHANGED <<i, kept>>
        \/ U!NextUndo(u) /\ kept' = [kept EXCEPT ![u] = TRUE]
        \/ U!NextUndo(u) /\ UNCHANGED kept /\ ~U!ToRestore(u, U!Recognized(u))
    BY DEF U!Look
  <1>7. /\ kept' \in [Upgrade -> BOOLEAN] /\ \A o \in Upgrade \ {u} : kept'[o] = kept[o]
        /\ (kept[u] => kept'[u])
        /\ (kept' = [kept EXCEPT ![u] = TRUE] => kept'[u])
    <2>1. CASE UNCHANGED kept
      BY <1>1, <2>1 DEF U!TypeOK
    <2>2. CASE kept' = [kept EXCEPT ![u] = TRUE]
      BY <1>1, <2>2 DEF U!TypeOK
    <2> QED
      BY <1>6, <2>1, <2>2
  <1>8. /\ done' \in [Upgrade -> Seq(U!Mutations)] /\ \A o \in Upgrade \ {u} : done'[o] = done[o]
        /\ Len(done'[u]) = Len(done[u]) /\ DOMAIN done'[u] = DOMAIN done[u]
        /\ \A j \in DOMAIN done[u] : /\ done'[u][j].path = done[u][j].path
                                     /\ done'[u][j].write = done[u][j].write
                                     /\ done'[u][j].expect = done[u][j].expect
                                     /\ done'[u][j].had = done[u][j].had
                                     /\ done'[u][j].moved = done[u][j].moved
                                     /\ done[u][j].ready => done'[u][j].ready
        /\ \A j \in DOMAIN done[u] \ {i[u]} : done'[u][j] = done[u][j]
        /\ done'[u][i[u]] = U!Recognized(u)
    BY <1>1, <1>3, <1>4, <1>5, Noted
  <1> QED
    BY <1>2, <1>3, <1>6, <1>7, <1>8

\* One mutation is dealt with: the texts that are still aside belong to others.
LEMMA NextUndoes ==
    ASSUME U!TypeOK, NEW u \in Upgrade, U!NextUndo(u), i[u] \in DOMAIN done[u], DOMAIN done'[u] = DOMAIN done[u],
           Len(done'[u]) = Len(done[u])
    PROVE  /\ pc' \in [Upgrade -> U!Before \cup U!Working \cup U!Undoing \cup {"sync", "end"}]
           /\ i' \in [Upgrade -> Nat] /\ pc'[u] = "undo" /\ i'[u] = i[u] - 1
           /\ \A o \in Upgrade \ {u} : pc'[o] = pc[o] /\ i'[o] = i[o]
           /\ i'[u] \in 0 .. Len(done'[u]) /\ 1 .. i'[u] = 1 .. i[u] \ {i[u]}
           /\ 1 .. i'[u] \subseteq DOMAIN done[u] /\ i[u] \in 1 .. i[u]
  <1>1. DOMAIN done[u] = 1 .. Len(done[u]) /\ Len(done[u]) \in Nat
    BY Mutated
  <1> QED
    BY <1>1 DEF U!TypeOK, U!NextUndo, U!Goto, U!Undoing

\* The mutation of a file whose old text is aside is one that had something to move.
LEMMA AsideHad ==
    ASSUME U!SavesInv, NEW u \in Upgrade, NEW k \in DOMAIN done[u], NEW p \in U!Owned, done[u][k].path = p,
           backup[u][p] \in Developers
    PROVE  done[u][k].had /\ U!ToRestore(u, done[u][k])
  <1>1. p \in U!Files /\ backup[u][p] # U!Absent /\ U!PlanFits(u)
    BY TextFacts DEF U!SavesInv
  <1>2. PICK l \in DOMAIN done[u] : done[u][l].path = p /\ done[u][l].had
    BY <1>1 DEF U!PlanFits
  <1>3. l = k
    BY <1>1, <1>2 DEF U!PlanFits
  <1> QED
    BY <1>1, <1>2, <1>3 DEF U!ToRestore

LEMMA SavesLook ==
    ASSUME U!SavesInv, NEW u \in Upgrade, U!Look(u)
    PROVE  U!SavesInv'
  <1>1. /\ U!TypeOK /\ U!Where(u) /\ U!PlanFits(u) /\ U!SavesAside(u) /\ U!SavesAreKept /\ scratch[u] /\ exit[u] = 0
    BY Looked DEF U!SavesInv, U!Where, U!Undoing
  <1>2. UNCHANGED <<file, head, saves, own, torn, alone, recorded, ops, backup, scratch, why, exit>>
    BY DEF U!Look, U!tree
  <1>3. U!PlanFits(u)'
    BY <1>1, <1>2, Looked, PlanNoted
  <1>4. U!SavesAreKept'
    BY <1>1, <1>2, StillKept
  <1>5. CASE \E l \in {"unlink", "putback"} : U!Goto(u, l) /\ UNCHANGED <<i, kept>>
    <2>1. /\ pc' \in [Upgrade -> U!Before \cup U!Working \cup U!Undoing \cup {"sync", "end"}]
          /\ pc'[u] \in {"unlink", "putback"} /\ \A o \in Upgrade \ {u} : pc'[o] = pc[o]
      BY <1>1, <1>5, Went DEF U!Undoing
    <2>2. U!TypeOK'
      BY <1>1, <1>2, <1>5, <2>1, Looked DEF U!TypeOK
    <2>3. U!Where(u)'
      BY <1>1, <1>2, <1>5, <2>1, Looked
         DEF U!Where, U!Before, U!Working, U!Undoing
    <2>4. U!SavesAside(u)'
      <3> SUFFICES ASSUME NEW p \in U!Owned, backup[u][p] \in Developers, ~kept[u]
                   PROVE  \E k \in 1 .. i[u] : done'[u][k].path = p
        BY <1>2, <1>5, <2>1 DEF U!SavesAside
      <3>1. PICK k \in 1 .. i[u] : done[u][k].path = p
        BY <1>1, Looked DEF U!SavesAside, U!Undoing
      <3>2. k \in DOMAIN done[u]
        BY <1>1, Looked, Mutated
      <3> QED
        BY <3>1, <3>2, Looked
    <2> QED
      BY <1>2, <1>3, <1>4, <1>5, <2>1, <2>2, <2>3, <2>4, Looked, OneUpgrade
  <1>6. CASE U!NextUndo(u) /\ (kept'[u] \/ (UNCHANGED kept /\ ~U!ToRestore(u, U!Recognized(u))))
    <2>1. /\ i[u] \in DOMAIN done[u] /\ DOMAIN done'[u] = DOMAIN done[u] /\ Len(done'[u]) = Len(done[u])
      BY Looked
    <2>2. /\ pc' \in [Upgrade -> U!Before \cup U!Working \cup U!Undoing \cup {"sync", "end"}]
          /\ i' \in [Upgrade -> Nat] /\ pc'[u] = "undo" /\ i'[u] = i[u] - 1
          /\ \A o \in Upgrade \ {u} : pc'[o] = pc[o] /\ i'[o] = i[o]
          /\ i'[u] \in 0 .. Len(done'[u]) /\ 1 .. i'[u] = 1 .. i[u] \ {i[u]}
          /\ 1 .. i'[u] \subseteq DOMAIN done[u] /\ i[u] \in 1 .. i[u]
      BY <1>1, <1>6, <2>1, NextUndoes
    <2>3. U!TypeOK'
      BY <1>1, <1>2, <2>2, Looked DEF U!TypeOK
    <2>4. U!Where(u)'
      BY <1>1, <1>2, <2>2 DEF U!Where, U!Before, U!Working, U!Undoing
    <2>5. U!SavesAside(u)'
      <3> SUFFICES ASSUME NEW p \in U!Owned, backup[u][p] \in Developers, ~kept'[u]
                   PROVE  \E k \in 1 .. i'[u] : done'[u][k].path = p
        BY <1>2, <2>2 DEF U!SavesAside
      <3>1. ~kept[u] /\ ~U!ToRestore(u, U!Recognized(u)) /\ pc[u] = "undo"
        BY <1>6, Looked
      <3>2. PICK k \in 1 .. i[u] : done[u][k].path = p
        BY <1>1, <3>1 DEF U!SavesAside, U!Undoing
      <3>3. k # i[u]
        <4>1. SUFFICES ASSUME k = i[u] PROVE FALSE
          OBVIOUS
        <4>2. U!ToRestore(u, done[u][i[u]])
          BY <2>1, <3>2, <4>1, AsideHad
        <4>3. /\ U!Recognized(u).path = done[u][i[u]].path /\ U!Recognized(u).had = done[u][i[u]].had
              /\ U!Recognized(u).moved = done[u][i[u]].moved
          BY <1>1, <2>1, Recognizes DEF U!Undone
        <4> QED
          BY <3>1, <4>2, <4>3 DEF U!ToRestore
      <3> QED
        BY <2>2, <3>2, <3>3, Looked
    <2> QED
      BY <1>2, <1>3, <1>4, <2>2, <2>3, <2>4, <2>5, Looked, OneUpgrade
  <1> QED
    BY <1>5, <1>6, Looked

LEMMA SavesUnlink ==
    ASSUME U!SavesInv, NEW u \in Upgrade, U!Unlink(u)
    PROVE  U!SavesInv'
  <1>1. /\ U!TypeOK /\ U!Where(u) /\ U!PlanFits(u) /\ U!SavesAside(u) /\ U!SavesAreKept /\ pc[u] = "unlink"
        /\ scratch[u] /\ exit[u] = 0 /\ i[u] \in DOMAIN done[u] /\ i[u] \in 0 .. Len(done[u])
    BY DEF U!SavesInv, U!Unlink, U!Where, U!Undoing
  <1>2. /\ UNCHANGED <<head, saves, own, alone, recorded, ops, backup, done, scratch, why, kept, exit>>
        /\ file' = [file EXCEPT ![U!Undone(u).path] = U!Absent]
        /\ \/ U!Goto(u, "putback") /\ UNCHANGED i
           \/ U!NextUndo(u) /\ ~U!ToRestore(u, U!Undone(u))
    BY DEF U!Unlink
  <1>3. torn' \in BOOLEAN /\ (torn => torn') /\ (~torn' => file[U!Undone(u).path] = U!Undone(u).write)
    BY <1>1 DEF U!Unlink, U!TypeOK
  <1>4. U!Undone(u) \in U!Mutations /\ U!Undone(u).path \in U!Files /\ U!Writes(u, U!Undone(u))
    BY <1>1, Mutated DEF U!Undone, U!PlanFits, U!Mutations
  <1>5. /\ file' \in [U!Files -> U!Content \cup U!Locks] /\ file'[U!Lock] \in U!Locks \cup {U!Absent}
        /\ \A p \in U!Owned : file'[p] \in U!Content
    BY <1>1, <1>2, <1>4, TextFacts DEF U!TypeOK
  <1>6. U!SavesAreKept'
    <2> SUFFICES ASSUME NEW p \in U!Owned, own[p] # U!Absent, ~torn', file'[p] # own[p]
                 PROVE  \E o \in Upgrade : scratch[o] /\ backup[o][p] = own[p]
      BY <1>2 DEF U!SavesAreKept
    <2>1. file[p] # own[p]
      <3>1. CASE p = U!Undone(u).path
        <4>1. file[p] = U!New(u, p)
          BY <1>3, <1>4, <3>1 DEF U!Writes
        <4>2. own[p] \in Developers
          BY <1>1 DEF U!TypeOK
        <4> QED
          BY <4>1, <4>2, NewFacts
      <3>2. CASE p # U!Undone(u).path
        BY <1>1, <1>2, <3>2, TextFacts DEF U!TypeOK
      <3> QED
        BY <3>1, <3>2
    <2> QED
      BY <2>1, <1>1, <1>3 DEF U!SavesAreKept
  <1>7. U!PlanFits(u)'
    BY <1>1, <1>2, PlanNoted
  <1>8. CASE U!Goto(u, "putback") /\ UNCHANGED i
    <2>1. /\ pc' \in [Upgrade -> U!Before \cup U!Working \cup U!Undoing \cup {"sync", "end"}]
          /\ pc'[u] = "putback" /\ \A o \in Upgrade \ {u} : pc'[o] = pc[o]
      BY <1>1, <1>8, Went DEF U!Undoing
    <2>2. U!TypeOK'
      BY <1>1, <1>2, <1>3, <1>5, <1>8, <2>1 DEF U!TypeOK
    <2>3. U!Where(u)'
      BY <1>1, <1>2, <1>8, <2>1
         DEF U!Where, U!Before, U!Working, U!Undoing
    <2>4. U!SavesAside(u)'
      BY <1>1, <1>2, <1>8, <2>1 DEF U!SavesAside, U!Undoing
    <2> QED
      BY <1>2, <1>6, <1>7, <1>8, <2>1, <2>2, <2>3, <2>4, OneUpgrade
  <1>9. CASE U!NextUndo(u) /\ ~U!ToRestore(u, U!Undone(u))
    <2>1. /\ pc' \in [Upgrade -> U!Before \cup U!Working \cup U!Undoing \cup {"sync", "end"}]
          /\ i' \in [Upgrade -> Nat] /\ pc'[u] = "undo" /\ i'[u] = i[u] - 1
          /\ \A o \in Upgrade \ {u} : pc'[o] = pc[o] /\ i'[o] = i[o]
          /\ i'[u] \in 0 .. Len(done'[u]) /\ 1 .. i'[u] = 1 .. i[u] \ {i[u]}
          /\ 1 .. i'[u] \subseteq DOMAIN done[u] /\ i[u] \in 1 .. i[u]
      BY <1>1, <1>2, <1>9, NextUndoes
    <2>2. U!TypeOK'
      BY <1>1, <1>2, <1>3, <1>5, <2>1 DEF U!TypeOK
    <2>3. U!Where(u)'
      BY <1>1, <1>2, <2>1 DEF U!Where, U!Before, U!Working, U!Undoing
    <2>4. U!SavesAside(u)'
      <3> SUFFICES ASSUME NEW p \in U!Owned, backup[u][p] \in Developers, ~kept[u]
                   PROVE  \E k \in 1 .. i'[u] : done[u][k].path = p
        BY <1>2, <2>1 DEF U!SavesAside
      <3>1. PICK k \in 1 .. i[u] : done[u][k].path = p
        BY <1>1 DEF U!SavesAside, U!Undoing
      <3>2. k # i[u]
        BY <1>1, <1>9, <3>1, AsideHad DEF U!Undone
      <3> QED
        BY <2>1, <3>1, <3>2
    <2> QED
      BY <1>2, <1>6, <1>7, <2>1, <2>2, <2>3, <2>4, OneUpgrade
  <1> QED
    BY <1>2, <1>8, <1>9

LEMMA SavesPutBack ==
    ASSUME U!SavesInv, NEW u \in Upgrade, U!PutBack(u)
    PROVE  U!SavesInv'
  <1>1. /\ U!TypeOK /\ U!Where(u) /\ U!PlanFits(u) /\ U!SavesAside(u) /\ U!SavesAreKept /\ pc[u] = "putback"
        /\ scratch[u] /\ exit[u] = 0 /\ i[u] \in DOMAIN done[u] /\ i[u] \in 0 .. Len(done[u])
    BY DEF U!SavesInv, U!PutBack, U!Where, U!Undoing
  <1>2. PICK q : q = U!Undone(u).path
    OBVIOUS
  <1>3. /\ UNCHANGED <<head, saves, own, alone, recorded, ops, done, scratch, why, kept, exit>>
        /\ file' = [file EXCEPT ![q] = backup[u][q]]
        /\ backup' = [backup EXCEPT ![u][q] = U!Absent]
        /\ U!NextUndo(u)
    BY <1>2 DEF U!PutBack
  <1>4. torn' \in BOOLEAN /\ (torn => torn') /\ (~torn' => file[q] = U!Absent)
    BY <1>1, <1>2 DEF U!PutBack, U!TypeOK
  <1>5. q \in U!Files
    BY <1>1, <1>2, Mutated DEF U!Undone, U!Mutations
  <1>6. /\ \A p \in U!Files \ {q} : file'[p] = file[p] /\ backup'[u][p] = backup[u][p]
        /\ file'[q] = backup[u][q] /\ backup'[u][q] = U!Absent
        /\ \A o \in Upgrade \ {u} : backup'[o] = backup[o]
    BY <1>1, <1>3, <1>5 DEF U!TypeOK
  <1>7. /\ file' \in [U!Files -> U!Content \cup U!Locks] /\ file'[U!Lock] \in U!Locks \cup {U!Absent}
        /\ \A p \in U!Owned : file'[p] \in U!Content
    BY <1>1, <1>3, <1>5, <1>6, TextFacts DEF U!TypeOK
  <1>8. /\ backup' \in [Upgrade -> [U!Files -> U!Content \cup U!Locks]]
        /\ \A o \in Upgrade : backup'[o][U!Lock] \in U!Locks \cup {U!Absent}
        /\ \A o \in Upgrade : \A p \in U!Owned : backup'[o][p] \in U!Content
    BY <1>1, <1>3, <1>5, <1>6, TextFacts DEF U!TypeOK
  <1>9. U!SavesAreKept'
    <2> SUFFICES ASSUME NEW p \in U!Owned, own[p] # U!Absent, ~torn', file'[p] # own[p]
                 PROVE  \E o \in Upgrade : scratch[o] /\ backup'[o][p] = own[p]
      BY <1>3 DEF U!SavesAreKept
    <2>1. p \in U!Files
      BY TextFacts
    <2>2. file[p] # own[p]
      BY <1>4, <1>6, <2>1
    <2>3. PICK o \in Upgrade : scratch[o] /\ backup[o][p] = own[p]
      BY <2>2, <1>1, <1>4 DEF U!SavesAreKept
    <2>4. o = u => p # q
      BY <2>3, <1>6
    <2> QED
      BY <2>1, <2>3, <2>4, <1>6
  <1>10. U!PlanFits(u)'
    <2>1. \A p \in U!Files : backup'[u][p] # U!Absent => backup[u][p] # U!Absent
      BY <1>6
    <2> QED
      BY <1>1, <1>3, <2>1 DEF U!PlanFits, U!Writes, U!New, U!NewLock
  <1>11. /\ pc' \in [Upgrade -> U!Before \cup U!Working \cup U!Undoing \cup {"sync", "end"}]
         /\ i' \in [Upgrade -> Nat] /\ pc'[u] = "undo" /\ i'[u] = i[u] - 1
         /\ \A o \in Upgrade \ {u} : pc'[o] = pc[o] /\ i'[o] = i[o]
         /\ i'[u] \in 0 .. Len(done'[u]) /\ 1 .. i'[u] = 1 .. i[u] \ {i[u]}
         /\ 1 .. i'[u] \subseteq DOMAIN done[u] /\ i[u] \in 1 .. i[u]
    BY <1>1, <1>3, NextUndoes
  <1>12. U!TypeOK'
    BY <1>1, <1>3, <1>4, <1>7, <1>8, <1>11 DEF U!TypeOK
  <1>13. U!Where(u)'
    BY <1>1, <1>3, <1>11 DEF U!Where, U!Before, U!Working, U!Undoing
  <1>14. U!SavesAside(u)'
    <2> SUFFICES ASSUME NEW p \in U!Owned, backup'[u][p] \in Developers, ~kept[u]
                 PROVE  \E k \in 1 .. i'[u] : done[u][k].path = p
      BY <1>3, <1>11 DEF U!SavesAside
    <2>1. p # q /\ backup[u][p] \in Developers
      BY <1>6, TextFacts
    <2>2. PICK k \in 1 .. i[u] : done[u][k].path = p
      BY <2>1, <1>1 DEF U!SavesAside, U!Undoing
    <2>3. k # i[u]
      BY <2>1, <2>2, <1>2 DEF U!Undone
    <2> QED
      BY <1>11, <2>2, <2>3
  <1> QED
    BY <1>3, <1>6, <1>9, <1>10, <1>11, <1>12, <1>13, <1>14, OneUpgrade

LEMMA SavesEndUndo ==
    ASSUME U!SavesInv, NEW u \in Upgrade, U!EndUndo(u)
    PROVE  U!SavesInv'
  <1>1. /\ U!TypeOK /\ U!Where(u) /\ U!PlanFits(u) /\ U!SavesAside(u) /\ U!SavesAreKept /\ pc[u] = "undo" /\ i[u] = 0
    BY DEF U!SavesInv, U!EndUndo
  <1>2. /\ UNCHANGED <<file, head, saves, own, torn, alone, i, recorded, ops, done, why, kept>>
        /\ \E code \in {2, 130} : U!End(u, code)
        /\ (kept[u] /\ UNCHANGED <<scratch, backup>>) \/ (~kept[u] /\ U!RemoveScratch(u))
    BY DEF U!EndUndo, U!tree
  <1>3. /\ pc' \in [Upgrade -> U!Before \cup U!Working \cup U!Undoing \cup {"sync", "end"}]
        /\ exit' \in [Upgrade -> {0, 2, 130, 137}]
        /\ pc'[u] = "end" /\ \A o \in Upgrade \ {u} : pc'[o] = pc[o] /\ exit'[o] = exit[o]
    BY <1>1, <1>2, Ended
  <1>4. U!Where(u)'
    BY <1>3 DEF U!Where, U!Before, U!Working, U!Undoing
  <1>5. CASE kept[u] /\ UNCHANGED <<scratch, backup>>
    <2>1. U!TypeOK'
      BY <1>1, <1>2, <1>3, <1>5 DEF U!TypeOK
    <2>2. U!SavesAside(u)'
      BY <1>3 DEF U!SavesAside, U!Undoing
    <2> QED
      BY <1>2, <1>3, <1>4, <1>5, <2>1, <2>2, QuietUpgrade
  <1>6. CASE ~kept[u] /\ U!RemoveScratch(u)
    <2>1. \A p \in U!Owned : backup[u][p] \notin Developers
      <3> SUFFICES ASSUME NEW p \in U!Owned, backup[u][p] \in Developers PROVE FALSE
        OBVIOUS
      <3>1. \E k \in 1 .. i[u] : done[u][k].path = p
        BY <1>1, <1>6 DEF U!SavesAside, U!Undoing
      <3> QED
        BY <1>1, <3>1
    <2>2. /\ U!SavesAreKept' /\ U!PlanFits(u)' /\ U!SavesAside(u)'
          /\ scratch' \in [Upgrade -> BOOLEAN] /\ backup' \in [Upgrade -> [U!Files -> U!Content \cup U!Locks]]
          /\ \A o \in Upgrade : backup'[o][U!Lock] \in U!Locks \cup {U!Absent}
          /\ \A o \in Upgrade : \A p \in U!Owned : backup'[o][p] \in U!Content
          /\ \A o \in Upgrade \ {u} : scratch'[o] = scratch[o] /\ backup'[o] = backup[o]
      BY <1>2, <1>6, <2>1, ScratchGoes
    <2>3. U!TypeOK'
      BY <1>1, <1>2, <1>3, <2>2 DEF U!TypeOK
    <2> QED
      BY <1>2, <1>3, <1>4, <2>2, <2>3, OneUpgrade
  <1> QED
    BY <1>2, <1>5, <1>6

\* A failure or an interrupt of an upgrade that works
LEMMA SavesTurnsBack ==
    ASSUME U!SavesInv, NEW u \in Upgrade, NEW r \in {"error", "interrupt"}, pc[u] \in U!Working, U!Undo(u, r),
           UNCHANGED <<U!tree, torn, alone, recorded, ops, backup, done, scratch, kept, exit>>
    PROVE  U!SavesInv'
  <1>1. /\ U!TypeOK /\ U!Where(u) /\ U!PlanFits(u) /\ U!SavesAside(u) /\ U!SavesAreKept
    BY DEF U!SavesInv
  <1>2. /\ Len(done'[u]) \in Nat /\ Len(done'[u]) = Len(done[u])
    BY <1>1, Mutated
  <1>3. /\ pc' \in [Upgrade -> U!Before \cup U!Working \cup U!Undoing \cup {"sync", "end"}]
        /\ i' \in [Upgrade -> Nat] /\ why' \in [Upgrade -> {"none", "error", "interrupt"}]
        /\ pc'[u] = "undo" /\ i'[u] = Len(done'[u])
        /\ \A o \in Upgrade \ {u} : pc'[o] = pc[o] /\ i'[o] = i[o]
    BY <1>1, <1>2, Undoes
  <1>4. U!TypeOK'
    BY <1>1, <1>3 DEF U!TypeOK, U!tree
  <1>5. U!Where(u)'
    BY <1>1, <1>2, <1>3 DEF U!Where, U!Before, U!Working, U!Undoing
  <1>6. U!SavesAside(u)'
    <2> SUFFICES ASSUME NEW p \in U!Owned, backup[u][p] \in Developers
                 PROVE  \E k \in 1 .. Len(done[u]) : done[u][k].path = p
      BY <1>2, <1>3 DEF U!SavesAside
    <2>1. pc[u] = "compare" /\ p = U!This(u).path
      BY <1>1 DEF U!SavesAside, U!Working
    <2>2. Len(done[u]) \in 1 .. Len(done[u])
      BY <1>1, <1>2, <2>1, Marked, Mutated DEF U!Where
    <2> QED
      BY <2>1, <2>2 DEF U!This
  <1>7. UNCHANGED <<file, own>>
    BY DEF U!tree
  <1> QED
    BY <1>3, <1>4, <1>5, <1>6, <1>7, QuietUpgrade

\* An upgrade is ended: all its files stay where they are.
LEMMA SavesEnd ==
    ASSUME U!SavesInv, NEW u \in Upgrade, NEW code \in {130, 137}, U!End(u, code),
           UNCHANGED <<U!tree, torn, alone, U!run>>
    PROVE  U!SavesInv'
  <1>1. U!TypeOK
    BY DEF U!SavesInv
  <1>2. UNCHANGED <<file, head, saves, own, torn, alone, i, recorded, ops, backup, done, scratch, why, kept>>
    BY DEF U!tree, U!run
  <1>3. /\ pc' \in [Upgrade -> U!Before \cup U!Working \cup U!Undoing \cup {"sync", "end"}]
        /\ exit' \in [Upgrade -> {0, 2, 130, 137}]
        /\ pc'[u] = "end" /\ \A o \in Upgrade \ {u} : pc'[o] = pc[o] /\ exit'[o] = exit[o]
    BY <1>1, Ended
  <1>4. U!TypeOK'
    BY <1>1, <1>2, <1>3 DEF U!TypeOK
  <1>5. U!Where(u)' /\ U!SavesAside(u)'
    BY <1>3
       DEF U!Where, U!SavesAside, U!Before, U!Working,
           U!Undoing
  <1> QED
    BY <1>2, <1>3, <1>4, <1>5, QuietUpgrade

LEMMA SavesInterrupt ==
    ASSUME U!SavesInv, NEW u \in Upgrade, U!Interrupt(u)
    PROVE  U!SavesInv'
  <1>1. U!TypeOK
    BY DEF U!SavesInv
  <1>2. UNCHANGED <<U!tree, alone, recorded, ops, done, kept>>
    BY DEF U!Interrupt
  <1>3. CASE pc[u] \in U!Working /\ U!Undo(u, "interrupt") /\ UNCHANGED <<torn, scratch, backup, exit>>
    BY <1>2, <1>3, SavesTurnsBack
  <1>4. CASE U!End(u, 130) /\ UNCHANGED <<torn, i, why, scratch, backup>>
    BY <1>2, <1>4, SavesEnd DEF U!run
  <1>5. CASE U!End(u, 130) /\ U!RemoveScratch(u) /\ torn' = TRUE /\ UNCHANGED <<i, why>>
    <2>1. /\ pc' \in [Upgrade -> U!Before \cup U!Working \cup U!Undoing \cup {"sync", "end"}]
          /\ exit' \in [Upgrade -> {0, 2, 130, 137}]
          /\ pc'[u] = "end" /\ \A o \in Upgrade \ {u} : pc'[o] = pc[o] /\ exit'[o] = exit[o]
      BY <1>1, <1>5, Ended
    <2>2. UNCHANGED <<file, head, saves, own>>
      BY <1>2 DEF U!tree
    <2>3. /\ U!SavesAreKept' /\ U!PlanFits(u)' /\ U!SavesAside(u)'
          /\ scratch' \in [Upgrade -> BOOLEAN] /\ backup' \in [Upgrade -> [U!Files -> U!Content \cup U!Locks]]
          /\ \A o \in Upgrade : backup'[o][U!Lock] \in U!Locks \cup {U!Absent}
          /\ \A o \in Upgrade : \A p \in U!Owned : backup'[o][p] \in U!Content
          /\ \A o \in Upgrade \ {u} : scratch'[o] = scratch[o] /\ backup'[o] = backup[o]
      BY <1>2, <1>5, <2>2, ScratchGoes
    <2>4. U!TypeOK'
      BY <1>1, <1>2, <1>5, <2>1, <2>2, <2>3 DEF U!TypeOK
    <2>5. U!Where(u)'
      BY <2>1 DEF U!Where, U!Before, U!Working, U!Undoing
    <2> QED
      BY <1>2, <1>5, <2>1, <2>3, <2>4, <2>5, OneUpgrade
  <1> QED
    BY <1>3, <1>4, <1>5 DEF U!Interrupt

LEMMA SavesEdit ==
    ASSUME U!SavesInv, NEW p \in U!Files, NEW c \in Developers \cup {U!Absent}, U!Edit(p, c)
    PROVE  U!SavesInv'
  <1>1. /\ U!TypeOK /\ U!SavesAreKept /\ \A u \in Upgrade : U!PlanFits(u) /\ U!Where(u) /\ U!SavesAside(u)
    BY DEF U!SavesInv
  <1>2. /\ UNCHANGED <<head, torn, alone, pc, i, recorded, ops, backup, done, scratch, why, kept, exit>>
        /\ saves' = saves + 1 /\ p # U!Lock /\ file' = [file EXCEPT ![p] = c]
        /\ own' = IF p \in U!Owned THEN [own EXCEPT ![p] = c] ELSE own
    BY DEF U!Edit, U!run
  <1>3. U!TypeOK'
    <2>1. /\ file' \in [U!Files -> U!Content \cup U!Locks] /\ file'[U!Lock] \in U!Locks \cup {U!Absent}
          /\ \A q \in U!Owned : file'[q] \in U!Content
      BY <1>1, <1>2, TextFacts DEF U!TypeOK
    <2>2. saves' \in Nat /\ own' \in [U!Owned -> Developers \cup {U!Absent}]
      BY <1>1, <1>2 DEF U!TypeOK
    <2> QED
      BY <1>1, <1>2, <2>1, <2>2 DEF U!TypeOK
  <1>4. U!SavesAreKept'
    <2> SUFFICES ASSUME NEW q \in U!Owned, own'[q] # U!Absent, ~torn, file'[q] # own'[q]
                 PROVE  \E u \in Upgrade : scratch[u] /\ backup[u][q] = own'[q]
      BY <1>2 DEF U!SavesAreKept
    <2>1. q # p
      BY <1>1, <1>2 DEF U!TypeOK
    <2>2. file'[q] = file[q] /\ own'[q] = own[q]
      BY <1>1, <1>2, <2>1, TextFacts DEF U!TypeOK
    <2> QED
      BY <1>1, <2>2 DEF U!SavesAreKept
  <1>5. \A u \in Upgrade : U!PlanFits(u)' /\ U!Where(u)' /\ U!SavesAside(u)'
    BY <1>1, <1>2
       DEF U!PlanFits, U!Where, U!SavesAside, U!Writes, U!New,
           U!NewLock, U!This
  <1> QED
    BY <1>3, <1>4, <1>5 DEF U!SavesInv

LEMMA SavesStutter ==
    ASSUME U!SavesInv, UNCHANGED <<file, saves, own, torn, alone, pc, i, recorded, ops, backup, done, scratch,
                          why, kept, exit>>
    PROVE  U!SavesInv'
  <1>1. /\ U!TypeOK /\ U!SavesAreKept /\ \A u \in Upgrade : U!PlanFits(u) /\ U!Where(u) /\ U!SavesAside(u)
    BY DEF U!SavesInv
  <1>2. U!TypeOK' /\ U!SavesAreKept'
    BY <1>1 DEF U!TypeOK, U!SavesAreKept
  <1>3. \A u \in Upgrade : U!PlanFits(u)' /\ U!Where(u)' /\ U!SavesAside(u)'
    BY <1>1
       DEF U!PlanFits, U!Where, U!SavesAside, U!Writes, U!New,
           U!NewLock, U!This
  <1> QED
    BY <1>2, <1>3 DEF U!SavesInv

LEMMA SavesInit == U!Init => U!SavesInv
  <1> SUFFICES ASSUME U!Init PROVE U!SavesInv
    OBVIOUS
  <1>1. U!LockOf(1) \in U!Locks
    BY DEF U!Locks, U!Versions
  <1>2. \A p \in U!Owned : Offers[p][1] \in U!Content
    <2>1. \A p \in U!Owned : 1 \in DOMAIN Offers[p]
      BY TemplateAssumption DEF U!ConstantsFit, U!Versions
    <2>2. \A p \in U!Owned : Offers[p][1] \in U!Range(Offers[p])
      BY <2>1 DEF U!Range
    <2> QED
      BY <2>2 DEF U!Content, U!OfTemplate
  <1>3. /\ file \in [U!Files -> U!Content \cup U!Locks] /\ file[U!Lock] \in U!Locks \cup {U!Absent}
        /\ \A p \in U!Owned : file[p] \in U!Content
    BY <1>1, <1>2, TextFacts DEF U!Init
  <1>4. U!TypeOK
    <2>1. /\ saves \in Nat /\ own \in [U!Owned -> Developers \cup {U!Absent}]
          /\ torn \in BOOLEAN /\ alone \in BOOLEAN
          /\ pc \in [Upgrade -> U!Before \cup U!Working \cup U!Undoing \cup {"sync", "end"}]
          /\ i \in [Upgrade -> Nat] /\ recorded \in [Upgrade -> U!Locks \cup {U!Absent}]
          /\ ops \in [Upgrade -> SUBSET U!Operations]
          /\ why \in [Upgrade -> {"none", "error", "interrupt"}]
          /\ exit \in [Upgrade -> {0, 2, 130, 137}]
      BY <1>3 DEF U!Init, U!Before
    <2>2. /\ backup \in [Upgrade -> [U!Files -> U!Content \cup U!Locks]]
          /\ \A u \in Upgrade : backup[u][U!Lock] \in U!Locks \cup {U!Absent}
          /\ \A u \in Upgrade : \A p \in U!Owned : backup[u][p] \in U!Content
      BY TextFacts DEF U!Init
    <2>3. done \in [Upgrade -> Seq(U!Mutations)]
      BY DEF U!Init
    <2>4. scratch \in [Upgrade -> BOOLEAN] /\ kept \in [Upgrade -> BOOLEAN]
      BY DEF U!Init
    <2> QED
      BY <1>3, <2>1, <2>2, <2>3, <2>4 DEF U!TypeOK
  <1>5. U!SavesAreKept
    BY DEF U!Init, U!SavesAreKept
  <1>6. ASSUME NEW u \in Upgrade
        PROVE  U!PlanFits(u) /\ U!Where(u) /\ U!SavesAside(u)
    <2>1. /\ pc[u] = "check" /\ ops[u] = {} /\ done[u] = <<>> /\ ~kept[u] /\ exit[u] = 0
          /\ \A p \in U!Files : backup[u][p] = U!Absent
      BY DEF U!Init
    <2> QED
      BY <2>1, TextFacts
         DEF U!PlanFits, U!Where, U!SavesAside, U!Before,
             U!Working, U!Undoing
  <1> QED
    BY <1>4, <1>5, <1>6 DEF U!SavesInv

LEMMA SavesStep == ASSUME U!SavesInv, U!Next PROVE U!SavesInv'
  <1>1. ASSUME NEW u \in Upgrade, U!Step(u)
        PROVE  U!SavesInv'
    <2>1. CASE U!Fail(u)
      BY <2>1, SavesTurnsBack DEF U!Fail
    <2>2. CASE U!Kill(u)
      BY <2>2, SavesEnd DEF U!Kill
    <2> QED
      BY <1>1, <2>1, <2>2, SavesBefore, SavesPlan, SavesMove, SavesCompare, SavesInstall,
         SavesFinish, SavesLook, SavesUnlink, SavesPutBack, SavesEndUndo, SavesInterrupt
         DEF U!Step
  <1>2. CASE U!Commit
    BY <1>2, SavesStutter DEF U!Commit, U!run
  <1> QED
    BY <1>1, <1>2, SavesEdit DEF U!Next

-----------------------------------------------------------------------------
(* The lock file names what is installed: step by step *)

\* What Fits says only gets weaker when the developer does something.
LEMMA FitsStays ==
    ASSUME NEW l, NEW p \in U!Owned, NEW c, saves > 0 => saves' > 0, U!Fits(l, p, c)
    PROVE  U!Fits(l, p, c)'
    BY DEF U!Fits

LEMMA NewFits ==
    ASSUME NEW u \in Upgrade, NEW p \in U!Owned
    PROVE  U!Fits(U!NewLock(u), p, U!New(u, p))
    BY NewInstalled, TextFacts DEF U!Fits

\* An upgrade that ends badly is no longer undisturbed, and nothing else mends it.
LEMMA OnlyOne ==
    ASSUME U!SavesInv, U!LockInv, NEW u \in Upgrade, U!Active(u), U!Undisturbed', alone' => alone, torn => torn',
           exit[u] = 137 => exit'[u] = 137, pc'[u] = "end" /\ kept[u] => kept'[u],
           \A o \in Upgrade \ {u} : pc'[o] = pc[o] /\ exit'[o] = exit[o] /\ kept'[o] = kept[o]
    PROVE  /\ U!Undisturbed /\ alone /\ U!Underway(u)
           /\ \A o \in Upgrade \ {u} : ~U!Active(o) /\ ~U!Active(o)'
  <1>1. alone /\ ~torn
    BY DEF U!Undisturbed
  <1>2. \A o \in Upgrade \ {u} : ~U!Active(o)
    BY <1>1 DEF U!LockInv
  <1>3. \A o \in Upgrade \ {u} : ~U!Active(o)'
    BY <1>2 DEF U!Active
  <1>4. U!Undisturbed
    BY <1>1 DEF U!Undisturbed, U!Active
  <1> QED
    BY <1>1, <1>2, <1>3, <1>4 DEF U!LockInv

\* A step of an upgrade that runs
LEMMA LockGoes ==
    ASSUME U!SavesInv, U!LockInv, NEW u \in Upgrade, U!Active(u), alone' = alone, torn => torn',
           exit[u] = 137 => exit'[u] = 137, kept[u] => kept'[u],
           \A o \in Upgrade \ {u} : pc'[o] = pc[o] /\ exit'[o] = exit[o] /\ kept'[o] = kept[o],
           U!Undisturbed /\ U!Underway(u) /\ U!Undisturbed' => IF pc'[u] = "end" THEN U!Agree' ELSE U!Underway(u)'
    PROVE  U!LockInv'
  <1>1. alone' => \A o, q \in Upgrade : U!Active(o)' /\ U!Active(q)' => o = q
    <2> SUFFICES ASSUME alone', NEW o \in Upgrade, NEW q \in Upgrade, U!Active(o)', U!Active(q)'
                 PROVE  o = q
      OBVIOUS
    <2>1. U!Active(o) /\ U!Active(q)
      BY DEF U!Active
    <2> QED
      BY <2>1 DEF U!LockInv
  <1>2. ASSUME U!Undisturbed'
        PROVE  IF \E o \in Upgrade : U!Active(o)' THEN \A o \in Upgrade : U!Active(o)' => U!Underway(o)' ELSE U!Agree'
    <2>1. /\ U!Undisturbed /\ U!Underway(u) /\ \A o \in Upgrade \ {u} : ~U!Active(o)'
      BY <1>2, OnlyOne
    <2>2. IF pc'[u] = "end" THEN U!Agree' ELSE U!Underway(u)'
      BY <1>2, <2>1
    <2>3. CASE pc'[u] = "end"
      BY <2>1, <2>2, <2>3 DEF U!Active
    <2>4. CASE pc'[u] # "end"
      BY <2>1, <2>2, <2>4 DEF U!Active, U!Underway, U!Before
    <2> QED
      BY <2>3, <2>4
  <1> QED
    BY <1>1, <1>2 DEF U!LockInv

\* The step leaves the files and the developer alone.
LEMMA AgreeStays == ASSUME U!Agree, UNCHANGED <<file, saves>> PROVE U!Agree'
    BY DEF U!Agree, U!Fits

LEMMA ForwardStays ==
    ASSUME NEW u \in Upgrade, U!Forward(u), UNCHANGED <<file, saves, recorded, ops>>, pc[u] # "compare", pc[u] # "install",
           pc'[u] # "compare", pc'[u] # "install", done'[u] = done[u]
    PROVE  U!Forward(u)'
    BY DEF U!Forward, U!Fits, U!Planned, U!Begun, U!Current,
           U!NewLock

LEMMA LockCheck ==
    ASSUME U!SavesInv, U!LockInv, NEW u \in Upgrade, U!Check(u)
    PROVE  U!LockInv'
  <1>1. /\ UNCHANGED <<file, saves, torn, i, kept, recorded>>
        /\ pc'[u] \in {"lock", "end"} /\ (pc'[u] = "end" => exit'[u] = 2)
        /\ \A o \in Upgrade \ {u} : pc'[o] = pc[o] /\ exit'[o] = exit[o]
        /\ alone' = (alone /\ \A o \in Upgrade : pc[o] \in {"check", "end"})
        /\ pc[u] = "check"
    BY DEF U!SavesInv, U!TypeOK, U!Check, U!Goto, U!End,
           U!tree, U!run
  <1>2. alone' => \A o \in Upgrade : ~U!Active(o)
    BY <1>1 DEF U!Active
  <1>3. \A o \in Upgrade \ {u} : alone' => ~U!Active(o)'
    BY <1>1, <1>2 DEF U!Active
  <1>4. U!Undisturbed' => U!Undisturbed
    <2> SUFFICES ASSUME U!Undisturbed' PROVE U!Undisturbed
      OBVIOUS
    <2>1. exit[u] = 0
      BY <1>1 DEF U!SavesInv, U!Where
    <2>2. alone
      BY <1>1 DEF U!Undisturbed
    <2>3. ~torn
      BY <1>1 DEF U!Undisturbed
    <2>4. ASSUME NEW o \in Upgrade PROVE exit[o] # 137 /\ (pc[o] = "end" => ~kept[o])
      BY <1>1, <2>1 DEF U!Undisturbed
    <2> QED
      BY <2>2, <2>3, <2>4 DEF U!Undisturbed
  <1>5. U!Undisturbed' => U!Agree'
    BY <1>1, <1>2, <1>4, AgreeStays DEF U!LockInv, U!Undisturbed
  <1>6. U!Undisturbed' /\ U!Active(u)' => U!Underway(u)'
    BY <1>1, <1>5
       DEF U!Underway, U!Active, U!Before, U!Working, U!Undoing
  <1> QED
    BY <1>3, <1>5, <1>6 DEF U!LockInv, U!Undisturbed

LEMMA LockBefore ==
    ASSUME U!SavesInv, U!LockInv, NEW u \in Upgrade, U!ReadLock(u) \/ U!Stage(u) \/ U!Sync(u)
    PROVE  U!LockInv'
  <1>1. /\ U!TypeOK /\ U!Where(u) /\ pc[u] \in {"lock", "stage", "sync"} /\ U!Active(u)
    BY DEF U!SavesInv, U!ReadLock, U!Stage, U!Sync, U!Active
  <1>2. /\ UNCHANGED <<file, saves, torn, alone, ops, done, kept>>
        /\ \A o \in Upgrade \ {u} : pc'[o] = pc[o] /\ exit'[o] = exit[o]
        /\ pc'[u] = "end" => exit'[u] # 137
        /\ pc'[u] # "end" => exit'[u] = exit[u]
        /\ \/ pc'[u] = "end"
           \/ pc[u] = "lock" /\ pc'[u] = "plan" /\ recorded'[u] = file[U!Lock]
           \/ pc[u] = "stage" /\ pc'[u] = "move" /\ UNCHANGED recorded
    <2>1. CASE U!ReadLock(u)
      BY <1>1, <2>1 DEF U!TypeOK, U!ReadLock, U!Goto, U!tree
    <2>2. CASE U!Stage(u)
      BY <1>1, <2>2 DEF U!TypeOK, U!Stage, U!Goto, U!End, U!tree
    <2>3. CASE U!Sync(u)
      BY <1>1, <2>3
         DEF U!TypeOK, U!Sync, U!Goto, U!End, U!tree,
             U!run
    <2> QED
      BY <2>1, <2>2, <2>3
  <1>3. exit[u] = 0
    BY <1>1 DEF U!Where
  <1>4. ASSUME U!Undisturbed, U!Underway(u)
        PROVE  IF pc'[u] = "end" THEN U!Agree' ELSE U!Underway(u)'
    <2>1. U!Agree
      BY <1>1, <1>4 DEF U!Underway, U!Before
    <2>2. U!Agree'
      BY <1>2, <2>1, AgreeStays
    <2>3. CASE pc[u] = "lock" /\ pc'[u] = "plan" /\ recorded'[u] = file[U!Lock]
      BY <1>2, <2>2, <2>3 DEF U!Underway, U!Before, U!Working, U!Undoing
    <2>4. CASE pc[u] = "stage" /\ pc'[u] = "move" /\ UNCHANGED recorded
      <3>1. U!Forward(u)'
        BY <1>2, <1>4, <2>4, ForwardStays DEF U!Underway
      <3>2. done'[u] = <<>>
        BY <1>1, <1>2, <2>4 DEF U!Where, U!Before
      <3>3. U!ToUndo(u)' = {}
        BY <2>4, <3>2 DEF U!ToUndo, U!Undoing
      <3> QED
        BY <2>4, <3>1, <3>3
           DEF U!Underway, U!Before, U!Working, U!Undoing
    <2> QED
      BY <1>2, <2>2, <2>3, <2>4
  <1> QED
    BY <1>1, <1>2, <1>3, <1>4, LockGoes

\* A file that the plan leaves alone fits the new lock file as it is.
LEMMA LeftAlone ==
    ASSUME U!SavesInv, NEW u \in Upgrade, NEW p \in U!Owned, U!Fits(recorded[u], p, file[p]), U!Operation(u, p) = {}
    PROVE  U!Fits(U!NewLock(u), p, file[p])
  <1>1. PICK last, local, new : last = U!Installed(recorded[u], p) /\ local = file[p] /\ new = U!New(u, p)
    OBVIOUS
  <1>2. recorded[u] \in U!Locks \cup {U!Absent}
    BY DEF U!SavesInv, U!TypeOK
  <1>3. <<last>> \in U!OfTemplate(p) => last # 0
    BY <1>1, <1>2, InstalledFacts
  <1>4. /\ new = U!Absent => U!Installed(U!NewLock(u), p) = 0
        /\ new # U!Absent => new = <<U!Installed(U!NewLock(u), p)>>
    BY <1>1, NewInstalled
  <1>5. IF local = U!Absent THEN saves > 0 \/ last = 0 ELSE local \in U!OfTemplate(p) => local = <<last>>
    BY <1>1 DEF U!Fits
  <1>6. U!Kind(u, p) \notin {"CREATE", "UPDATE", "DELETE"}
    <2>1. p # U!Lock
      BY TextFacts
    <2> QED
      BY <2>1 DEF U!Operation
  <1>7. SUFFICES IF local = U!Absent THEN saves > 0 \/ U!Installed(U!NewLock(u), p) = 0
                 ELSE local \in U!OfTemplate(p) => local = <<U!Installed(U!NewLock(u), p)>>
    BY <1>1 DEF U!Fits
  <1>8. CASE new = U!Absent
    <2>1. CASE last = 0 \/ local = U!Absent
      BY <1>3, <1>4, <1>5, <1>8, <2>1
    <2>2. CASE last # 0 /\ local # U!Absent
      <3>1. <<last>> # local
        BY <1>1, <1>6, <1>8, <2>2 DEF U!Kind
      <3> QED
        BY <1>5, <2>2, <3>1
    <2> QED
      BY <2>1, <2>2
  <1>9. CASE new # U!Absent /\ local = U!Absent
    <2>1. last # 0
      <3>1. U!Kind(u, p) = IF last = 0 THEN "CREATE" ELSE "KEEP-DELETED"
        <4>1. U!New(u, p) # U!Absent /\ file[p] = U!Absent /\ U!Installed(recorded[u], p) = last
          BY <1>1, <1>9
        <4>2. CASE last = 0
          BY <4>1, <4>2 DEF U!Kind
        <4>3. CASE last # 0
          BY <4>1, <4>3 DEF U!Kind
        <4> QED
          BY <4>2, <4>3
      <3> QED
        BY <1>6, <3>1
    <2> QED
      BY <1>5, <1>9, <2>1
  <1>10. CASE new # U!Absent /\ local # U!Absent
    <2>1. CASE local = new
      BY <1>4, <1>10, <2>1
    <2>2. CASE local # new
      <3>1. <<last>> # local
        BY <1>1, <1>6, <1>10, <2>2 DEF U!Kind
      <3> QED
        BY <1>5, <1>10, <3>1
    <2> QED
      BY <2>1, <2>2
  <1> QED
    BY <1>8, <1>9, <1>10

LEMMA LockPlan ==
    ASSUME U!SavesInv, U!LockInv, NEW u \in Upgrade, U!Plan(u)
    PROVE  U!LockInv'
  <1>1. /\ U!TypeOK /\ U!Where(u) /\ pc[u] = "plan" /\ U!Active(u) /\ done[u] = <<>> /\ exit[u] = 0
    BY DEF U!SavesInv, U!Plan, U!Active, U!Where, U!Before
  <1>2. PICK all : all = UNION {U!Operation(u, p) : p \in U!Files}
    OBVIOUS
  <1>3. /\ UNCHANGED <<file, saves, torn, alone, recorded, done, kept>>
        /\ \/ U!End(u, 2) /\ UNCHANGED ops
           \/ ops' = [ops EXCEPT ![u] = all] /\ U!Goto(u, "stage") /\ UNCHANGED exit
    BY <1>2 DEF U!Plan, U!tree
  <1>4. /\ \A o \in Upgrade \ {u} : pc'[o] = pc[o] /\ exit'[o] = exit[o]
        /\ \/ pc'[u] = "end" /\ exit'[u] = 2
           \/ pc'[u] = "stage" /\ exit'[u] = exit[u] /\ ops'[u] = all
    BY <1>1, <1>3 DEF U!TypeOK, U!Goto, U!End
  <1>5. ASSUME U!Undisturbed, U!Underway(u)
        PROVE  IF pc'[u] = "end" THEN U!Agree' ELSE U!Underway(u)'
    <2>1. U!Agree /\ recorded[u] = file[U!Lock]
      BY <1>1, <1>5 DEF U!Underway, U!Before
    <2>2. U!Agree'
      BY <1>3, <2>1, AgreeStays
    <2>3. CASE pc'[u] = "stage" /\ ops'[u] = all
      <3>1. recorded'[u] \in U!Locks
        BY <1>3, <2>1 DEF U!Agree
      <3>2. U!Planned(u, U!Lock)'
        <4>1. U!Op(U!Lock, U!NewLock(u), recorded[u]) \in all
          BY <1>2, TextFacts DEF U!Operation
        <4> QED
          BY <2>3, <4>1 DEF U!Planned, U!Op
      <3>3. ASSUME NEW p \in U!Owned
            PROVE  /\ U!Fits(recorded[u], p, file[p])'
                   /\ ~U!Planned(u, p)' => U!Fits(U!NewLock(u), p, file[p])'
        <4>1. U!Fits(recorded[u], p, file[p])
          BY <2>1 DEF U!Agree
        <4>2. ~U!Planned(u, p)' => U!Operation(u, p) = {}
          <5> SUFFICES ASSUME NEW o \in U!Operation(u, p) PROVE U!Planned(u, p)'
            OBVIOUS
          <5>1. p \in U!Files
            BY TextFacts
          <5>2. o \in ops'[u] /\ o.path = p
            BY <1>2, <2>3, <5>1, Planning
          <5> QED
            BY <5>2 DEF U!Planned
        <4>3. U!Operation(u, p) = {} => U!Fits(U!NewLock(u), p, file[p])
          BY <4>1, LeftAlone
        <4> QED
          BY <1>3, <4>1, <4>2, <4>3 DEF U!Fits, U!NewLock
      <3>4. U!Forward(u)'
        <4>1. \A p : ~U!Begun(u, p)'
          BY <1>1, <1>3 DEF U!Begun
        <4>2. file'[U!Lock] = recorded'[u]
          BY <1>3, <2>1
        <4> QED
          BY <3>1, <3>2, <3>3, <4>1, <4>2 DEF U!Forward
      <3>5. recorded'[u] = file'[U!Lock]
        BY <1>3, <2>1
      <3> QED
        BY <2>2, <2>3, <3>4, <3>5
           DEF U!Underway, U!Before, U!Working, U!Undoing
    <2> QED
      BY <1>4, <2>2, <2>3
  <1> QED
    BY <1>1, <1>3, <1>4, <1>5, LockGoes

\* What was moved aside fits the old lock file.
LEMMA Moved ==
    ASSUME U!SavesInv, NEW u \in Upgrade, U!Forward(u), NEW o \in ops[u], pc[u] = "move", NEW m \in U!Mutations,
           UNCHANGED <<saves, recorded>>,
           m.path = o.path, m.had = (file[o.path] # U!Absent),
           file' = [file EXCEPT ![o.path] = U!Absent], backup' = [backup EXCEPT ![u][o.path] = file[o.path]]
    PROVE  U!Reversible(u, m)'
  <1>1. /\ U!TypeOK /\ U!PlanFits(u) /\ o.path \in U!Files
    BY DEF U!SavesInv, U!TypeOK, U!Operations
  <1>2. file'[o.path] = U!Absent /\ backup'[u][o.path] = file[o.path]
    BY <1>1 DEF U!TypeOK
  <1>3. ~U!Begun(u, o.path)
    BY <1>1 DEF U!PlanFits, U!Begun
  <1>8. PICK c : c = file[o.path]
    OBVIOUS
  <1>4. o.path \in U!Owned => U!Fits(recorded[u], o.path, c)'
    <2>1. o.path \in U!Owned => U!Fits(recorded[u], o.path, c)
      BY <1>3, <1>8 DEF U!Forward
    <2> QED
      BY <2>1 DEF U!Fits
  <1>5. o.path = U!Lock => file[U!Lock] = recorded[u] /\ recorded[u] # U!Absent
    BY <1>3, TextFacts DEF U!Forward
  <1>6. CASE m.had
    <2>1. backup'[u][o.path] = c /\ c # U!Absent
      BY <1>2, <1>6, <1>8
    <2> QED
      BY <1>2, <1>4, <1>5, <1>6, <1>8, <2>1, TextFacts DEF U!Reversible
  <1>7. CASE ~m.had
    <2>1. c = U!Absent
      BY <1>7, <1>8
    <2> QED
      BY <1>2, <1>4, <1>5, <1>7, <1>8, <2>1, TextFacts DEF U!Reversible
  <1> QED
    BY <1>6, <1>7

\* What concerns one file depends on that file alone.
LEMMA ReversibleStays ==
    ASSUME NEW u \in Upgrade, NEW m, NEW n, U!Reversible(u, m), UNCHANGED <<saves, recorded>>,
           n.path = m.path, n.write = m.write, n.had = m.had, m.ready => n.ready,
           file'[m.path] = file[m.path], backup'[u][m.path] = backup[u][m.path]
    PROVE  U!Reversible(u, n)'
    BY DEF U!Reversible, U!Fits

LEMMA LockMove ==
    ASSUME U!SavesInv, U!LockInv, NEW u \in Upgrade, U!MoveAside(u)
    PROVE  U!LockInv'
  <1>1. /\ U!TypeOK /\ U!Where(u) /\ U!PlanFits(u) /\ pc[u] = "move" /\ U!Active(u) /\ exit[u] = 0 /\ ~kept[u]
    BY DEF U!SavesInv, U!MoveAside, U!Active, U!Where, U!Working
  <1>2. PICK o \in ops[u], m \in U!Mutations :
          /\ m.path = o.path /\ m.had = (file[o.path] # U!Absent)
          /\ ops' = [ops EXCEPT ![u] = @ \ {o}]
          /\ file' = [file EXCEPT ![o.path] = U!Absent]
          /\ backup' = [backup EXCEPT ![u][o.path] = file[o.path]]
          /\ done' = [done EXCEPT ![u] = Append(@, m)]
          /\ U!Goto(u, "compare") \/ U!Undo(u, "interrupt")
    BY <1>1, MovedAside
  <1>3. /\ o \in U!Operations /\ o.path \in U!Files
        /\ \A k \in DOMAIN done[u] : done[u][k].path # o.path
        /\ \A q \in ops[u] : q.path = o.path => q = o
    BY <1>1, <1>2 DEF U!TypeOK, U!PlanFits, U!Operations
  <1>4. /\ Len(done'[u]) = Len(done[u]) + 1 /\ Len(done[u]) \in Nat
        /\ DOMAIN done'[u] = 1 .. Len(done[u]) + 1 /\ DOMAIN done[u] = 1 .. Len(done[u])
        /\ \A k \in DOMAIN done[u] : done'[u][k] = done[u][k] /\ done[u][k] \in U!Mutations
        /\ done'[u][Len(done[u]) + 1] = m /\ done'[u][Len(done'[u])] = m
    BY <1>1, <1>2, Appended
  <1>5. /\ UNCHANGED <<saves, alone, torn, recorded, kept, exit>>
        /\ \A q \in Upgrade \ {u} : pc'[q] = pc[q]
        /\ pc'[u] = "compare" \/ (pc'[u] = "undo" /\ i'[u] = Len(done'[u]))
    BY <1>1, <1>2 DEF U!MoveAside, U!Goto, U!Undo, U!TypeOK
  <1>6. /\ \A p \in U!Files \ {o.path} : file'[p] = file[p] /\ backup'[u][p] = backup[u][p]
        /\ ops'[u] = ops[u] \ {o}
    BY <1>1, <1>2, <1>3 DEF U!TypeOK
  <1>7. ASSUME U!Undisturbed, U!Underway(u)
        PROVE  U!Underway(u)'
    <2>1. U!Forward(u) /\ \A k \in DOMAIN done[u] : U!Reversible(u, done[u][k])
      BY <1>1, <1>7 DEF U!Underway, U!Working, U!ToUndo, U!Undoing
    <2>2. U!ToUndo(u)' = DOMAIN done'[u]
      BY <1>4, <1>5 DEF U!ToUndo, U!Undoing
    <2>3. ASSUME NEW k \in DOMAIN done'[u]
          PROVE  U!Reversible(u, done[u][k])'
      <3>1. CASE k \in DOMAIN done[u]
        <4>1. done[u][k].path \in U!Files \ {o.path}
          BY <1>3, <1>4, <3>1 DEF U!Mutations
        <4>2. U!Reversible(u, done[u][k])
          BY <2>1, <3>1
        <4>3. done'[u][k] = done[u][k]
          BY <1>4, <3>1
        <4> QED
          BY <1>5, <1>6, <4>1, <4>2, <4>3, ReversibleStays
      <3>2. CASE k \notin DOMAIN done[u]
        <4>1. done'[u][k] = m
          BY <1>4, <3>2
        <4> QED
          BY <1>1, <1>2, <1>5, <2>1, <4>1, Moved
      <3> QED
        BY <3>1, <3>2
    <2>4. \A p : U!Begun(u, p)' <=> (U!Begun(u, p) \/ p = o.path)
      <3>1. \A p : U!Begun(u, p) => U!Begun(u, p)'
        BY <1>4 DEF U!Begun
      <3>2. U!Begun(u, o.path)'
        <4>1. Len(done[u]) + 1 \in DOMAIN done'[u]
          BY <1>4
        <4> QED
          BY <1>2, <1>4, <4>1 DEF U!Begun
      <3>3. \A p : U!Begun(u, p)' => U!Begun(u, p) \/ p = o.path
        BY <1>2, <1>4 DEF U!Begun
      <3> QED
        BY <3>1, <3>2, <3>3
    <2>5. recorded'[u] \in U!Locks
      BY <1>5, <2>1 DEF U!Forward
    <2>6. \A p \in U!Owned : ~U!Begun(u, p)' => U!Fits(recorded[u], p, file[p])'
      BY <1>5, <1>6, <2>1, <2>4, TextFacts DEF U!Forward, U!Fits
    <2>7. ~U!Begun(u, U!Lock)' => file'[U!Lock] = recorded'[u]
      BY <1>5, <1>6, <2>1, <2>4, TextFacts DEF U!Forward
    <2>8. CASE pc'[u] = "compare"
      <3>1. \A p : U!Current(u, p)' <=> p = o.path
        BY <1>2, <1>4, <2>8 DEF U!Current, U!This
      <3>2. \A p : U!Planned(u, p) /\ p # o.path => U!Planned(u, p)'
        BY <1>6 DEF U!Planned
      <3>3. U!Planned(u, U!Lock)' \/ U!Begun(u, U!Lock)'
        BY <2>1, <2>4, <3>2 DEF U!Forward
      <3>4. \A p \in U!Owned : ~U!Planned(u, p)' /\ ~U!Current(u, p)' => U!Fits(U!NewLock(u), p, file[p])'
        <4> SUFFICES ASSUME NEW p \in U!Owned, ~U!Planned(u, p)', ~U!Current(u, p)'
                     PROVE  U!Fits(U!NewLock(u), p, file[p])'
          OBVIOUS
        <4>1. p # o.path /\ ~U!Planned(u, p) /\ ~U!Current(u, p) /\ p \in U!Files
          BY <1>1, <3>1, <3>2, TextFacts DEF U!Current
        <4>2. U!Fits(U!NewLock(u), p, file[p])
          BY <2>1, <4>1 DEF U!Forward
        <4> QED
          BY <1>5, <1>6, <4>1, <4>2 DEF U!Fits, U!NewLock
      <3>5. U!Begun(u, U!Lock)' /\ ~U!Current(u, U!Lock)' => file'[U!Lock] = U!NewLock(u)
        <4> SUFFICES ASSUME U!Begun(u, U!Lock)', ~U!Current(u, U!Lock)' PROVE file'[U!Lock] = U!NewLock(u)
          OBVIOUS
        <4>1. U!Lock # o.path /\ U!Begun(u, U!Lock) /\ ~U!Current(u, U!Lock)
          BY <1>1, <2>4, <3>1 DEF U!Current
        <4> QED
          BY <1>6, <2>1, <4>1, TextFacts DEF U!Forward
      <3>6. U!Forward(u)'
        BY <2>5, <2>6, <2>7, <3>3, <3>4, <3>5 DEF U!Forward, U!NewLock
      <3> QED
        BY <2>2, <2>3, <2>8, <3>6
           DEF U!Underway, U!Before, U!Working, U!Undoing
    <2>9. CASE pc'[u] = "undo"
      <3>1. U!Backward(u)'
        BY <2>2, <2>5, <2>6, <2>7 DEF U!Backward, U!Begun
      <3> QED
        BY <2>2, <2>3, <2>9, <3>1
           DEF U!Underway, U!Before, U!Working, U!Undoing
    <2> QED
      BY <1>5, <2>8, <2>9
  <1> QED
    BY <1>1, <1>5, <1>7, LockGoes

\* An upgrade that turns back with what it has noted down so far
LEMMA TurnsBack ==
    ASSUME U!SavesInv, NEW u \in Upgrade, pc[u] \in U!Working, U!Underway(u), UNCHANGED <<saves, recorded, backup, kept>>,
           done'[u] = done[u], pc'[u] = "undo", i'[u] = Len(done'[u]),
           \A p \in U!Files : ~U!Begun(u, p) => file'[p] = file[p],
           \A k \in DOMAIN done[u] : U!Reversible(u, done[u][k]) => U!Reversible(u, done[u][k])'
    PROVE  U!Underway(u)'
  <1>1. /\ U!TypeOK /\ U!Where(u) /\ ~kept[u]
    BY DEF U!SavesInv, U!Where
  <1>2. U!Forward(u) /\ \A k \in DOMAIN done[u] : U!Reversible(u, done[u][k])
    BY <1>1 DEF U!Underway, U!Working, U!ToUndo, U!Undoing
  <1>3. U!ToUndo(u)' = DOMAIN done[u]
    BY <1>1, Mutated DEF U!ToUndo, U!Undoing
  <1>4. recorded'[u] \in U!Locks
    BY <1>2 DEF U!Forward
  <1>5. \A p \in U!Owned : ~U!Begun(u, p) => U!Fits(recorded[u], p, file[p])'
    BY <1>2, TextFacts DEF U!Forward, U!Fits
  <1>6. ~U!Begun(u, U!Lock) => file'[U!Lock] = recorded'[u]
    BY <1>2, TextFacts DEF U!Forward
  <1>7. U!Backward(u)'
    BY <1>3, <1>4, <1>5, <1>6 DEF U!Backward, U!Begun
  <1> QED
    BY <1>1, <1>2, <1>3, <1>7
       DEF U!Underway, U!Before, U!Working, U!Undoing

\* An operation is complete: its file fits the new lock file.
LEMMA Completed ==
    ASSUME U!SavesInv, NEW u \in Upgrade, U!Forward(u), pc[u] \in {"compare", "install"}, pc'[u] \in {"move", "install"},
           UNCHANGED <<saves, recorded, ops>>, DOMAIN done'[u] = DOMAIN done[u],
           \A k \in DOMAIN done[u] : done'[u][k].path = done[u][k].path,
           Len(done'[u]) = Len(done[u]),
           NEW q, q = U!This(u).path,
           \A p \in U!Files : p # q => file'[p] = file[p],
           pc'[u] = "move" => /\ q \in U!Owned => U!Fits(U!NewLock(u), q, file[q])'
                              /\ q = U!Lock => file'[U!Lock] = U!NewLock(u),
           pc'[u] = "install" => UNCHANGED file
    PROVE  U!Forward(u)'
  <1>1. /\ U!TypeOK /\ done[u] # <<>> /\ Len(done[u]) \in DOMAIN done[u] /\ U!This(u)' .path = q
    <2>1. U!TypeOK /\ done[u] # <<>>
      BY DEF U!SavesInv, U!Where
    <2>2. Len(done[u]) \in DOMAIN done[u]
      BY <2>1, Marked
    <2> QED
      BY <2>1, <2>2 DEF U!This
  <1>2. \A p : U!Begun(u, p)' <=> U!Begun(u, p)
    BY DEF U!Begun
  <1>3. \A p : U!Planned(u, p)' <=> U!Planned(u, p)
    BY DEF U!Planned
  <1>4. \A p : U!Current(u, p) <=> p = q
    BY DEF U!Current
  <1>5. \A p : U!Current(u, p)' <=> (pc'[u] = "install" /\ p = q)
    BY <1>1 DEF U!Current
  <1>6. U!Begun(u, q)
    BY <1>1 DEF U!Begun, U!This
  <1>7. recorded'[u] \in U!Locks /\ (U!Planned(u, U!Lock)' \/ U!Begun(u, U!Lock)')
    BY <1>2, <1>3 DEF U!Forward
  <1>8. ASSUME NEW p \in U!Owned, ~U!Begun(u, p)
        PROVE  U!Fits(recorded[u], p, file[p])'
    <2>1. file'[p] = file[p]
      BY <1>6, <1>8, TextFacts
    <2>2. U!Fits(recorded[u], p, file[p])
      BY <1>8 DEF U!Forward
    <2> QED
      BY <2>1, <2>2 DEF U!Fits
  <1>9. ASSUME NEW p \in U!Owned, ~U!Planned(u, p), ~U!Current(u, p)'
        PROVE  U!Fits(U!NewLock(u), p, file[p])'
    <2>1. CASE p = q
      <3>1. pc'[u] = "move"
        BY <1>5, <1>9, <2>1
      <3> QED
        BY <2>1, <3>1 DEF U!Fits, U!NewLock
    <2>2. CASE p # q
      <3>1. file'[p] = file[p]
        BY <2>2, TextFacts
      <3>2. U!Fits(U!NewLock(u), p, file[p])
        BY <1>4, <1>9, <2>2 DEF U!Forward
      <3> QED
        BY <3>1, <3>2 DEF U!Fits, U!NewLock
    <2> QED
      BY <2>1, <2>2
  <1>10. ~U!Begun(u, U!Lock) => file'[U!Lock] = recorded'[u]
    BY <1>6, TextFacts DEF U!Forward
  <1>11. U!Begun(u, U!Lock) /\ ~U!Current(u, U!Lock)' => file'[U!Lock] = U!NewLock(u)
    <2>1. CASE q = U!Lock
      BY <1>5, <2>1
    <2>2. CASE q # U!Lock
      BY <1>4, <2>2, TextFacts DEF U!Forward
    <2> QED
      BY <2>1, <2>2
  <1> QED
    BY <1>2, <1>3, <1>7, <1>8, <1>9, <1>10, <1>11 DEF U!Forward, U!NewLock

LEMMA LockCompare ==
    ASSUME U!SavesInv, U!LockInv, NEW u \in Upgrade, U!Compare(u)
    PROVE  U!LockInv'
  <1>1. /\ U!TypeOK /\ U!Where(u) /\ U!PlanFits(u) /\ pc[u] = "compare" /\ U!Active(u) /\ exit[u] = 0 /\ ~kept[u]
        /\ done[u] # <<>>
    BY DEF U!SavesInv, U!Compare, U!Active, U!Where, U!Working
  <1>2. /\ UNCHANGED <<file, saves, torn, alone, recorded, ops, backup, kept, exit>>
        /\ \/ UNCHANGED done /\ U!Undo(u, "error")
           \/ U!This(u).write = U!Absent /\ U!Goto(u, "move") /\ UNCHANGED done
           \/ U!Mark(u, "ready") /\ U!Goto(u, "install")
    BY DEF U!Compare, U!tree, U!Continue
  <1>3. /\ Len(done[u]) \in DOMAIN done[u] /\ U!This(u) = done[u][Len(done[u])] /\ U!This(u) \in U!Mutations
    BY <1>1, Marked DEF U!This
  <1>4. U!Writes(u, U!This(u))
    BY <1>1, <1>3 DEF U!PlanFits
  <1>5. /\ \A o \in Upgrade \ {u} : pc'[o] = pc[o]
        /\ \/ pc'[u] = "undo" /\ i'[u] = Len(done'[u]) /\ UNCHANGED done
           \/ U!This(u).write = U!Absent /\ pc'[u] = "move" /\ UNCHANGED done
           \/ U!Mark(u, "ready") /\ pc'[u] = "install"
    BY <1>1, <1>2 DEF U!TypeOK, U!Goto, U!Undo
  <1>6. ASSUME U!Underway(u)
        PROVE  U!Underway(u)'
    <2>1. U!Forward(u) /\ \A k \in DOMAIN done[u] : U!Reversible(u, done[u][k])
      BY <1>1, <1>6 DEF U!Underway, U!Working, U!ToUndo, U!Undoing
    <2>2. CASE pc'[u] = "undo" /\ i'[u] = Len(done'[u]) /\ UNCHANGED done
      <3>1. \A k \in DOMAIN done[u] : U!Reversible(u, done[u][k]) => U!Reversible(u, done[u][k])'
        BY <1>2, <2>2 DEF U!Reversible, U!Fits
      <3> QED
        BY <1>1, <1>2, <1>6, <2>2, <3>1, TurnsBack DEF U!Working
    <2>3. CASE U!This(u).write = U!Absent /\ pc'[u] = "move" /\ UNCHANGED done
      <3>0. PICK q : q = U!This(u).path
        OBVIOUS
      <3>1. q # U!Lock
        BY <1>4, <2>3, <3>0, NewFacts, TextFacts DEF U!Writes
      <3>2. ASSUME q \in U!Owned
            PROVE  U!Fits(U!NewLock(u), q, file[q])'
        <4>1. U!Reversible(u, U!This(u)) /\ U!New(u, q) = U!Absent
          BY <1>3, <1>4, <2>1, <2>3, <3>0, <3>2 DEF U!Writes
        <4>2. file[q] \notin U!OfTemplate(q)
          BY <2>3, <3>0, <3>2, <4>1, TextFacts DEF U!Reversible
        <4>3. U!Installed(U!NewLock(u), q) = 0
          BY <3>2, <4>1, NewInstalled
        <4>4. U!Fits(U!NewLock(u), q, file[q])
          BY <4>2, <4>3 DEF U!Fits
        <4> QED
          BY <1>2, <2>3, <4>4 DEF U!Fits, U!NewLock
      <3>3. U!Forward(u)'
        BY <1>1, <1>2, <2>1, <2>3, <3>0, <3>1, <3>2, Completed
      <3>4. U!ToUndo(u)' = DOMAIN done[u]
        BY <2>3 DEF U!ToUndo, U!Undoing
      <3>5. \A k \in DOMAIN done[u] : U!Reversible(u, done[u][k])'
        BY <1>2, <2>1, <2>3 DEF U!Reversible, U!Fits
      <3> QED
        BY <2>3, <3>3, <3>4, <3>5
           DEF U!Underway, U!Before, U!Working, U!Undoing
    <2>4. CASE U!Mark(u, "ready") /\ pc'[u] = "install"
      <3>1. /\ Len(done'[u]) = Len(done[u]) /\ DOMAIN done'[u] = DOMAIN done[u]
            /\ \A j \in DOMAIN done[u] : /\ done'[u][j].path = done[u][j].path
                                         /\ done'[u][j].write = done[u][j].write
                                         /\ done'[u][j].had = done[u][j].had
                                         /\ done[u][j].ready => done'[u][j].ready
            /\ done'[u][Len(done[u])].ready
        BY <1>1, <2>4, MarkNotes
      <3>2. U!Forward(u)'
        BY <1>1, <1>2, <2>1, <2>4, <3>1, Completed
      <3>3. U!ToUndo(u)' = DOMAIN done[u]
        BY <2>4, <3>1 DEF U!ToUndo, U!Undoing
      <3>4. ASSUME NEW k \in DOMAIN done[u]
            PROVE  U!Reversible(u, done[u][k])'
        <4>1. U!Reversible(u, done[u][k])
          BY <2>1
        <4> QED
          BY <1>2, <3>1, <4>1, ReversibleStays
      <3>5. U!This(u)' .ready
        BY <3>1 DEF U!This
      <3> QED
        BY <2>4, <3>2, <3>3, <3>4, <3>5
           DEF U!Underway, U!Before, U!Working, U!Undoing
    <2> QED
      BY <1>5, <2>2, <2>3, <2>4
  <1>7. pc'[u] # "end"
    BY <1>5
  <1> QED
    BY <1>1, <1>2, <1>5, <1>6, <1>7, LockGoes

LEMMA LockInstall ==
    ASSUME U!SavesInv, U!LockInv, NEW u \in Upgrade, U!Install(u)
    PROVE  U!LockInv'
  <1>1. /\ U!TypeOK /\ U!Where(u) /\ U!PlanFits(u) /\ pc[u] = "install" /\ U!Active(u) /\ exit[u] = 0 /\ ~kept[u]
        /\ done[u] # <<>>
    BY DEF U!SavesInv, U!Install, U!Active, U!Where, U!Working
  <1>2. /\ UNCHANGED <<saves, torn, alone, recorded, ops, backup, kept, exit>>
        /\ \/ UNCHANGED <<file, done>> /\ U!Undo(u, "error")
           \/ /\ file' = [file EXCEPT ![U!This(u).path] = U!This(u).write]
              /\ \/ U!Mark(u, "installed") /\ U!Goto(u, "move")
                 \/ UNCHANGED done /\ U!Undo(u, "interrupt")
    BY DEF U!Install, U!Continue
  <1>3. /\ Len(done[u]) \in DOMAIN done[u] /\ U!This(u) = done[u][Len(done[u])] /\ U!This(u) \in U!Mutations
    BY <1>1, Marked DEF U!This
  <1>4. U!Writes(u, U!This(u)) /\ U!This(u).path \in U!Files
    BY <1>1, <1>3 DEF U!PlanFits, U!Mutations
  <1>5. /\ \A o \in Upgrade \ {u} : pc'[o] = pc[o]
        /\ \/ pc'[u] = "undo" /\ i'[u] = Len(done'[u]) /\ UNCHANGED done
           \/ /\ U!Mark(u, "installed") /\ pc'[u] = "move" /\ file' = [file EXCEPT ![U!This(u).path] = U!This(u).write]
    BY <1>1, <1>2 DEF U!TypeOK, U!Goto, U!Undo
  <1>6. /\ \A p \in U!Files : p # U!This(u).path => file'[p] = file[p]
        /\ UNCHANGED file \/ file'[U!This(u).path] = U!This(u).write
        /\ file' = [file EXCEPT ![U!This(u).path] = U!This(u).write] => file'[U!This(u).path] = U!This(u).write
    <2>1. CASE UNCHANGED file
      BY <1>1, <1>4, <2>1 DEF U!TypeOK
    <2>2. CASE file' = [file EXCEPT ![U!This(u).path] = U!This(u).write]
      BY <1>1, <1>4, <2>2 DEF U!TypeOK
    <2> QED
      BY <1>2, <2>1, <2>2
  <1>7. ASSUME NEW k \in DOMAIN done[u], U!This(u).ready, U!Reversible(u, done[u][k]), NEW n,
               n.path = done[u][k].path, n.write = done[u][k].write, n.had = done[u][k].had,
               done[u][k].ready => n.ready
        PROVE  U!Reversible(u, n)'
    <2>1. CASE file'[done[u][k].path] = file[done[u][k].path]
      BY <1>2, <1>7, <2>1, ReversibleStays
    <2>2. CASE file'[done[u][k].path] # file[done[u][k].path]
      <3>1. k = Len(done[u]) /\ file'[n.path] = n.write /\ n.ready
        <4>1. done[u][k] \in U!Mutations /\ done[u][k].path \in U!Files
          BY <1>1, Mutated DEF U!Mutations
        <4>2. done[u][k].path = U!This(u).path
          BY <1>6, <2>2, <4>1
        <4>3. k = Len(done[u])
          BY <1>1, <1>3, <4>2 DEF U!PlanFits
        <4> QED
          BY <1>3, <1>6, <1>7, <2>2, <4>2, <4>3
      <3> QED
        BY <1>2, <1>7, <3>1 DEF U!Reversible, U!Fits
    <2> QED
      BY <2>1, <2>2
  <1>8. ASSUME U!Underway(u)
        PROVE  U!Underway(u)'
    <2>1. U!Forward(u) /\ U!This(u).ready /\ \A k \in DOMAIN done[u] : U!Reversible(u, done[u][k])
      BY <1>1, <1>8 DEF U!Underway, U!Working, U!ToUndo, U!Undoing
    <2>2. CASE pc'[u] = "undo" /\ i'[u] = Len(done'[u]) /\ UNCHANGED done
      <3>1. ASSUME NEW k \in DOMAIN done[u]
            PROVE  U!Reversible(u, done[u][k])'
        <4>1. PICK n : n = done[u][k]
          OBVIOUS
        <4>2. U!Reversible(u, n)'
          BY <1>7, <2>1, <4>1
        <4> QED
          BY <2>2, <4>1, <4>2 DEF U!Reversible, U!Fits
      <3>2. \A p \in U!Files : ~U!Begun(u, p) => file'[p] = file[p]
        BY <1>3, <1>6 DEF U!Begun
      <3> QED
        BY <1>1, <1>2, <1>8, <2>2, <3>1, <3>2, TurnsBack DEF U!Working
    <2>3. CASE U!Mark(u, "installed") /\ pc'[u] = "move" /\ file'[U!This(u).path] = U!This(u).write
      <3>1. /\ Len(done'[u]) = Len(done[u]) /\ DOMAIN done'[u] = DOMAIN done[u]
            /\ \A j \in DOMAIN done[u] : /\ done'[u][j].path = done[u][j].path
                                         /\ done'[u][j].write = done[u][j].write
                                         /\ done'[u][j].had = done[u][j].had
                                         /\ done[u][j].ready => done'[u][j].ready
        BY <1>1, <2>3, MarkNotes
      <3>2. PICK p : p = U!This(u).path
        OBVIOUS
      <3>3. p \in U!Owned => U!Fits(U!NewLock(u), p, file[p])'
        <4>1. p \in U!Owned => U!Fits(U!NewLock(u), p, U!New(u, p))
          BY NewFits
        <4> QED
          BY <1>2, <1>4, <2>3, <3>2, <4>1 DEF U!Writes, U!Fits, U!NewLock
      <3>4. p = U!Lock => file'[U!Lock] = U!NewLock(u)
        BY <1>4, <2>3, <3>2 DEF U!Writes
      <3>5. U!Forward(u)'
        BY <1>1, <1>2, <1>6, <2>1, <2>3, <3>1, <3>2, <3>3, <3>4, Completed
      <3>6. U!ToUndo(u)' = DOMAIN done[u]
        BY <2>3, <3>1 DEF U!ToUndo, U!Undoing
      <3>7. ASSUME NEW k \in DOMAIN done[u]
            PROVE  U!Reversible(u, done[u][k])'
        <4>1. PICK n : n = done'[u][k]
          OBVIOUS
        <4>2. U!Reversible(u, n)'
          BY <1>7, <2>1, <3>1, <4>1
        <4> QED
          BY <4>1, <4>2 DEF U!Reversible, U!Fits
      <3> QED
        BY <2>3, <3>5, <3>6, <3>7
           DEF U!Underway, U!Before, U!Working, U!Undoing
    <2> QED
      BY <1>5, <1>6, <2>2, <2>3
  <1>9. pc'[u] # "end"
    BY <1>5
  <1> QED
    BY <1>1, <1>2, <1>5, <1>8, <1>9, LockGoes

LEMMA LockFinish ==
    ASSUME U!SavesInv, U!LockInv, NEW u \in Upgrade, U!Finish(u)
    PROVE  U!LockInv'
  <1>1. /\ U!TypeOK /\ U!Where(u) /\ pc[u] = "move" /\ ops[u] = {} /\ U!Active(u) /\ exit[u] = 0 /\ ~kept[u]
    BY DEF U!SavesInv, U!Finish, U!Active, U!Where, U!Working
  <1>2. /\ UNCHANGED <<file, saves, torn, alone, kept, exit>>
        /\ pc'[u] = "sync" /\ \A o \in Upgrade \ {u} : pc'[o] = pc[o]
    BY <1>1 DEF U!Finish, U!Goto, U!TypeOK, U!tree
  <1>3. ASSUME U!Underway(u)
        PROVE  U!Underway(u)'
    <2>1. U!Forward(u)
      BY <1>1, <1>3 DEF U!Underway, U!Working
    <2>2. \A p : ~U!Planned(u, p) /\ ~U!Current(u, p)
      BY <1>1 DEF U!Planned, U!Current
    <2>3. file[U!Lock] = U!NewLock(u)
      BY <2>1, <2>2 DEF U!Forward
    <2>4. \A p \in U!Owned : U!Fits(U!NewLock(u), p, file[p])
      BY <2>1, <2>2 DEF U!Forward
    <2>5. U!Agree
      BY <2>3, <2>4, NewFacts DEF U!Agree
    <2>6. U!Agree'
      BY <1>2, <2>5, AgreeStays
    <2> QED
      BY <1>2, <2>6 DEF U!Underway, U!Before, U!Working, U!Undoing
  <1> QED
    BY <1>1, <1>2, <1>3, LockGoes

\* While operations are taken back, the others stay as they were.
LEMMA StillBackward ==
    ASSUME NEW u \in Upgrade, U!Backward(u), UNCHANGED <<saves, recorded>>, NEW q,
           \A p \in U!Files : p # q => file'[p] = file[p],
           DOMAIN done'[u] = DOMAIN done[u], U!ToUndo(u)' \subseteq DOMAIN done[u],
           \A k \in DOMAIN done[u] : done'[u][k].path = done[u][k].path,
           \A k \in U!ToUndo(u) \ U!ToUndo(u)' : k \in DOMAIN done[u] /\ done[u][k].path = q,
           \/ /\ q \in U!Owned => U!Fits(recorded[u], q, file[q])'
              /\ q = U!Lock => file'[U!Lock] = recorded[u]
           \/ \E k \in U!ToUndo(u)' : done[u][k].path = q
    PROVE  U!Backward(u)'
  <1>1. \A p : p # q /\ (\A k \in U!ToUndo(u)' : done'[u][k].path # p) => \A k \in U!ToUndo(u) : done[u][k].path # p
    OBVIOUS
  <1>2. recorded'[u] \in U!Locks
    BY DEF U!Backward
  <1>3. ASSUME NEW p \in U!Owned, \A k \in U!ToUndo(u)' : done'[u][k].path # p
        PROVE  U!Fits(recorded[u], p, file[p])'
    <2>1. CASE p = q
      BY <1>3, <2>1
    <2>2. CASE p # q
      <3>1. U!Fits(recorded[u], p, file[p]) /\ file'[p] = file[p]
        BY <1>1, <1>3, <2>2, TextFacts DEF U!Backward
      <3> QED
        BY <3>1 DEF U!Fits
    <2> QED
      BY <2>1, <2>2
  <1>4. ASSUME \A k \in U!ToUndo(u)' : done'[u][k].path # U!Lock
        PROVE  file'[U!Lock] = recorded'[u]
    <2>1. CASE q = U!Lock
      BY <1>4, <2>1
    <2>2. CASE q # U!Lock
      BY <1>1, <1>4, <2>2, TextFacts DEF U!Backward
    <2> QED
      BY <2>1, <2>2
  <1> QED
    BY <1>2, <1>3, <1>4 DEF U!Backward

\* The mutation that is dealt with is one of those still to be taken back.
LEMMA UndoFacts ==
    ASSUME U!SavesInv, NEW u \in Upgrade, pc[u] \in U!Undoing, i[u] \in DOMAIN done[u]
    PROVE  /\ U!TypeOK /\ U!PlanFits(u) /\ U!Active(u) /\ exit[u] = 0
           /\ U!ToUndo(u) = 1 .. i[u] /\ 1 .. i[u] \subseteq DOMAIN done[u] /\ i[u] \in 1 .. i[u]
           /\ U!Undone(u) = done[u][i[u]] /\ U!Undone(u) \in U!Mutations /\ U!Undone(u).path \in U!Files
           /\ \A k \in DOMAIN done[u] : done[u][k].path \in U!Files
           /\ \A k \in DOMAIN done[u] \ {i[u]} : done[u][k].path # U!Undone(u).path
  <1>1. /\ U!TypeOK /\ U!PlanFits(u) /\ U!Where(u)
    BY DEF U!SavesInv
  <1>2. U!Active(u) /\ exit[u] = 0
    BY <1>1 DEF U!Active, U!Where, U!Undoing
  <1>3. Len(done[u]) \in Nat /\ DOMAIN done[u] = 1 .. Len(done[u]) /\ \A k \in DOMAIN done[u] : done[u][k] \in U!Mutations
    BY <1>1, Mutated
  <1>4. 1 .. i[u] \subseteq DOMAIN done[u] /\ i[u] \in 1 .. i[u]
    BY <1>3
  <1> QED
    BY <1>1, <1>2, <1>3, <1>4
       DEF U!ToUndo, U!Undone, U!PlanFits, U!Mutations

\* What had nothing to restore was not there, and the old lock file fits that.
LEMMA NothingHad ==
    ASSUME NEW u \in Upgrade, NEW m, U!Reversible(u, m), ~U!ToRestore(u, m)
    PROVE  m.path # U!Lock /\ (m.path \in U!Owned => U!Fits(recorded[u], m.path, U!Absent))
    BY DEF U!Reversible, U!ToRestore

LEMMA LockLook ==
    ASSUME U!SavesInv, U!LockInv, NEW u \in Upgrade, U!Look(u)
    PROVE  U!LockInv'
  <1>1. /\ U!TypeOK /\ U!PlanFits(u) /\ U!Active(u) /\ exit[u] = 0 /\ pc[u] = "undo" /\ i[u] \in DOMAIN done[u]
        /\ U!ToUndo(u) = 1 .. i[u] /\ 1 .. i[u] \subseteq DOMAIN done[u] /\ i[u] \in 1 .. i[u]
        /\ U!Undone(u) = done[u][i[u]] /\ U!Undone(u).path \in U!Files
    BY Looked, UndoFacts DEF U!Undoing
  <1>2. UNCHANGED <<file, saves, torn, alone, recorded, backup, exit>>
    BY DEF U!Look, U!tree
  <1>3. PICK m, q : m = U!Recognized(u) /\ q = m.path
    OBVIOUS
  <1>4. /\ m.path = U!Undone(u).path /\ m.write = U!Undone(u).write /\ m.had = U!Undone(u).had
        /\ m.moved = U!Undone(u).moved /\ m.ready = U!Undone(u).ready
        /\ (m.ready /\ file[m.path] = m.write => m.installed)
    BY <1>1, <1>3, Recognizes
  <1>5. \/ U!Goto(u, "unlink") /\ UNCHANGED <<i, kept>>
        \/ U!Goto(u, "putback") /\ UNCHANGED <<i, kept>>
        \/ U!NextUndo(u) /\ kept' = [kept EXCEPT ![u] = TRUE]
        \/ /\ U!NextUndo(u) /\ UNCHANGED kept /\ ~U!ToRestore(u, m)
           /\ ~(m.installed /\ file[m.path] \notin {U!Absent, m.write})
           /\ ~(m.installed /\ file[m.path] = m.write /\ m.write # U!Absent)
    BY <1>3 DEF U!Look
  <1>6. /\ \A o \in Upgrade \ {u} : pc'[o] = pc[o]
        /\ kept' \in [Upgrade -> BOOLEAN] /\ (kept[u] => kept'[u])
        /\ \A o \in Upgrade \ {u} : kept'[o] = kept[o]
        /\ DOMAIN done'[u] = DOMAIN done[u] /\ Len(done'[u]) = Len(done[u])
        /\ \A j \in DOMAIN done[u] : /\ done'[u][j].path = done[u][j].path
                                     /\ done'[u][j].write = done[u][j].write
                                     /\ done'[u][j].had = done[u][j].had
                                     /\ done[u][j].ready => done'[u][j].ready
    BY <1>1, <1>5, Looked DEF U!Goto, U!NextUndo, U!TypeOK
  <1>7. pc'[u] \in U!Undoing
    BY <1>1, <1>5 DEF U!Goto, U!NextUndo, U!TypeOK, U!Undoing
  <1>8. ASSUME U!Underway(u), ~kept'[u]
        PROVE  U!Backward(u)' /\ \A k \in U!ToUndo(u)' : U!Reversible(u, done[u][k])'
    <2>1. U!Backward(u) /\ \A k \in U!ToUndo(u) : U!Reversible(u, done[u][k])
      BY <1>1, <1>6, <1>8 DEF U!Underway, U!Undoing
    <2>2. U!ToUndo(u)' \subseteq U!ToUndo(u) /\ U!ToUndo(u)' \subseteq DOMAIN done[u]
      <3>1. CASE UNCHANGED i
        BY <1>1, <1>7, <3>1 DEF U!ToUndo
      <3>2. CASE U!NextUndo(u)
        BY <1>1, <1>6, <1>7, <3>2, NextUndoes DEF U!ToUndo
      <3> QED
        BY <1>5, <3>1, <3>2
    <2>3. ASSUME NEW k \in U!ToUndo(u)'
          PROVE  U!Reversible(u, done[u][k])'
      <3>1. U!Reversible(u, done[u][k]) /\ k \in DOMAIN done[u]
        BY <2>1, <2>2
      <3>2. PICK n : n = done'[u][k]
        OBVIOUS
      <3>3. U!Reversible(u, n)'
        BY <1>2, <1>6, <3>1, <3>2, ReversibleStays
      <3> QED
        BY <3>2, <3>3 DEF U!Reversible, U!Fits
    <2>4. U!Backward(u)'
      <3>1. CASE UNCHANGED i
        <4>1. U!ToUndo(u)' = U!ToUndo(u) /\ i[u] \in U!ToUndo(u) /\ done[u][i[u]].path = q
          BY <1>1, <1>3, <1>4, <1>7, <3>1 DEF U!ToUndo
        <4>2. (\E k \in U!ToUndo(u)' : done[u][k].path = q) /\ U!ToUndo(u) \ U!ToUndo(u)' = {}
          BY <4>1
        <4> QED
          BY <1>2, <1>6, <2>1, <2>2, <4>2, StillBackward
      <3>2. CASE U!NextUndo(u) /\ UNCHANGED kept
        <4>1. /\ ~U!ToRestore(u, m) /\ ~(m.installed /\ file[m.path] \notin {U!Absent, m.write})
              /\ ~(m.installed /\ file[m.path] = m.write /\ m.write # U!Absent)
          <5>1. i'[u] # i[u] /\ pc'[u] = "undo"
            BY <1>1, <1>6, <3>2, NextUndoes
          <5> QED
            BY <1>1, <1>5, <1>8, <5>1 DEF U!Goto, U!TypeOK
        <4>2. U!Reversible(u, U!Undone(u))
          BY <1>1, <2>1
        <4>3. U!Reversible(u, m)
          BY <1>4, <4>2 DEF U!Reversible
        <4>4. q # U!Lock /\ (q \in U!Owned => U!Fits(recorded[u], q, U!Absent))
          BY <1>3, <4>1, <4>3, NothingHad
        <4>5. q \in U!Owned => U!Fits(recorded[u], q, file[q])
          <5> SUFFICES ASSUME q \in U!Owned, file[q] # U!Absent PROVE file[q] \notin U!OfTemplate(q)
            BY <4>4 DEF U!Fits
          <5>1. ~m.installed
            BY <1>3, <4>1
          <5> QED
            BY <1>3, <1>4, <4>3, <5>1 DEF U!Reversible
        <4>6. q \in U!Owned => U!Fits(recorded[u], q, file[q])'
          BY <1>2, <4>5 DEF U!Fits
        <4>7. \A k \in U!ToUndo(u) \ U!ToUndo(u)' : k \in DOMAIN done[u] /\ done[u][k].path = q
          <5>1. U!ToUndo(u)' = 1 .. i[u] \ {i[u]}
            BY <1>1, <1>6, <1>7, <3>2, NextUndoes DEF U!ToUndo
          <5> QED
            BY <1>1, <1>3, <1>4, <5>1
        <4> QED
          BY <1>2, <1>6, <2>1, <2>2, <4>4, <4>6, <4>7, StillBackward
      <3>3. CASE kept' = [kept EXCEPT ![u] = TRUE]
        BY <1>1, <1>8, <3>3 DEF U!TypeOK
      <3> QED
        BY <1>5, <3>1, <3>2, <3>3
    <2> QED
      BY <2>3, <2>4
  <1>9. ASSUME U!Underway(u)
        PROVE  U!Underway(u)'
    BY <1>7, <1>8, <1>9 DEF U!Underway, U!Before, U!Working, U!Undoing
  <1>10. pc'[u] # "end"
    BY <1>7 DEF U!Undoing
  <1> QED
    BY <1>1, <1>2, <1>6, <1>9, <1>10, LockGoes

\* One operation is taken back by a step on its file.
LEMMA TakenBack ==
    ASSUME U!SavesInv, U!LockInv, NEW u \in Upgrade, pc[u] \in U!Undoing, i[u] \in DOMAIN done[u],
           UNCHANGED <<saves, alone, recorded, done, kept, exit>>, torn => torn',
           \A o \in Upgrade \ {u} : pc'[o] = pc[o],
           NEW q, q = U!Undone(u).path,
           \A p \in U!Files : p # q => file'[p] = file[p] /\ backup'[u][p] = backup[u][p],
           \/ pc'[u] = "putback" /\ UNCHANGED i /\ file'[q] = U!Absent /\ backup'[u][q] = backup[u][q]
           \/ /\ U!NextUndo(u)
              /\ U!Underway(u) /\ ~kept[u] =>
                    /\ q \in U!Owned => U!Fits(recorded[u], q, file[q])'
                    /\ q = U!Lock => file'[U!Lock] = recorded[u]
    PROVE  U!LockInv'
  <1>1. /\ U!TypeOK /\ U!PlanFits(u) /\ U!Active(u) /\ exit[u] = 0
        /\ U!ToUndo(u) = 1 .. i[u] /\ 1 .. i[u] \subseteq DOMAIN done[u] /\ i[u] \in 1 .. i[u]
        /\ U!Undone(u) = done[u][i[u]] /\ U!Undone(u).path \in U!Files
        /\ \A k \in DOMAIN done[u] : done[u][k].path \in U!Files
        /\ \A k \in DOMAIN done[u] \ {i[u]} : done[u][k].path # U!Undone(u).path
    BY UndoFacts
  <1>2. CASE pc'[u] = "putback" /\ UNCHANGED i /\ file'[q] = U!Absent /\ backup'[u][q] = backup[u][q]
    <2>1. U!ToUndo(u)' = U!ToUndo(u)
      BY <1>1, <1>2 DEF U!ToUndo, U!Undoing
    <2>2. ASSUME U!Underway(u), ~kept[u]
          PROVE  U!Backward(u)' /\ \A k \in U!ToUndo(u)' : U!Reversible(u, done[u][k])'
      <3>1. U!Backward(u) /\ \A k \in U!ToUndo(u) : U!Reversible(u, done[u][k])
        BY <2>2 DEF U!Underway
      <3>2. U!Backward(u)'
        BY <1>1, <2>1, <3>1, StillBackward
      <3>3. ASSUME NEW k \in U!ToUndo(u)
            PROVE  U!Reversible(u, done[u][k])'
        <4>1. k \in DOMAIN done[u] /\ U!Reversible(u, done[u][k])
          BY <1>1, <3>1
        <4>2. CASE done[u][k].path # q
          BY <1>1, <4>1, <4>2, ReversibleStays
        <4>3. CASE done[u][k].path = q
          BY <1>2, <4>1, <4>3, TextFacts DEF U!Reversible, U!Fits
        <4> QED
          BY <4>2, <4>3
      <3> QED
        BY <2>1, <3>2, <3>3
    <2>3. U!Underway(u) => U!Underway(u)'
      BY <1>2, <2>2 DEF U!Underway, U!Before, U!Working, U!Undoing
    <2> QED
      BY <1>1, <1>2, <2>3, LockGoes
  <1>3. CASE U!NextUndo(u)
    <2>1. /\ i'[u] = i[u] - 1 /\ pc'[u] = "undo" /\ 1 .. i'[u] = 1 .. i[u] \ {i[u]}
      BY <1>1, <1>3, NextUndoes
    <2>2. U!ToUndo(u)' = U!ToUndo(u) \ {i[u]}
      BY <1>1, <2>1 DEF U!ToUndo, U!Undoing
    <2>3. i'[u] # i[u]
      BY <1>1, <2>1 DEF U!TypeOK
    <2>4. ASSUME U!Underway(u), ~kept[u]
          PROVE  U!Backward(u)' /\ \A k \in U!ToUndo(u)' : U!Reversible(u, done[u][k])'
      <3>1. U!Backward(u) /\ \A k \in U!ToUndo(u) : U!Reversible(u, done[u][k])
        BY <2>4 DEF U!Underway
      <3>2. U!Backward(u)'
        BY <1>1, <2>1, <2>2, <2>3, <2>4, <3>1, StillBackward
      <3>3. ASSUME NEW k \in U!ToUndo(u)'
            PROVE  U!Reversible(u, done[u][k])'
        <4>1. k \in DOMAIN done[u] \ {i[u]} /\ U!Reversible(u, done[u][k])
          BY <1>1, <2>2, <3>1
        <4> QED
          BY <1>1, <4>1, ReversibleStays
      <3> QED
        BY <3>2, <3>3
    <2>5. U!Underway(u) => U!Underway(u)'
      BY <2>1, <2>4 DEF U!Underway, U!Before, U!Working, U!Undoing
    <2> QED
      BY <1>1, <2>1, <2>5, LockGoes
  <1> QED
    BY <1>2, <1>3

LEMMA LockUnlink ==
    ASSUME U!SavesInv, U!LockInv, NEW u \in Upgrade, U!Unlink(u)
    PROVE  U!LockInv'
  <1>1. /\ U!TypeOK /\ pc[u] = "unlink" /\ pc[u] \in U!Undoing /\ i[u] \in DOMAIN done[u]
    BY DEF U!SavesInv, U!Unlink, U!Where, U!Undoing
  <1>2. PICK q : q = U!Undone(u).path
    OBVIOUS
  <1>3. /\ UNCHANGED <<saves, alone, recorded, backup, done, kept, exit>> /\ (torn => torn')
        /\ file' = [file EXCEPT ![q] = U!Absent]
        /\ \/ U!Goto(u, "putback") /\ UNCHANGED i
           \/ U!NextUndo(u) /\ ~U!ToRestore(u, U!Undone(u))
    BY <1>2 DEF U!Unlink
  <1>4. q \in U!Files /\ U!ToUndo(u) = 1 .. i[u] /\ i[u] \in 1 .. i[u] /\ U!Undone(u) = done[u][i[u]]
    BY <1>1, <1>2, UndoFacts
  <1>5. file'[q] = U!Absent /\ \A p \in U!Files : p # q => file'[p] = file[p]
    BY <1>1, <1>3, <1>4 DEF U!TypeOK
  <1>6. \A o \in Upgrade \ {u} : pc'[o] = pc[o]
    BY <1>1, <1>3 DEF U!Goto, U!NextUndo, U!TypeOK
  <1>7. ASSUME ~U!ToRestore(u, U!Undone(u)), U!Underway(u), ~kept[u]
        PROVE  /\ q \in U!Owned => U!Fits(recorded[u], q, file[q])'
               /\ q = U!Lock => file'[U!Lock] = recorded[u]
    <2>1. U!Reversible(u, U!Undone(u))
      BY <1>1, <1>4, <1>7 DEF U!Underway
    <2>2. q # U!Lock /\ (q \in U!Owned => U!Fits(recorded[u], q, U!Absent))
      BY <1>2, <1>7, <2>1, NothingHad
    <2> QED
      BY <1>3, <1>5, <2>2 DEF U!Fits
  <1>8. U!Goto(u, "putback") => pc'[u] = "putback"
    BY <1>1 DEF U!Goto, U!TypeOK
  <1> QED
    BY <1>1, <1>2, <1>3, <1>5, <1>6, <1>7, <1>8, TakenBack

LEMMA LockPutBack ==
    ASSUME U!SavesInv, U!LockInv, NEW u \in Upgrade, U!PutBack(u)
    PROVE  U!LockInv'
  <1>1. /\ U!TypeOK /\ U!PlanFits(u) /\ pc[u] = "putback" /\ pc[u] \in U!Undoing /\ i[u] \in DOMAIN done[u]
    BY DEF U!SavesInv, U!PutBack, U!Where, U!Undoing
  <1>2. PICK q, c : q = U!Undone(u).path /\ c = backup[u][q]
    OBVIOUS
  <1>3. /\ UNCHANGED <<saves, alone, recorded, done, kept, exit>> /\ (torn => torn')
        /\ file' = [file EXCEPT ![q] = c] /\ backup' = [backup EXCEPT ![u][q] = U!Absent] /\ U!NextUndo(u)
    BY <1>2 DEF U!PutBack
  <1>4. /\ q \in U!Files /\ U!ToUndo(u) = 1 .. i[u] /\ i[u] \in 1 .. i[u] /\ U!Undone(u) = done[u][i[u]]
        /\ \A k \in DOMAIN done[u] \ {i[u]} : done[u][k].path # q
    BY <1>1, <1>2, UndoFacts
  <1>5. /\ file'[q] = c
        /\ \A p \in U!Files : p # q => file'[p] = file[p] /\ backup'[u][p] = backup[u][p]
    BY <1>1, <1>3, <1>4 DEF U!TypeOK
  <1>6. \A o \in Upgrade \ {u} : pc'[o] = pc[o]
    BY <1>1, <1>3 DEF U!Goto, U!NextUndo, U!TypeOK
  <1>7. ASSUME U!Underway(u), ~kept[u]
        PROVE  /\ q \in U!Owned => U!Fits(recorded[u], q, file[q])'
               /\ q = U!Lock => file'[U!Lock] = recorded[u]
    <2>1. U!Reversible(u, U!Undone(u))
      BY <1>1, <1>4, <1>7 DEF U!Underway
    <2>2. ~U!Undone(u).had => c = U!Absent
      BY <1>1, <1>2, <1>4 DEF U!PlanFits
    <2>3. CASE U!Undone(u).had
      BY <1>2, <1>3, <1>5, <2>1, <2>3 DEF U!Reversible, U!Fits
    <2>4. CASE ~U!Undone(u).had
      BY <1>2, <1>3, <1>5, <2>1, <2>2, <2>4 DEF U!Reversible, U!Fits
    <2> QED
      BY <2>3, <2>4
  <1> QED
    BY <1>1, <1>2, <1>3, <1>5, <1>6, <1>7, TakenBack

LEMMA LockEndUndo ==
    ASSUME U!SavesInv, U!LockInv, NEW u \in Upgrade, U!EndUndo(u)
    PROVE  U!LockInv'
  <1>1. /\ U!TypeOK /\ U!Where(u) /\ pc[u] = "undo" /\ i[u] = 0 /\ U!Active(u) /\ exit[u] = 0
    BY DEF U!SavesInv, U!EndUndo, U!Active, U!Where
  <1>2. /\ UNCHANGED <<file, saves, torn, alone, kept>>
        /\ pc'[u] = "end" /\ \A o \in Upgrade \ {u} : pc'[o] = pc[o] /\ exit'[o] = exit[o]
    BY <1>1 DEF U!EndUndo, U!End, U!Goto, U!TypeOK, U!tree
  <1>3. ASSUME U!Underway(u), U!Undisturbed'
        PROVE  U!Agree'
    <2>1. ~kept[u]
      BY <1>2, <1>3 DEF U!Undisturbed
    <2>2. U!Backward(u)
      BY <1>1, <1>3, <2>1 DEF U!Underway, U!Undoing
    <2>3. U!ToUndo(u) = {}
      BY <1>1 DEF U!ToUndo, U!Undoing
    <2>4. U!Agree
      BY <2>2, <2>3 DEF U!Backward, U!Agree
    <2> QED
      BY <1>2, <2>4, AgreeStays
  <1> QED
    BY <1>1, <1>2, <1>3, LockGoes

\* An upgrade of which nothing changes
LEMMA OthersStay ==
    ASSUME NEW o \in Upgrade, U!Underway(o), UNCHANGED <<file, saves, recorded, ops, backup, done, i, kept>>,
           pc'[o] = pc[o]
    PROVE  U!Underway(o)'
  <1>1. U!Agree => U!Agree'
    BY AgreeStays
  <1>2. U!Forward(o) => U!Forward(o)'
    BY DEF U!Forward, U!Fits, U!Planned, U!Begun, U!Current,
           U!This, U!NewLock
  <1>3. U!ToUndo(o)' = U!ToUndo(o)
    BY DEF U!ToUndo
  <1>4. U!Backward(o) => U!Backward(o)'
    BY <1>3 DEF U!Backward, U!Fits
  <1>5. \A k \in U!ToUndo(o) : U!Reversible(o, done[o][k]) => U!Reversible(o, done[o][k])'
    BY DEF U!Reversible, U!Fits
  <1> QED
    BY <1>1, <1>2, <1>3, <1>4, <1>5 DEF U!Underway, U!This

\* An upgrade was killed, or interrupted twice: nothing more is promised.
LEMMA Disturbed ==
    ASSUME U!LockInv, ~U!Undisturbed', alone' => alone, \A o \in Upgrade : U!Active(o)' => U!Active(o)
    PROVE  U!LockInv'
    BY DEF U!LockInv

LEMMA LockTurnsBack ==
    ASSUME U!SavesInv, U!LockInv, NEW u \in Upgrade, NEW r \in {"error", "interrupt"}, pc[u] \in U!Working, U!Undo(u, r),
           UNCHANGED <<U!tree, torn, alone, recorded, backup, done, kept, exit>>
    PROVE  U!LockInv'
  <1>1. U!TypeOK /\ exit[u] = 0 /\ U!Active(u)
    BY DEF U!SavesInv, U!Where, U!Active, U!Working
  <1>2. /\ UNCHANGED <<file, saves>> /\ pc'[u] = "undo" /\ i'[u] = Len(done'[u])
        /\ \A o \in Upgrade \ {u} : pc'[o] = pc[o]
    BY <1>1 DEF U!TypeOK, U!Undo, U!Goto, U!tree
  <1>3. \A k \in DOMAIN done[u] : U!Reversible(u, done[u][k]) => U!Reversible(u, done[u][k])'
    BY <1>2 DEF U!Reversible, U!Fits
  <1>4. U!Underway(u) => U!Underway(u)'
    BY <1>2, <1>3, TurnsBack
  <1> QED
    BY <1>1, <1>2, <1>4, LockGoes

\* An upgrade is ended before it moves a file, or after the last one.
LEMMA LockEnds ==
    ASSUME U!SavesInv, U!LockInv, NEW u \in Upgrade, pc[u] \in U!Before \cup {"sync"}, U!End(u, 130),
           UNCHANGED <<U!tree, torn, alone, U!run>>
    PROVE  U!LockInv'
  <1>1. U!TypeOK /\ exit[u] = 0
    BY DEF U!SavesInv, U!Where, U!Before
  <1>2. /\ UNCHANGED <<file, saves, recorded, ops, backup, done, i, kept>>
        /\ pc'[u] = "end" /\ exit'[u] = 130
        /\ \A o \in Upgrade \ {u} : pc'[o] = pc[o] /\ exit'[o] = exit[o]
    BY <1>1 DEF U!TypeOK, U!End, U!Goto, U!tree, U!run
  <1>3. CASE U!Active(u)
    <2>1. U!Underway(u) => U!Agree'
      BY <1>2, AgreeStays DEF U!Underway
    <2> QED
      BY <1>1, <1>2, <1>3, <2>1, LockGoes
  <1>4. CASE ~U!Active(u)
    <2>1. pc[u] = "check"
      BY <1>4 DEF U!Active, U!Before
    <2>2. U!Undisturbed' => U!Undisturbed
      <3> SUFFICES ASSUME U!Undisturbed' PROVE U!Undisturbed
        OBVIOUS
      <3>1. alone /\ ~torn
        BY DEF U!Undisturbed
      <3>2. \A o \in Upgrade : exit[o] # 137 /\ (pc[o] = "end" => ~kept[o])
        BY <1>1, <1>2, <2>1 DEF U!Undisturbed
      <3> QED
        BY <3>1, <3>2 DEF U!Undisturbed
    <2>3. \A o \in Upgrade : U!Active(o)' <=> U!Active(o)
      BY <1>2, <2>1 DEF U!Active
    <2>4. U!Agree => U!Agree'
      BY <1>2, AgreeStays
    <2>5. \A o \in Upgrade : U!Active(o) /\ U!Underway(o) => U!Underway(o)'
      BY <1>2, <1>4, OthersStay
    <2> QED
      BY <2>2, <2>3, <2>4, <2>5 DEF U!LockInv
  <1> QED
    BY <1>3, <1>4

LEMMA LockFails ==
    ASSUME U!SavesInv, U!LockInv, NEW u \in Upgrade, U!Fail(u) \/ U!Interrupt(u) \/ U!Kill(u)
    PROVE  U!LockInv'
  <1>1. U!TypeOK
    BY DEF U!SavesInv
  <1>2. ASSUME NEW code, U!End(u, code) PROVE \A o \in Upgrade : U!Active(o)' => U!Active(o)
    BY <1>1, <1>2 DEF U!TypeOK, U!End, U!Goto, U!Active
  <1>3. CASE U!Fail(u)
    BY <1>3, LockTurnsBack DEF U!Fail
  <1>4. CASE U!Kill(u)
    <2>1. exit'[u] = 137
      BY <1>1, <1>4 DEF U!Kill, U!End, U!TypeOK
    <2> QED
      BY <1>2, <1>4, <2>1, Disturbed DEF U!Kill, U!Undisturbed
  <1>5. CASE U!Interrupt(u)
    <2>1. UNCHANGED <<U!tree, alone, recorded, ops, done, kept>>
      BY <1>5 DEF U!Interrupt
    <2>2. CASE pc[u] \in U!Working /\ U!Undo(u, "interrupt") /\ UNCHANGED <<torn, scratch, backup, exit>>
      BY <2>1, <2>2, LockTurnsBack
    <2>3. CASE /\ pc[u] \in U!Before \cup {"sync"} /\ U!End(u, 130)
               /\ UNCHANGED <<torn, i, why, scratch, backup>>
      BY <2>1, <2>3, LockEnds DEF U!run
    <2>4. CASE U!End(u, 130) /\ torn' = TRUE
      BY <1>2, <2>1, <2>4, Disturbed DEF U!Undisturbed
    <2> QED
      BY <1>5, <2>2, <2>3, <2>4 DEF U!Interrupt
  <1> QED
    BY <1>3, <1>4, <1>5

\* The developer may touch any file but the lock file: what he saves is not
\* a text of the template, and once he has deleted something a file may be gone.
LEMMA LockEdit ==
    ASSUME U!SavesInv, U!LockInv, NEW p \in U!Files, NEW c \in Developers \cup {U!Absent}, U!Edit(p, c)
    PROVE  U!LockInv'
  <1>1. /\ UNCHANGED <<torn, alone, pc, i, recorded, ops, backup, done, kept, exit>>
        /\ saves' = saves + 1 /\ p # U!Lock /\ file' = [file EXCEPT ![p] = c]
    BY DEF U!Edit, U!run
  <1>2. U!TypeOK
    BY DEF U!SavesInv
  <1>3. file'[U!Lock] = file[U!Lock] /\ saves' > 0 /\ file'[p] = c /\ \A q \in U!Files : q # p => file'[q] = file[q]
    BY <1>1, <1>2, TextFacts DEF U!TypeOK
  <1>4. ASSUME NEW q \in U!Owned, NEW l
        PROVE  /\ U!Fits(l, q, file[q]) => U!Fits(l, q, file[q])'
               /\ \A x : U!Fits(l, q, x) => U!Fits(l, q, x)'
    <2>1. \A x : U!Fits(l, q, x) => U!Fits(l, q, x)'
      BY <1>3 DEF U!Fits
    <2>2. CASE q = p
      BY <1>3, <2>1, <2>2, TextFacts DEF U!Fits
    <2>3. CASE q # p
      <3>1. file'[q] = file[q]
        BY <1>3, <2>3, TextFacts
      <3> QED
        BY <1>3, <2>1, <3>1 DEF U!Fits
    <2> QED
      BY <2>1, <2>2, <2>3
  <1>5. U!Agree => U!Agree'
    BY <1>3, <1>4 DEF U!Agree, U!Fits
  <1>6. ASSUME NEW u \in Upgrade, U!Underway(u)
        PROVE  U!Underway(u)'
    <2>1. U!Forward(u) => U!Forward(u)'
      <3> SUFFICES ASSUME U!Forward(u) PROVE U!Forward(u)'
        OBVIOUS
      <3>1. \A q : (U!Begun(u, q)' <=> U!Begun(u, q)) /\ (U!Planned(u, q)' <=> U!Planned(u, q)) /\ (U!Current(u, q)' <=> U!Current(u, q))
        BY <1>1 DEF U!Begun, U!Planned, U!Current, U!This
      <3>2. \A q \in U!Owned : ~U!Begun(u, q) => U!Fits(recorded[u], q, file[q])'
        BY <1>1, <1>4 DEF U!Forward, U!Fits
      <3>3. \A q \in U!Owned : ~U!Planned(u, q) /\ ~U!Current(u, q) => U!Fits(U!NewLock(u), q, file[q])'
        BY <1>4 DEF U!Forward, U!Fits, U!NewLock
      <3> QED
        BY <1>1, <1>3, <3>1, <3>2, <3>3 DEF U!Forward, U!NewLock
    <2>2. U!ToUndo(u)' = U!ToUndo(u)
      BY <1>1 DEF U!ToUndo
    <2>3. U!Backward(u) => U!Backward(u)'
      <3> SUFFICES ASSUME U!Backward(u) PROVE U!Backward(u)'
        OBVIOUS
      <3>1. \A q \in U!Owned : (\A k \in U!ToUndo(u) : done[u][k].path # q) => U!Fits(recorded[u], q, file[q])'
        BY <1>1, <1>4 DEF U!Backward, U!Fits
      <3> QED
        BY <1>1, <1>3, <2>2, <3>1 DEF U!Backward
    <2>4. ASSUME NEW m, U!Reversible(u, m)
          PROVE  U!Reversible(u, m)'
      <3>1. m.path \in U!Owned => \A x : U!Fits(recorded[u], m.path, x) => U!Fits(recorded[u], m.path, x)'
        BY <1>1, <1>4 DEF U!Fits
      <3>2. /\ m.path \in U!Owned /\ file'[m.path] \in U!OfTemplate(m.path) => file'[m.path] = m.write /\ m.ready
        <4>1. CASE m.path = p
          BY <1>3, <4>1, TextFacts
        <4>2. CASE m.path # p
          BY <1>3, <2>4, <4>2, TextFacts DEF U!Reversible
        <4> QED
          BY <4>1, <4>2
      <3>3. m.path = U!Lock => file'[U!Lock] = U!Absent \/ (file'[U!Lock] = m.write /\ m.ready)
        BY <1>3, <2>4 DEF U!Reversible
      <3>4. IF m.had THEN /\ backup[u][m.path] # U!Absent
                          /\ m.path \in U!Owned => U!Fits(recorded[u], m.path, backup[u][m.path])
                          /\ m.path = U!Lock => backup[u][U!Lock] = recorded[u]
             ELSE m.path # U!Lock /\ (m.path \in U!Owned => U!Fits(recorded[u], m.path, U!Absent))
        BY <2>4 DEF U!Reversible
      <3>5. PICK b : b = backup[u][m.path]
        OBVIOUS
      <3>6. m.path \in U!Owned /\ U!Fits(recorded[u], m.path, b) => U!Fits(recorded[u], m.path, backup[u][m.path])'
        BY <1>1, <3>1, <3>5 DEF U!Fits
      <3>7. m.path \in U!Owned /\ U!Fits(recorded[u], m.path, U!Absent) => U!Fits(recorded[u], m.path, U!Absent)'
        BY <3>1
      <3> QED
        BY <1>1, <3>2, <3>3, <3>4, <3>5, <3>6, <3>7 DEF U!Reversible
    <2>5. \A k \in U!ToUndo(u) : U!Reversible(u, done[u][k]) => U!Reversible(u, done[u][k])'
      <3> SUFFICES ASSUME NEW k \in U!ToUndo(u), U!Reversible(u, done[u][k]) PROVE U!Reversible(u, done[u][k])'
        OBVIOUS
      <3>1. PICK m : m = done[u][k]
        OBVIOUS
      <3>2. U!Reversible(u, m)'
        BY <2>4, <3>1
      <3> QED
        BY <1>1, <3>1, <3>2 DEF U!Reversible, U!Fits
    <2> QED
      BY <1>1, <1>3, <1>5, <1>6, <2>1, <2>2, <2>3, <2>5 DEF U!Underway, U!This
  <1>7. (U!Undisturbed' <=> U!Undisturbed) /\ \A u \in Upgrade : U!Active(u)' <=> U!Active(u)
    BY <1>1 DEF U!Undisturbed, U!Active
  <1> QED
    BY <1>1, <1>5, <1>6, <1>7 DEF U!LockInv

LEMMA LockStutter ==
    ASSUME U!LockInv, UNCHANGED <<file, saves, torn, alone, pc, i, recorded, ops, backup, done, kept, exit>>
    PROVE  U!LockInv'
  <1>1. \A u \in Upgrade : U!Underway(u) => U!Underway(u)'
    BY OthersStay
  <1>2. U!Agree => U!Agree'
    BY AgreeStays
  <1>3. (U!Undisturbed' <=> U!Undisturbed) /\ \A u \in Upgrade : U!Active(u)' <=> U!Active(u)
    BY DEF U!Undisturbed, U!Active
  <1> QED
    BY <1>1, <1>2, <1>3 DEF U!LockInv

LEMMA LockInit == U!Init => U!LockInv
  <1> SUFFICES ASSUME U!Init PROVE U!LockInv
    OBVIOUS
  <1>1. 1 \in U!Versions
    BY DEF U!Versions
  <1>2. file[U!Lock] = U!LockOf(1) /\ file[U!Lock] \in U!Locks
    BY <1>1, TextFacts DEF U!Init, U!Locks
  <1>3. ASSUME NEW p \in U!Owned PROVE U!Fits(U!LockOf(1), p, file[p])
    <2>1. file[p] = Offers[p][1]
      BY TextFacts DEF U!Init
    <2>2. U!Installed(U!LockOf(1), p) = IF Offers[p][1] = U!Absent THEN 0 ELSE Offers[p][1][1]
      BY <1>1, LockValues
    <2>3. \A c \in U!OfTemplate(p) : c = <<c[1]>>
      BY TextFacts
    <2> QED
      BY <2>1, <2>2, <2>3 DEF U!Fits
  <1>4. \A u \in Upgrade : ~U!Active(u)
    BY DEF U!Init, U!Active
  <1> QED
    BY <1>2, <1>3, <1>4 DEF U!LockInv, U!Agree

LEMMA LockStep == ASSUME U!SavesInv, U!LockInv, U!Next PROVE U!LockInv'
  <1>1. ASSUME NEW u \in Upgrade, U!Step(u)
        PROVE  U!LockInv'
    BY <1>1, LockCheck, LockBefore, LockPlan, LockMove, LockCompare, LockInstall, LockFinish,
       LockLook, LockUnlink, LockPutBack, LockEndUndo, LockFails DEF U!Step
  <1>2. CASE U!Commit
    BY <1>2, LockStutter DEF U!Commit, U!run
  <1> QED
    BY <1>1, <1>2, LockEdit DEF U!Next

\* The strengthened invariant holds in every behaviour about template upgrades.
TemplateInv == part = "template" => U!SavesInv /\ U!LockInv

LEMMA TemplateInvHolds == Spec => []TemplateInv
  <1>1. Init => TemplateInv
    BY SavesInit, LockInit DEF Init, InitMirror, InitFolders, InitTemplate, TemplateInv
  <1>2. TemplateInv /\ [Next]_vars => TemplateInv'
    <2> SUFFICES ASSUME TemplateInv, [Next]_vars PROVE TemplateInv'
      OBVIOUS
    <2>1. CASE StepTemplate
      BY <2>1, SavesStep, LockStep DEF StepTemplate, TemplateInv
    <2>2. CASE StepMirror \/ StepFolders
      BY <2>2 DEF StepMirror, StepFolders, TemplateInv
    <2>3. CASE UNCHANGED vars
      BY <2>3, SavesStutter, LockStutter DEF vars, TemplateInv
    <2> QED
      BY <2>1, <2>2, <2>3 DEF Next
  <1> QED
    BY <1>1, <1>2, PTL DEF Spec

\* Whatever upgrades run side by side, fail or are interrupted: what a developer
\* saved is in its file, or aside in a scratch directory that is still there.
THEOREM SavesSurvive == Spec => []SavesAreKept
  <1>1. TemplateInv => SavesAreKept
    BY DEF TemplateInv, U!SavesInv, SavesAreKept
  <1> QED
    BY <1>1, TemplateInvHolds, PTL

\* However upgrades fail and are interrupted one after the other: what holds a
\* version of the template holds the one that the lock file names.
THEOREM LockNamesWhatIsThere == Spec => []LockIsTrue
  <1>1. ASSUME U!LockInv PROVE U!LockIsTrue
    <2> SUFFICES ASSUME U!Quiet, ~torn, alone, NEW p \in U!Owned
                 PROVE  IF file[p] = U!Absent THEN saves > 0 \/ U!Installed(file[U!Lock], p) = 0
                        ELSE file[p] \in U!Range(Offers[p]) => file[p] = <<U!Installed(file[U!Lock], p)>>
      BY DEF U!LockIsTrue
    <2>1. U!Undisturbed /\ \A u \in Upgrade : ~U!Active(u)
      BY DEF U!Quiet, U!Undisturbed, U!Active
    <2>2. U!Fits(file[U!Lock], p, file[p])
      BY <1>1, <2>1 DEF U!LockInv, U!Agree
    <2> QED
      BY <2>2 DEF U!Fits, U!OfTemplate
  <1>2. TemplateInv => LockIsTrue
    BY <1>1 DEF TemplateInv, LockIsTrue
  <1> QED
    BY <1>2, TemplateInvHolds, PTL

=============================================================================
