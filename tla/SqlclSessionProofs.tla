-------------------------- MODULE SqlclSessionProofs --------------------------
(***************************************************************************)
(* Proofs about one call of run_sqlcl, for any output limit and any length *)
(* of the output: the tree it started is gone when it answers, and its     *)
(* answer is whole.                                                        *)
(***************************************************************************)
EXTENDS SqlclSession, TLAPS

(* The pipe: no more is read than was written, and a call that has not yet  *)
(* read too much has kept what it read.                                     *)
PipeInv ==
    /\ wrote \in Seq(Line)
    /\ read \in Nat /\ read <= Len(wrote) /\ kept \in Nat
    /\ pc \in {"start", "spawned", "wait"} /\ ~exceeded => kept = read

(* The course of the call: an outcome ends it, an end of file is seen only  *)
(* once, and how a session ended is not yet a success.                      *)
CourseInv ==
    /\ outcome # "none" => pc = "over"
    /\ why = "ended" => pc \in {"log", "over"}
    /\ why # "success"
    /\ pc = "start" => bridge = "no" /\ sql = "no"

\* The processes that the call can end: its group, or its job object.
Held == Posix \/ (mode.job /\ joined)

(* A call that has stopped its tree leaves nothing of it, and nothing can   *)
(* be started any more.                                                     *)
TreeInv ==
    pc \in {"drain", "log"} \/ outcome \notin {"none", "killed", "unguarded"} =>
        bridge # "running" /\ (Held => sql # "running")

(* The status 0 of a bridge is that of an SQLcl that ended. *)
StatusInv == bridge = "exited" /\ status = 0 => sql = "exited"

(* What a call holds when it writes its log. *)
LogInv ==
    pc = "log" =>
        /\ why = "ended" => bridge = "exited" /\ sql # "running" /\ kept = Len(wrote)
        /\ why \in {"timeout", "cancelled"} /\ ~mode.bounded /\ Held => kept = Len(wrote)

IndInv == PipeInv /\ CourseInv /\ TreeInv /\ StatusInv /\ LogInv /\ AnswerIsWhole

LEMMA InitInv == Init => IndInv
  BY DEF Init, IndInv, PipeInv, CourseInv, TreeInv, StatusInv, LogInv, AnswerIsWhole,
         SuccessIsComplete, LateAnswerIsKept, Line

(* Before it writes its log a call has no answer. *)
LEMMA NoAnswer ==
    ASSUME IndInv, outcome' = outcome, outcome = "none"
    PROVE  AnswerIsWhole'
  BY DEF AnswerIsWhole, SuccessIsComplete, LateAnswerIsKept

(* An answer stays whole while the processes it is about stand still. *)
LEMMA AnswerStays ==
    ASSUME AnswerIsWhole,
           UNCHANGED <<mode, joined, sql, status, wrote, kept, log, outcome>>
    PROVE  AnswerIsWhole'
  BY DEF AnswerIsWhole, SuccessIsComplete, LateAnswerIsKept, Captured, Posix

(* The processes of the call. *)
LEMMA SqlStartsInv == ASSUME IndInv, SqlStarts PROVE IndInv'
<1>1. outcome \in {"none", "killed", "unguarded"} /\ pc \notin {"drain", "log"}
  BY DEF IndInv, TreeInv, SqlStarts
<1>2. AnswerIsWhole'
  BY <1>1 DEF SqlStarts, AnswerIsWhole, SuccessIsComplete, LateAnswerIsKept
<1>3. (PipeInv /\ CourseInv /\ TreeInv /\ LogInv)'
  BY <1>1 DEF IndInv, PipeInv, CourseInv, TreeInv, LogInv, SqlStarts, pipe
<1>4. StatusInv'
  BY DEF IndInv, StatusInv, SqlStarts
<1> QED
  BY <1>2, <1>3, <1>4 DEF IndInv

LEMMA SqlWritesInv == ASSUME IndInv, SqlWrites PROVE IndInv'
<1> PICK line \in Line : wrote' = Append(wrote, line)
  BY DEF SqlWrites
<1>1. /\ sql = "running" /\ UNCHANGED <<mode, bridge, sql, joined, status, read, kept, exceeded, pc, why, log, outcome>>
      /\ Posix' = Posix /\ Held' = Held
  BY DEF SqlWrites, pipe, Posix, Held
<1>2. wrote' \in Seq(Line) /\ Len(wrote') = Len(wrote) + 1 /\ Len(wrote) \in Nat
  BY DEF IndInv, PipeInv
<1>3. PipeInv' /\ CourseInv' /\ TreeInv' /\ StatusInv'
  BY <1>1, <1>2 DEF IndInv, PipeInv, CourseInv, TreeInv, StatusInv
<1>4. LogInv'
  BY <1>1 DEF IndInv, LogInv, TreeInv
<1>5. AnswerIsWhole'
  BY <1>1 DEF IndInv, AnswerIsWhole, SuccessIsComplete, LateAnswerIsKept, TreeInv, Held
<1> QED
  BY <1>3, <1>4, <1>5 DEF IndInv

LEMMA SqlEndsInv == ASSUME IndInv, SqlEnds PROVE IndInv'
<1>1. /\ sql = "running" /\ sql' = "exited"
      /\ UNCHANGED <<mode, bridge, joined, wrote, read, kept, exceeded, pc, why, log, outcome>>
      /\ Posix' = Posix /\ Held' = Held
  BY DEF SqlEnds, pipe, Posix, Held
<1>2. PipeInv' /\ CourseInv' /\ TreeInv' /\ StatusInv' /\ LogInv'
  BY <1>1 DEF IndInv, PipeInv, CourseInv, TreeInv, StatusInv, LogInv
<1>3. AnswerIsWhole'
  BY <1>1 DEF IndInv, AnswerIsWhole, SuccessIsComplete, LateAnswerIsKept
<1> QED
  BY <1>2, <1>3 DEF IndInv

LEMMA BridgeExitsInv == ASSUME IndInv, BridgeExits PROVE IndInv'
<1>1. /\ bridge = "running" /\ bridge' = "exited"
      /\ status' = 1 \/ (sql = "exited" /\ status' = status)
      /\ UNCHANGED <<mode, sql, joined, wrote, read, kept, exceeded, pc, why, log, outcome>>
      /\ Posix' = Posix /\ Held' = Held
  BY DEF BridgeExits, pipe, Posix, Held
<1>2. outcome \in {"none", "killed", "unguarded"} /\ pc \notin {"drain", "log"}
  BY <1>1 DEF IndInv, TreeInv
<1>3. PipeInv' /\ CourseInv' /\ TreeInv' /\ StatusInv' /\ LogInv'
  BY <1>1, <1>2 DEF IndInv, PipeInv, CourseInv, TreeInv, StatusInv, LogInv
<1>4. AnswerIsWhole'
  BY <1>1, <1>2 DEF AnswerIsWhole, SuccessIsComplete, LateAnswerIsKept
<1> QED
  BY <1>3, <1>4 DEF IndInv

(* Stopping the tree of a call that has held it. *)
LEMMA StopTreeFacts ==
    ASSUME StatusInv, StopTree
    PROVE  /\ bridge' # "running" /\ (Held => sql' # "running")
           /\ bridge' \in {bridge, "exited"} /\ sql' \in {sql, "exited"}
           /\ wrote' = wrote /\ joined' = joined
           /\ bridge' = "exited" /\ status' = 0 => sql' = "exited"
  BY DEF StatusInv, StopTree, Gone, Reached, Held

(* A call that halts has no answer yet: it goes on to drain the pipe. *)
LEMMA HaltInv ==
    ASSUME IndInv, NEW reason, Halt(reason), reason \notin {"ended", "success"}, pc \in {"wait", "drain"},
           mode' = mode, wrote' = wrote, read' \in Nat, read' <= Len(wrote), kept' \in Nat
    PROVE  IndInv'
<1>1. /\ outcome = "none" /\ outcome' = "none" /\ pc' = "drain" /\ why' = reason
  BY DEF IndInv, CourseInv, Halt
<1>2. /\ bridge' # "running" /\ (Held' => sql' # "running")
      /\ bridge' = "exited" /\ status' = 0 => sql' = "exited"
  BY StopTreeFacts DEF IndInv, Halt, Held, Posix
<1>3. AnswerIsWhole'
  BY <1>1, NoAnswer DEF Halt
<1>4. PipeInv' /\ CourseInv' /\ TreeInv' /\ StatusInv' /\ LogInv'
  BY <1>1, <1>2 DEF IndInv, PipeInv, CourseInv, TreeInv, StatusInv, LogInv
<1> QED
  BY <1>3, <1>4 DEF IndInv

(* The call *)
LEMMA SpawnInv == ASSUME IndInv, Spawn PROVE IndInv'
<1>1. /\ pc = "start" /\ outcome = "none" /\ bridge = "no" /\ sql = "no"
      /\ UNCHANGED <<mode, sql, joined, status, wrote, read, kept, exceeded, log, outcome>>
      /\ \/ bridge' = "running" /\ pc' = "spawned" /\ why' = why
         \/ why' = "not started" /\ pc' = "log" /\ bridge' = bridge
  BY DEF IndInv, CourseInv, Spawn, pipe
<1>2. PipeInv' /\ CourseInv' /\ TreeInv' /\ StatusInv' /\ LogInv'
  BY <1>1 DEF IndInv, PipeInv, CourseInv, TreeInv, StatusInv, LogInv
<1>3. AnswerIsWhole'
  BY <1>1, NoAnswer
<1> QED
  BY <1>2, <1>3 DEF IndInv

LEMMA GuardInv == ASSUME IndInv, Guard PROVE IndInv'
<1>1. /\ pc = "spawned" /\ pc' = "wait" /\ outcome = "none"
      /\ UNCHANGED <<bridge, sql, joined, status, wrote, read, kept, exceeded, why, log, outcome>>
  BY DEF IndInv, CourseInv, Guard, pipe, processes
<1>2. PipeInv' /\ CourseInv' /\ TreeInv' /\ StatusInv' /\ LogInv'
  BY <1>1 DEF IndInv, PipeInv, CourseInv, TreeInv, StatusInv, LogInv
<1>3. AnswerIsWhole'
  BY <1>1, NoAnswer
<1> QED
  BY <1>2, <1>3 DEF IndInv

LEMMA ReadInv == ASSUME IndInv, Read PROVE IndInv'
<1>1. /\ pc = "wait" /\ outcome = "none" /\ read' = read + 1 /\ mode' = mode /\ read < Len(wrote) /\ ~exceeded
      /\ read \in Nat /\ read' \in Nat /\ kept \in Nat /\ Len(wrote) \in Nat /\ kept = read
  BY DEF IndInv, CourseInv, PipeInv, Read
<1>2. CASE mode.bounded /\ kept = Limit /\ Posix
  <2>1. Halt("limit") /\ kept' = kept
    BY <1>1, <1>2 DEF Read
  <2>2. wrote' = wrote
    BY <2>1 DEF Halt, StopTree
  <2> QED
    BY <1>1, <2>1, <2>2, HaltInv
<1>3. CASE ~(mode.bounded /\ kept = Limit /\ Posix)
  <2>1. /\ UNCHANGED <<bridge, sql, joined, status, wrote, pc, why, outcome, log>>
        /\ \/ exceeded' = TRUE /\ kept' = kept
           \/ exceeded' = exceeded /\ kept' = kept + 1
    BY <1>3 DEF Read, processes
  <2>2. PipeInv' /\ CourseInv' /\ TreeInv' /\ StatusInv' /\ LogInv'
    BY <1>1, <2>1 DEF IndInv, PipeInv, CourseInv, TreeInv, StatusInv, LogInv
  <2>3. AnswerIsWhole'
    BY <1>1, <2>1, NoAnswer
  <2> QED
    BY <2>2, <2>3 DEF IndInv
<1> QED
  BY <1>2, <1>3

LEMMA WaitInv == ASSUME IndInv, Wait PROVE IndInv'
<1>1. /\ pc = "wait" /\ outcome = "none" /\ UNCHANGED <<mode, read, kept, exceeded, log>>
      /\ read \in Nat /\ kept \in Nat /\ read <= Len(wrote) /\ (~exceeded => kept = read)
  BY DEF IndInv, CourseInv, PipeInv, Wait, pipe
<1>2. ASSUME NEW reason, Halt(reason), reason \notin {"ended", "success"} PROVE IndInv'
  <2>1. wrote' = wrote
    BY <1>2 DEF Halt, StopTree
  <2> QED
    BY <1>1, <1>2, <2>1, HaltInv
<1>3. CASE EndOfFile /\ ~exceeded /\ why' = "ended" /\ pc' = "log" /\ UNCHANGED <<processes, outcome>>
  <2>1. /\ bridge = "exited" /\ sql # "running" /\ read = Len(wrote) /\ kept = Len(wrote)
        /\ UNCHANGED <<bridge, sql, joined, status, wrote>>
    BY <1>1, <1>3 DEF EndOfFile, processes
  <2>2. PipeInv' /\ CourseInv' /\ TreeInv' /\ StatusInv' /\ LogInv'
    BY <1>1, <1>3, <2>1 DEF IndInv, PipeInv, CourseInv, TreeInv, StatusInv, LogInv
  <2>3. AnswerIsWhole'
    BY <1>1, <1>3, NoAnswer
  <2> QED
    BY <2>2, <2>3 DEF IndInv
<1>4. CASE SeeLimit \/ SeeCancel \/ SeeDeadline \/ SeeCtrlC \/ SystemCallFails
  BY <1>2, <1>4 DEF SeeLimit, SeeCancel, SeeDeadline, SeeCtrlC, SystemCallFails
<1>5. CASE SeeEnd
  BY <1>2, <1>3, <1>5 DEF SeeEnd
<1> QED
  BY <1>4, <1>5 DEF Wait

(* A call of an unbounded session that could end its tree has read all of   *)
(* the pipe when it leaves the drain.                                       *)
LEMMA DrainInv == ASSUME IndInv, Drain PROVE IndInv'
<1>1. /\ pc = "drain" /\ outcome = "none" /\ bridge # "running" /\ (Held => sql # "running")
      /\ why # "ended" /\ wrote \in Seq(Line) /\ Len(wrote) \in Nat
      /\ UNCHANGED <<mode, bridge, sql, joined, status, wrote, read, exceeded, why, log>>
      /\ kept \in Nat /\ Held' = Held /\ read \in Nat /\ read <= Len(wrote)
  BY DEF IndInv, CourseInv, TreeInv, PipeInv, Drain, processes, Held, Posix
<1>2. \/ pc' = "over" /\ outcome' = "interrupted"
      \/ pc' = "log" /\ outcome' = outcome
  BY DEF Drain, Leave
<1>3. kept' \in Nat
  <2>1. AtMost(Len(wrote)) \in Nat
    <3>1. CASE mode.bounded
      <4>1. Limit \in Nat
        BY LimitAssumption
      <4>2. PICK m \in {Len(wrote), Limit} : AtMost(Len(wrote)) = m
        <5>1. \E m \in {Len(wrote), Limit} : \A n \in {Len(wrote), Limit} : m <= n
          BY <1>1, <4>1
        <5> QED
          BY <3>1, <5>1 DEF AtMost, Min
      <4> QED
        BY <1>1, <4>1, <4>2
    <3>2. CASE ~mode.bounded
      BY <1>1, <3>2 DEF AtMost
    <3> QED
      BY <3>1, <3>2
  <2> QED
    BY <1>1, <2>1 DEF Drain, Drained
<1>4. ~mode.bounded /\ Held => kept' = Len(wrote)
  BY <1>1 DEF Drain, Drained, AllGone, AtMost, Held
<1>5. PipeInv' /\ CourseInv' /\ TreeInv' /\ StatusInv' /\ LogInv'
  BY <1>1, <1>2, <1>3, <1>4 DEF IndInv, PipeInv, CourseInv, TreeInv, StatusInv, LogInv
<1>6. AnswerIsWhole'
  BY <1>1, <1>2 DEF AnswerIsWhole, SuccessIsComplete, LateAnswerIsKept
<1> QED
  BY <1>5, <1>6 DEF IndInv

(* The answer: status and output of the session, and how it ended. *)
LEMMA ConcludeInv == ASSUME IndInv, Conclude PROVE IndInv'
<1>1. /\ pc = "log" /\ pc' = "over" /\ bridge # "running" /\ (Held => sql # "running")
      /\ UNCHANGED <<mode, bridge, sql, joined, status, wrote, read, kept, exceeded, why>>
      /\ Held' = Held /\ wrote \in Seq(Line) /\ Posix' = Posix
  BY DEF IndInv, TreeInv, PipeInv, Conclude, Leave, processes, pipe, Held, Posix
<1>2. PipeInv' /\ CourseInv' /\ TreeInv' /\ StatusInv' /\ LogInv'
  BY <1>1 DEF IndInv, PipeInv, CourseInv, TreeInv, StatusInv, LogInv
<1>3. CASE outcome' = "success"
  <2>1. why = "ended" /\ status = 0 /\ ~Contains(Captured, "error") /\ log' = kept
    BY <1>1, <1>3 DEF Conclude, Leave, IndInv, CourseInv
  <2>2. bridge = "exited" /\ sql = "exited" /\ kept = Len(wrote)
    BY <1>1, <2>1 DEF IndInv, LogInv, StatusInv
  <2>3. Captured = wrote
    BY <1>1, <2>2 DEF Captured
  <2>4. Captured' = Captured
    BY <1>1 DEF Captured
  <2>5. SuccessIsComplete'
    BY <1>1, <1>3, <2>1, <2>2, <2>3, <2>4 DEF SuccessIsComplete
  <2>6. LateAnswerIsKept'
    BY <1>3 DEF LateAnswerIsKept
  <2> QED
    BY <1>2, <2>5, <2>6 DEF IndInv, AnswerIsWhole
<1>4. CASE outcome' # "success"
  <2>1. outcome' \in {"timeout", "cancelled"} => why = outcome' /\ log' = kept
    BY <1>4 DEF Conclude, Leave
  <2>2. LateAnswerIsKept'
    BY <1>1, <2>1 DEF LateAnswerIsKept, IndInv, LogInv, Held
  <2> QED
    BY <1>2, <1>4, <2>2 DEF IndInv, AnswerIsWhole, SuccessIsComplete
<1> QED
  BY <1>3, <1>4

(* What happens to the call *)
LEMMA EventInv == ASSUME IndInv, Event \/ PressCtrlC PROVE IndInv'
<1>1. UNCHANGED <<mode, bridge, sql, joined, status, wrote, read, kept, exceeded, pc, why, log, outcome>>
  BY DEF Event, PressCtrlC, Deadline, Cancel, processes, pipe
<1>2. PipeInv' /\ CourseInv' /\ TreeInv' /\ StatusInv' /\ LogInv'
  BY <1>1 DEF IndInv, PipeInv, CourseInv, TreeInv, StatusInv, LogInv, Held, Posix
<1>3. AnswerIsWhole'
  BY <1>1, AnswerStays DEF IndInv
<1> QED
  BY <1>2, <1>3 DEF IndInv

(* A call that leaves with its tree stopped, or without an answer to give. *)
LEMMA LeaveInv ==
    ASSUME IndInv, NEW result, Leave(result), pc # "over",
           result \notin {"none", "success", "timeout", "cancelled"},
           mode' = mode, UNCHANGED <<why, pipe, log>>,
           \/ StopTree
           \/ /\ UNCHANGED processes
              /\ result \in {"killed", "unguarded"} \/ pc \in {"drain", "log"}
    PROVE  IndInv'
<1>1. /\ outcome = "none" /\ outcome' = result /\ pc' = "over"
      /\ UNCHANGED <<read, kept, exceeded, why>> /\ wrote' = wrote
  BY StopTreeFacts DEF IndInv, CourseInv, Leave, pipe, processes
<1>2. PipeInv' /\ CourseInv' /\ LogInv'
  BY <1>1 DEF IndInv, PipeInv, CourseInv, LogInv
<1>3. AnswerIsWhole'
  BY <1>1 DEF AnswerIsWhole, SuccessIsComplete, LateAnswerIsKept
<1>4. TreeInv' /\ StatusInv'
  <2>1. CASE StopTree
    BY <1>1, <2>1, StopTreeFacts DEF IndInv, TreeInv, StatusInv, Held, Posix
  <2>2. CASE UNCHANGED processes /\ (result \in {"killed", "unguarded"} \/ pc \in {"drain", "log"})
    BY <1>1, <2>2 DEF IndInv, TreeInv, StatusInv, Held, Posix, processes
  <2> QED
    BY <2>1, <2>2
<1> QED
  BY <1>2, <1>3, <1>4 DEF IndInv

LEMMA InterruptInv == ASSUME IndInv, Interrupt PROVE IndInv'
<1>1. mode' = mode /\ UNCHANGED <<pipe, log>>
  BY DEF Interrupt
<1>2. CASE pc = "spawned" /\ Leave("unguarded") /\ UNCHANGED <<processes, why>>
  BY <1>1, <1>2, LeaveInv
<1>3. CASE pc = "wait" /\ Halt("interrupted")
  <2>1. wrote' = wrote /\ read' = read /\ kept' = kept
    BY <1>1, <1>3 DEF Halt, StopTree, pipe
  <2>2. read \in Nat /\ kept \in Nat /\ read <= Len(wrote)
    BY DEF IndInv, PipeInv
  <2> QED
    BY <1>1, <1>3, <2>1, <2>2, HaltInv
<1>4. CASE pc \in {"drain", "log"} /\ Leave("interrupted") /\ UNCHANGED <<processes, why>>
  BY <1>1, <1>4, LeaveInv
<1> QED
  BY <1>2, <1>3, <1>4 DEF Interrupt

LEMMA TerminateInv == ASSUME IndInv, Terminate PROVE IndInv'
<1>1. mode' = mode /\ UNCHANGED <<pipe, log>>
  BY DEF Terminate
<1>2. CASE pc \in {"wait", "drain"} /\ StopTree /\ Leave("terminated") /\ UNCHANGED why
  BY <1>1, <1>2, LeaveInv
<1>3. CASE pc \in {"wait", "drain"} /\ Halt("interrupted")
  <2>1. wrote' = wrote /\ read' = read /\ kept' = kept
    BY <1>1, <1>3 DEF Halt, StopTree, pipe
  <2>2. read \in Nat /\ kept \in Nat /\ read <= Len(wrote)
    BY DEF IndInv, PipeInv
  <2> QED
    BY <1>1, <1>3, <2>1, <2>2, HaltInv
<1>4. CASE pc # "over" /\ Leave("killed") /\ UNCHANGED <<processes, why>>
  BY <1>1, <1>4, LeaveInv
<1> QED
  BY <1>2, <1>3, <1>4 DEF Terminate

LEMMA KillInv == ASSUME IndInv, Kill PROVE IndInv'
<1>1. /\ pc # "over" /\ Leave("killed") /\ mode' = mode /\ UNCHANGED <<pipe, why, log>>
      /\ StopTree \/ UNCHANGED processes
  BY DEF Kill
<1> QED
  BY <1>1, LeaveInv

LEMMA NextInv == IndInv /\ [Next]_vars => IndInv'
<1> SUFFICES ASSUME IndInv, [Next]_vars PROVE IndInv'
  OBVIOUS
<1>1. CASE Sql
  BY <1>1, SqlStartsInv, SqlWritesInv, SqlEndsInv, BridgeExitsInv DEF Sql
<1>2. CASE Call
  BY <1>2, SpawnInv, GuardInv, ReadInv, WaitInv, DrainInv, ConcludeInv DEF Call
<1>3. CASE World
  BY <1>3, EventInv, InterruptInv, TerminateInv, KillInv DEF World
<1>4. CASE UNCHANGED vars
  <2>1. UNCHANGED <<mode, bridge, sql, joined, status, wrote, read, kept, exceeded, pc, why, log, outcome>>
    BY <1>4 DEF vars, processes, pipe
  <2>2. PipeInv' /\ CourseInv' /\ TreeInv' /\ StatusInv' /\ LogInv'
    BY <2>1 DEF IndInv, PipeInv, CourseInv, TreeInv, StatusInv, LogInv, Held, Posix
  <2>3. AnswerIsWhole'
    BY <2>1, AnswerStays DEF IndInv
  <2> QED
    BY <2>2, <2>3 DEF IndInv
<1> QED
  BY <1>1, <1>2, <1>3, <1>4 DEF Next

LEMMA Always == Spec => []IndInv
  BY InitInv, NextInv, PTL DEF Spec

(* Whatever ends a call, no process of its group or job object runs on,     *)
(* unless the caller was killed or not yet guarded (_run_bridge and stop_tree).    *)
THEOREM NothingRunsOn == Spec => []TreeIsGone
<1>1. IndInv => TreeIsGone
  BY DEF IndInv, TreeInv, TreeIsGone, AllGone, Held
<1> QED
  BY <1>1, Always, PTL

(* A call hands over all that SQLcl wrote, also when it was cut off, and    *)
(* calls a success only what is one (run_sqlcl).           *)
THEOREM AnswersAreWhole == Spec => []AnswerIsWhole
<1>1. IndInv => AnswerIsWhole
  BY DEF IndInv
<1> QED
  BY <1>1, Always, PTL

=============================================================================
