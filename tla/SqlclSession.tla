----------------------------- MODULE SqlclSession -----------------------------
(***************************************************************************)
(* One call of run_sqlcl (scripts/sqlcl_session.py, windows_job.py,        *)
(* sqlcl_session.sh, sqlcl_safe.sh): a bridge shell starts SQLcl and both   *)
(* write into one pipe; the caller reads it while it watches a time limit, *)
(* a cancellation, an output limit and the signals of its own process, and *)
(* must end the whole tree before it answers.                              *)
(*                                                                         *)
(* The output is a sequence of lines, and one line is the unit of the      *)
(* output limit.  `mode' is the platform the call runs on: "posix" with a   *)
(* process group of its own, "windows" with a job object when one can be    *)
(* had and with taskkill otherwise.                                        *)
(***************************************************************************)
EXTENDS Naturals, Sequences, SequencesExt, FiniteSetsExt

CONSTANTS
    MaxOutput,    \* bound: lines SQLcl writes
    Limit         \* the lines a bounded call accepts

ASSUME LimitAssumption == MaxOutput \in Nat /\ Limit \in Nat \ {0}

VARIABLES
    mode,         \* platform and kind of the call
    bridge, sql,  \* the two processes: "no", "running", "exited"
    joined,       \* SQLcl was started inside the job object
    status,       \* exit status of SQLcl, and of the bridge
    wrote,        \* lines SQLcl has written
    read, kept,   \* how many of them were read, and captured
    exceeded,     \* a line beyond the limit was read
    late,         \* the deadline has passed
    cancel,       \* the caller's cancellation event
    ctrlC,        \* the console event that windows_job latches
    pc, why,      \* where the call is, and how its session ended
    log,          \* lines in sqlcl-output.log
    outcome       \* what the caller of run_sqlcl learns

processes == <<bridge, sql, joined, status, wrote>>
pipe == <<read, kept, exceeded>>
events == <<late, cancel, ctrlC>>
vars == <<mode, processes, pipe, events, pc, why, log, outcome>>

Line == {"text", "error"}
Posix == mode.os = "posix"
NoLog == MaxOutput + 1

Init ==
    /\ mode \in [os : {"posix", "windows"}, bounded : BOOLEAN, main : BOOLEAN, job : BOOLEAN]
    /\ Posix => ~mode.job
    /\ bridge = "no" /\ sql = "no" /\ joined = FALSE /\ status = 0
    /\ wrote = <<>>
    /\ read = 0 /\ kept = 0 /\ exceeded = FALSE
    /\ late = FALSE /\ cancel = FALSE /\ ctrlC = FALSE
    /\ pc = "start" /\ why = "none" /\ log = NoLog /\ outcome = "none"

-----------------------------------------------------------------------------
(* The processes of the call *)

\* A process belongs to the job when its parent did as it was started.
SqlStarts ==
    /\ bridge = "running" /\ sql = "no"
    /\ sql' = "running" /\ joined' = (mode.job /\ pc # "spawned")
    /\ UNCHANGED <<mode, bridge, status, wrote, pipe, events, pc, why, log, outcome>>

SqlWrites ==
    /\ sql = "running" /\ Len(wrote) < MaxOutput
    /\ \E line \in Line : wrote' = Append(wrote, line)
    /\ UNCHANGED <<mode, bridge, sql, joined, status, pipe, events, pc, why, log, outcome>>

SqlEnds ==
    /\ sql = "running"
    /\ sql' = "exited"
    /\ status' \in (IF bridge = "running" THEN {0, 1} ELSE {status})
    /\ UNCHANGED <<mode, bridge, joined, wrote, pipe, events, pc, why, log, outcome>>

\* invoke_sqlcl_safe gives the status of SQLcl on; a bridge that cannot start
\* SQLcl, or that is killed alone, fails.
BridgeExits ==
    /\ bridge = "running"
    /\ bridge' = "exited"
    /\ status' \in (IF sql = "exited" THEN {status, 1} ELSE {1})
    /\ UNCHANGED <<mode, sql, joined, wrote, pipe, events, pc, why, log, outcome>>

-----------------------------------------------------------------------------
(* Ending the tree *)

Gone(process) == IF process = "running" THEN "exited" ELSE process

\* killpg of the call's own group; the job object; taskkill /T, which finds
\* SQLcl only through a living bridge.
Reached ==
    \/ Posix
    \/ mode.job /\ joined
    \/ ~mode.job /\ bridge = "running"

(* Mutant: only the bridge is killed. *)
StopTreeBridgeOnly ==
    /\ bridge' = Gone(bridge)
    /\ status' = IF bridge = "running" THEN 1 ELSE status
    /\ UNCHANGED <<sql, joined, wrote>>

StopTree ==
    /\ bridge' = Gone(bridge)
    /\ sql' = IF Reached THEN Gone(sql) ELSE sql
    /\ status' = IF bridge = "running" THEN 1 ELSE status
    /\ UNCHANGED <<joined, wrote>>

Halt(reason) == StopTree /\ why' = reason /\ pc' = "drain" /\ UNCHANGED outcome
Leave(result) == pc' = "over" /\ outcome' = result

-----------------------------------------------------------------------------
(* The call *)

Spawn ==
    /\ pc = "start"
    /\ \/ bridge' = "running" /\ pc' = "spawned" /\ UNCHANGED why
       \/ why' = "not started" /\ pc' = "log" /\ UNCHANGED bridge
    /\ UNCHANGED <<mode, sql, joined, status, wrote, pipe, events, log, outcome>>

\* The signal handlers are installed, or the bridge joins the job object.
Guard ==
    /\ pc = "spawned"
    /\ pc' = "wait"
    /\ \E added \in BOOLEAN : mode' = [mode EXCEPT !.job = @ /\ added]
    /\ UNCHANGED <<processes, pipe, events, why, log, outcome>>

\* A bounded call on POSIX stops at once when it reads too much.
Read ==
    /\ pc = "wait" /\ read < Len(wrote) /\ ~exceeded
    /\ read' = read + 1
    /\ IF mode.bounded /\ kept = Limit
         THEN /\ exceeded' = TRUE /\ UNCHANGED kept
              /\ IF Posix THEN Halt("limit") ELSE UNCHANGED <<processes, pc, why, outcome>>
         ELSE /\ kept' = kept + 1
              /\ UNCHANGED <<exceeded, processes, pc, why, outcome>>
    /\ UNCHANGED <<mode, events, log>>

(* Mutant: the deadline is looked at only when something was read. *)
SeeDeadlineAfterOutput == late /\ read > 0 /\ Halt("timeout")

SeeLimit == exceeded /\ Halt("limit")
SeeCancel == cancel /\ Halt("cancelled")
SeeDeadline == late /\ Halt("timeout")

SeeCtrlC == ctrlC /\ Halt("interrupted")

\* A system call of the loop fails: run_sqlcl takes every OSError for a
\* session that could not be started.
SystemCallFails == Halt("not started")

(* Mutant: the session has ended when its bridge has. *)
EndOfFileIsBridgeExit == bridge = "exited"

EndOfFile == bridge = "exited" /\ sql # "running" /\ (read = Len(wrote) \/ exceeded)

\* Only a bounded call looks at the clock again.
SeeEnd ==
    /\ EndOfFile
    /\ IF exceeded THEN Halt("limit")
       ELSE IF mode.bounded /\ late THEN Halt("timeout")
       ELSE why' = "ended" /\ pc' = "log" /\ UNCHANGED <<processes, outcome>>

Wait ==
    /\ pc = "wait"
    /\ SeeLimit \/ SeeCancel \/ SeeDeadline \/ SeeCtrlC \/ SystemCallFails \/ SeeEnd
    /\ UNCHANGED <<mode, pipe, events, log>>

\* What the bounded reader has kept when it has read all it may.
AtMost(n) == IF mode.bounded THEN Min({n, Limit}) ELSE n
AllGone == bridge # "running" /\ sql # "running"

(* Mutant: what is still in the pipe is dropped. *)
DrainedAtOnce == AllGone /\ kept' = kept

\* communicate() after the kill, or the join of the reader thread; both give
\* up on Windows, and communicate() then without any output.
Drained ==
    \/ AllGone /\ Posix /\ mode.bounded /\ why # "cancelled" /\ kept' = kept
    \/ AllGone /\ ~(Posix /\ mode.bounded /\ why # "cancelled") /\ kept' = AtMost(Len(wrote))
    \/ ~AllGone /\ ~Posix /\ kept' = (IF mode.bounded THEN kept ELSE 0)

Drain ==
    /\ pc = "drain"
    /\ Drained
    /\ IF why = "interrupted" THEN Leave("interrupted") ELSE pc' = "log" /\ UNCHANGED outcome
    /\ UNCHANGED <<mode, processes, read, exceeded, events, why, log>>

Captured == SubSeq(wrote, 1, kept)

\* sqlcl-output.log is written for every session that was started or failed to.
Conclude ==
    /\ pc = "log"
    /\ \/ log' = (IF why = "not started" THEN 0 ELSE kept)
          /\ Leave(IF why # "ended" THEN why
                   ELSE IF status = 0 /\ ~Contains(Captured, "error") THEN "success" ELSE "failed")
       \/ Leave("no log") /\ UNCHANGED log
    /\ UNCHANGED <<mode, processes, pipe, events, why>>

-----------------------------------------------------------------------------
(* What happens to the call *)

Deadline == ~late /\ late' = TRUE /\ UNCHANGED <<mode, processes, pipe, cancel, ctrlC, pc, why, log, outcome>>
Cancel == ~cancel /\ cancel' = TRUE /\ UNCHANGED <<mode, processes, pipe, late, ctrlC, pc, why, log, outcome>>

Event == pc \in {"spawned", "wait", "drain"} /\ (Deadline \/ Cancel)

\* Ctrl-C on POSIX reaches the main thread.  Until the handlers are in place
\* nothing stops the tree.
Interrupt ==
    /\ Posix /\ mode.main
    /\ \/ pc = "spawned" /\ Leave("unguarded") /\ UNCHANGED <<processes, why>>
       \/ pc = "wait" /\ Halt("interrupted")
       \/ pc \in {"drain", "log"} /\ Leave("interrupted") /\ UNCHANGED <<processes, why>>
    /\ UNCHANGED <<mode, pipe, events, log>>

PressCtrlC ==
    /\ ~Posix /\ pc \in {"spawned", "wait", "drain"} /\ ~ctrlC
    /\ ctrlC' = TRUE
    /\ UNCHANGED <<mode, processes, pipe, late, cancel, pc, why, log, outcome>>

\* SIGTERM or SIGHUP: the handler stops the tree and lets the process die, or
\* calls a handler of the command, which raises.  Without handlers it just dies.
Terminate ==
    /\ Posix
    /\ IF mode.main /\ pc \in {"wait", "drain"}
         THEN \/ StopTree /\ Leave("terminated") /\ UNCHANGED why
              \/ Halt("interrupted")
         ELSE pc # "over" /\ Leave("killed") /\ UNCHANGED <<processes, why>>
    /\ UNCHANGED <<mode, pipe, events, log>>

\* kill -9.  A job object ends with the last handle to it.
Kill ==
    /\ pc # "over"
    /\ Leave("killed")
    /\ IF mode.job /\ pc # "spawned" THEN StopTree ELSE UNCHANGED processes
    /\ UNCHANGED <<mode, pipe, events, why, log>>

Sql == SqlStarts \/ SqlWrites \/ SqlEnds \/ BridgeExits
Call == Spawn \/ Guard \/ Read \/ Wait \/ Drain \/ Conclude
World == Event \/ Interrupt \/ PressCtrlC \/ Terminate \/ Kill

Next == Sql \/ Call \/ World

\* The clock and the loop go on; SQLcl may hang for ever, and no fault has to
\* happen.
Fairness ==
    /\ WF_vars(pc \in {"spawned", "wait", "drain"} /\ Deadline)
    /\ WF_vars(Spawn \/ Guard) /\ WF_vars(Drain \/ Conclude)
    /\ WF_vars(pc = "wait" /\ SeeDeadline /\ UNCHANGED <<mode, pipe, events, log>>)

Spec == Init /\ [][Next]_vars /\ Fairness

-----------------------------------------------------------------------------
(* Properties *)

(* A successful call has the whole output of an SQLcl that ended by itself  *)
(* with status 0 and printed no error, however its lines were delayed and  *)
(* whichever of the two processes ended first.                             *)
SuccessIsComplete ==
    outcome = "success" =>
        /\ sql = "exited" /\ status = 0
        /\ Captured = wrote /\ ~Contains(wrote, "error")
        /\ log = Len(wrote)

(* Whatever ends a call - its answer, the limits, a cancellation, Ctrl-C or *)
(* SIGTERM - no process of its group or job object runs on; only a kill of  *)
(* the caller, or a signal before the handlers are in place, leaves one.    *)
TreeIsGone ==
    outcome \notin {"none", "killed", "unguarded"} /\ (Posix \/ (mode.job /\ joined)) => AllGone

(* A call that is cut off still hands over every line that SQLcl had        *)
(* written by then: a late answer in the pipe, such as the line that says   *)
(* that a migration was committed, is not lost.                            *)
LateAnswerIsKept ==
    (/\ outcome \in {"timeout", "cancelled"} /\ ~mode.bounded
     /\ Posix \/ (mode.job /\ joined))
    => log = Len(wrote)

(* Every call returns, also when SQLcl hangs and writes nothing.            *)
EveryCallReturns == <>(pc = "over")

(* "unable to start SQLcl" is one of the outputs that not_started_reason    *)
(* (migration_attempts.py) takes for a proof that no payload began.         *)
NotStartedIsTrue == outcome = "not started" => sql = "no"

(* A call hands over all that SQLcl wrote, whether it ended well or was cut  *)
(* off, and calls a success only what is one.                                *)
AnswerIsWhole == SuccessIsComplete /\ LateAnswerIsKept

=============================================================================
