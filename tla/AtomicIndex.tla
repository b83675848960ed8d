---------------------------- MODULE AtomicIndex ----------------------------
(***************************************************************************)
(* What the local state index promises to the commands that update it      *)
(* (scripts/release_state.py, _atomic_update): an update happens at one    *)
(* instant or not at all, a caller that is told of success was applied, a  *)
(* caller that is refused was not, and no update is ever lost.             *)
(***************************************************************************)
CONSTANT Process

VARIABLES
    index,   \* the processes whose update the index contains
    result   \* what each process has been told

Result == {"pending", "done", "checked", "failed", "refused", "dead"}

Init == index = {} /\ result = [p \in Process |-> "pending"]

Commit(p) ==
    /\ result[p] = "pending"
    /\ index' = index \cup {p}
    /\ UNCHANGED result

\* A failure may be reported after the commit (the mode of the new file or
\* the lock file could not be changed); a refusal and a check never are.
Answer(p, answer) ==
    /\ result[p] = "pending"
    /\ answer = "done" => p \in index
    /\ answer \in {"refused", "checked"} => p \notin index
    /\ result' = [result EXCEPT ![p] = answer]
    /\ UNCHANGED index

Next ==
    \E p \in Process :
      Commit(p) \/ \E answer \in Result \ {"pending"} : Answer(p, answer)

Spec == Init /\ [][Next]_<<index, result>>
=============================================================================
