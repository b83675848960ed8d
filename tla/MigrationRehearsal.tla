-------------------------- MODULE MigrationRehearsal --------------------------
(***************************************************************************)
(* `migrate --rehearse` (scripts/migration_rehearsal.py): the data files   *)
(* of some migration folders run in one SQLcl session of a real database,  *)
(* with their checks around them, and are rolled back.  The command sees   *)
(* only what the session printed; it exits with 0 when every file was      *)
(* rehearsed, every check was true and the rollback is proven, and with 1  *)
(* or 2 otherwise.  Meanwhile teammates commit to the same tables and      *)
(* edit the folders, and the session fails, is lost or ends too soon.      *)
(*                                                                         *)
(* One number stands for the data that the checks read.  A data file adds  *)
(* one to it, so that the precondition of a folder expects the files of    *)
(* the folders before it and its postcondition its own as well.            *)
(***************************************************************************)
EXTENDS Naturals, Sequences, FiniteSets, SequencesExt

CONSTANTS
    MaxFolders,   \* bound: folders of the rehearsal
    MaxFiles,     \* bound: files in all
    MaxMates      \* bound: commits of teammates

VARIABLES
    batch,        \* kind of each file of each folder
    autocommit,   \* whether this SQLcl really turns it off when told to
    committed,    \* the number, as everybody sees it
    mates,        \* how often teammates have committed to it
    edited,       \* a folder was edited after it had been frozen
    stage,        \* where the command is
    out,          \* what the data session has printed
    own,          \* what the data session has added and not committed
    session,      \* "none", "running", or how it ended
    verdict       \* what the command reports

db == <<committed, mates>>
vars == <<batch, autocommit, db, edited, stage, out, own, session, verdict>>

Kind == {"data", "ddl"}
Folders == 1..Len(batch)
DataFiles(k) == {i \in 1..Len(batch[k]) : batch[k][i] = "data"}

FilesBefore(k) == Cardinality({p \in (1..k - 1) \X (1..MaxFiles) : p[2] \in DataFiles(p[1])})

Ask(what, k, i) == [what |-> what, folder |-> k, file |-> i]

(* The driver that _render_driver writes: the values before any payload,   *)
(* each folder between its checks and metrics, the rollback, the values    *)
(* again.                                                                  *)
OfFolder(k) ==
    <<Ask("pre", k, 0), Ask("before", k, 0)>>
    \o FlattenSeq([i \in DOMAIN batch[k] |-> IF i \in DataFiles(k) THEN <<Ask("file", k, i)>> ELSE <<>>])
    \o <<Ask("after", k, 0), Ask("post", k, 0)>>

Driver ==
    [k \in Folders |-> Ask("start", k, 0)]
    \o FlattenSeq([k \in Folders |-> OfFolder(k)])
    \o <<Ask("rollback", 0, 0)>>
    \o FlattenSeq([k \in Folders |-> <<Ask("end", k, 0), Ask("final", k, 0)>>])

Init ==
    /\ batch \in {b \in UNION {[1..n -> UNION {[1..m -> Kind] : m \in 1..MaxFiles}] : n \in 1..MaxFolders} :
                    Len(FlattenSeq(b)) <= MaxFiles}
    /\ autocommit \in {"off", "on"}
    /\ committed = 0 /\ mates = 0
    /\ edited = FALSE
    /\ stage = "review" /\ out = <<>> /\ own = 0
    /\ session = "none"
    /\ verdict = [exit |-> "none", proof |-> "not needed"]

-----------------------------------------------------------------------------
(* Teammates *)

MateCommits ==
    /\ mates < MaxMates
    /\ mates' = mates + 1 /\ committed' = committed + 1
    /\ UNCHANGED <<batch, autocommit, edited, stage, out, own, session, verdict>>

EditFolder ==
    /\ ~edited /\ edited' = TRUE
    /\ UNCHANGED <<batch, autocommit, db, stage, out, own, session, verdict>>

-----------------------------------------------------------------------------
(* The command up to its data session *)

End(code, proof) == stage' = "over" /\ verdict' = [exit |-> code, proof |-> proof]
Refuse(code) == End(code, "not needed")

\* Target identity, confirmation, the folders once more, the transport lint.
Review ==
    /\ stage = "review"
    /\ \/ Refuse("declined") \/ Refuse("error")
       \/ edited /\ Refuse("error")
       \/ ~edited /\ stage' = "probe" /\ UNCHANGED verdict
    /\ UNCHANGED <<batch, autocommit, db, edited, out, own, session>>

(* Mutant: the setting of the session is not asked for. *)
ProbeNothing ==
    /\ stage = "probe"
    /\ stage' = "run" /\ session' = "running" /\ UNCHANGED verdict
    /\ UNCHANGED <<batch, autocommit, db, edited, out, own>>

\* _verify_autocommit_off: nothing runs unless SQLcl says that it is off.
Probe ==
    /\ stage = "probe"
    /\ \/ Refuse("error") /\ UNCHANGED session
       \/ autocommit = "off" /\ stage' = "run" /\ session' = "running" /\ UNCHANGED verdict
    /\ UNCHANGED <<batch, autocommit, db, edited, out, own>>

-----------------------------------------------------------------------------
(* The data session *)

Seen == committed + own
Next1 == Driver[Len(out) + 1]
Shows(result, value) ==
    out' = Append(out, [what |-> Next1.what, folder |-> Next1.folder, file |-> Next1.file,
                        result |-> result, value |-> value])
Say(result) == Shows(result, 0)
SayValue == Shows("value", Seen)

\* EXIT ... ROLLBACK
Stop(how) == session' = how /\ own' = 0

\* What a check of the folder finds, or that it could not be evaluated.
Truth(expected) == {IF Seen = expected THEN "true" ELSE "false", "error"}

(* Values before the payload: an error there stops the session. *)
StartValue ==
    /\ session = "running" /\ Next1.what = "start"
    /\ \/ SayValue /\ UNCHANGED <<own, session>>
       \/ Stop("failed") /\ UNCHANGED out
    /\ UNCHANGED <<batch, autocommit, db, edited, stage, verdict>>

\* A precondition that is not true is printed and stops the session.
Precondition ==
    /\ session = "running" /\ Next1.what = "pre"
    /\ \E truth \in Truth(FilesBefore(Next1.folder)) :
        /\ Say(truth)
        /\ IF truth = "true" THEN UNCHANGED <<own, session>> ELSE Stop("refused")
    /\ UNCHANGED <<batch, autocommit, db, edited, stage, verdict>>

RunFile ==
    /\ session = "running" /\ Next1.what = "file"
    /\ \/ /\ Say("complete")
          /\ IF autocommit = "on" THEN committed' = committed + 1 /\ UNCHANGED own
                                  ELSE own' = own + 1 /\ UNCHANGED committed
          /\ UNCHANGED session
       \/ Stop("failed") /\ UNCHANGED <<out, committed>>
    /\ UNCHANGED <<batch, autocommit, mates, edited, stage, verdict>>

ExpectedOf(ask) ==
    CASE ask.what = "before" -> FilesBefore(ask.folder)
      [] ask.what \in {"after", "post"} -> FilesBefore(ask.folder) + Cardinality(DataFiles(ask.folder))
      [] ask.what = "end" -> 0

\* Postconditions and metrics are printed, whatever they find.
Observe ==
    /\ session = "running" /\ Next1.what \in {"before", "after", "post", "end"}
    /\ \E truth \in Truth(ExpectedOf(Next1)) : Say(truth)
    /\ UNCHANGED <<batch, autocommit, db, edited, stage, own, session, verdict>>

RollBack ==
    /\ session = "running" /\ Next1.what = "rollback"
    /\ Say("done") /\ own' = 0
    /\ UNCHANGED <<batch, autocommit, db, edited, stage, session, verdict>>

\* The last values; after them the session ends by itself.
FinalValue ==
    /\ session = "running" /\ Next1.what = "final"
    /\ \/ SayValue \/ Say("error")
    /\ IF Len(out) + 1 = Len(Driver) THEN Stop("ended") ELSE UNCHANGED <<own, session>>
    /\ UNCHANGED <<batch, autocommit, db, edited, stage, verdict>>

\* SQLcl is killed at its time limit, or loses its connection; or it ends
\* without a word although the driver has not.
LoseSession ==
    /\ session = "running"
    /\ \/ session' = "lost" /\ UNCHANGED own
       \/ Stop("ended")
    /\ UNCHANGED <<batch, autocommit, db, edited, stage, out, verdict>>

\* The database notices a lost session and rolls it back.
Expire ==
    /\ session = "lost" /\ own # 0
    /\ own' = 0
    /\ UNCHANGED <<batch, autocommit, db, edited, stage, out, session, verdict>>

-----------------------------------------------------------------------------
(* The verdict *)

Printed(what) == {o \in ToSet(out) : o.what = what}
Of(what, k) == {o \in Printed(what) : o.folder = k}
RolledBack == Printed("rollback") # {}

\* A session error; a failed precondition is told apart from the others.
SessionFailed == session \in {"failed", "lost"} /\ \A o \in Printed("pre") : o.result = "true"

Worst(results) == IF "error" \in results THEN "error" ELSE IF "false" \in results THEN "false" ELSE "true"

\* The value of a folder before any payload against a later one; a value that
\* is missing or no number is an error.
Same(k, final) ==
    IF Of("start", k) = {} \/ \A o \in final : o.result # "value" THEN "error"
    ELSE IF \E a \in Of("start", k), b \in final : a.value # b.value THEN "false" ELSE "true"

\* In the session, or in fresh sessions that read what is committed.
ProofInSession == Worst({Same(k, Of("final", k)) : k \in Folders})
Fresh == {[result |-> "value", value |-> committed], [result |-> "error", value |-> 0]}
ProofsFresh == {Worst({Same(k, {fresh[k]}) : k \in Folders}) : fresh \in [Folders -> Fresh]}

RanData == Printed("file") # {}

\* The metrics have no fresh session: one whose frame is missing is an error.
Metrics == {"before", "after", "end"}
MetricResult(what, k) == IF Of(what, k) = {} THEN "error" ELSE (CHOOSE o \in Of(what, k) : TRUE).result
MetricResults == {MetricResult(what, k) : what \in Metrics, k \in Folders}
RollbackMetrics == {MetricResult("end", k) : k \in Folders}

Proofs ==
    IF RolledBack /\ RanData THEN {Worst({ProofInSession} \cup RollbackMetrics)}
    ELSE IF RolledBack THEN {Worst(RollbackMetrics)}
    ELSE {Worst({proof} \cup RollbackMetrics) : proof \in ProofsFresh}

CheckResults == {o.result : o \in Printed("pre") \cup Printed("post")}

(* Mutant: the proof counts only when it is false. *)
ExitOfUnproven(proof) ==
    IF SessionFailed \/ edited \/ (~RolledBack /\ session = "ended") THEN "error"
    ELSE IF "false" \in CheckResults \cup {proof} \/ \E k \in Folders : DataFiles(k) # DOMAIN batch[k] THEN "incomplete"
    ELSE "rehearsed"

ExitOf(proof) ==
    IF \/ SessionFailed
       \/ edited
       \/ ~RolledBack /\ session = "ended"
       \/ "error" \in CheckResults \cup MetricResults \cup {proof}
      THEN "error"
    ELSE IF \/ \E k \in Folders : DataFiles(k) # DOMAIN batch[k]
            \/ "false" \in CheckResults \cup MetricResults
            \/ proof # "true"
      THEN "incomplete"
    ELSE "rehearsed"

Conclude ==
    /\ stage = "run" /\ session # "running"
    /\ \E proof \in Proofs : End(ExitOf(proof), proof) \/ End("error", proof)
    /\ UNCHANGED <<batch, autocommit, db, edited, out, own, session>>

Kill ==
    /\ stage \notin {"over"}
    /\ stage' = "over"
    /\ session' = IF session = "running" THEN "lost" ELSE session
    /\ UNCHANGED <<batch, autocommit, db, edited, out, own, verdict>>

Next ==
    \/ MateCommits \/ EditFolder
    \/ Review \/ Probe \/ Conclude \/ Kill
    \/ StartValue \/ Precondition \/ RunFile \/ Observe \/ RollBack \/ FinalValue
    \/ LoseSession \/ Expire

Spec == Init /\ [][Next]_vars

-----------------------------------------------------------------------------
(* Properties *)

(* Exit 0: every file of every folder is a data file that ran to its end,   *)
(* every check and metric was true, the session rolled back by itself and   *)
(* saw its starting values again, and the folders are those it froze.       *)
RehearsedIsProven ==
    verdict.exit = "rehearsed" =>
        /\ \A k \in Folders : \A i \in DOMAIN batch[k] : \E o \in Of("file", k) : o.file = i
        /\ session = "ended" /\ Len(out) = Len(Driver)
        /\ \A k \in Folders, what \in {"pre", "post"} \cup Metrics : \A o \in Of(what, k) : o.result = "true"
        /\ \A k \in Folders : \A a \in Of("start", k), b \in Of("final", k) : a.value = b.value /\ b.result = "value"

(* A rehearsal leaves nothing behind: whatever fails, is lost or is killed, *)
(* everybody else sees exactly what the teammates committed.                *)
LeavesNoTrace == committed = mates

=============================================================================
