-------------------------- MODULE ApplicationPublish --------------------------
(***************************************************************************)
(* Publishing one DEV application from several checkouts: publish_app.sh   *)
(* with publish_app.sql (the whole application, or forced past the drift   *)
(* guard) and partial_publish.py (selected pages).  Every command takes    *)
(* the native application lock through application_lock.py, imports in an  *)
(* SQLcl session that outlives it, verifies what is live and releases the  *)
(* lock.  Developers save in Builder, export, and unlock by hand.          *)
(*                                                                         *)
(* A command is one publish; its source is named after it, so a page of    *)
(* the live application holds a command, a Builder save or Initial.        *)
(***************************************************************************)
EXTENDS Naturals, FiniteSets

CONSTANTS
    Command,      \* publish commands, each run once
    Checkout,     \* working copies
    Account,      \* workspace accounts
    Author,       \* values of DEVELOPER_NAME
    Page,
    CheckoutOf,   \* [Command -> Checkout]
    AccountOf,    \* [Checkout -> Account]: APEX_WORKSPACE_USERNAME
    AuthorOf,     \* [Checkout -> Author]
    Mode,         \* [Command -> {"full", "forced", "partial"}]
    Selected,     \* [Command -> SUBSET Page]: the --file pages, or Page
    MaxClock,     \* bound on Builder saves
    NoCommand,
    NoAccount

ASSUME ConstantsAssumption ==
    /\ \A p \in Command : CheckoutOf[p] \in Checkout /\ Mode[p] \in {"full", "forced", "partial"}
    /\ \A c \in Checkout : AccountOf[c] \in Account
    /\ \A p \in Command : Selected[p] \subseteq Page
    /\ \A c \in Checkout : AuthorOf[c] \in Author
    /\ Author # {}
    /\ NoCommand \notin Command
    /\ NoAccount \notin Account

VARIABLES
    live,         \* the application: version tag, last_updated_on, pages
    lock,         \* the native application lock and the run in its comment
    clock,        \* database time, one tick for each dated change
    tagsSeen,     \* tags that have been live
    reentered,    \* a command took a lock that its account held already
    repeated,     \* an import gave a tag that had been live before
    fileTag,      \* version line of a checkout's application.apx
    marker,       \* apex-team-export.json: the baseline of a checkout
    seen,         \* what a checkout has exported or published itself
    lost,         \* what unforced imports replaced unseen
    pc, sess,     \* the command and its database session
    held, attempted, verified,
    wrote,        \* what its import has committed: "nothing", "pages", "all"
    rec,          \* recovery.json of the command
    approved,     \* what the drift guard or the page snapshot approved
    tag, before,  \* the tag stamped by the command, the line it replaced
    restoreUnstamped  \* the exit trap takes the stamp back

dbVars == <<live, lock, clock, reentered, tagsSeen, repeated, lost>>
checkoutVars == <<fileTag, marker, seen>>
flagVars == <<held, attempted, verified, wrote, rec>>
runVars == <<approved, tag, before, restoreUnstamped>>
vars == <<dbVars, checkoutVars, pc, sess, flagVars, runVars>>

Tag == [author: Author, n: Nat]
Save == [by: Account, at: Nat]
Initial == NoCommand

\* A Builder save is not a publish.
ASSUME SaveAssumption == Save \cap (Command \cup {NoCommand}) = {}

Content == Command \cup {Initial} \cup Save
Live == [tag: Tag, at: Nat, page: [Page -> Content]]
Free == [owner |-> NoAccount, by |-> NoCommand]

Full(p) == Mode[p] # "partial"
OwnAccount(p) == AccountOf[CheckoutOf[p]]
NULL == 0    \* last_updated_on after an import

\* live_state_token of the live application or of a baseline.
Token(state) == [tag |-> state.tag, at |-> state.at]

Running(p) == pc[p] \notin {"idle", "over"}
InImport(p) == sess[p] \in {"asserted", "written", "tagged"}
SessionOpen(p) == sess[p] \in {"acquiring", "readFree", "releasing",
                               "connected", "checked", "asserted", "written", "tagged"}

NoRecord == [status |-> "none", proof |-> FALSE]
\* save_record
SaveRecord(p, status, proof) ==
    rec' = [rec EXCEPT ![p] = [status |-> status, proof |-> proof]]

Goto(p, place) == pc' = [pc EXCEPT ![p] = place]
Session(p, state) == sess' = [sess EXCEPT ![p] = state]

-----------------------------------------------------------------------------
InitialTag == [author |-> CHOOSE a \in Author : TRUE, n |-> 1]

\* The command's process is gone and its variables with it.
Ends(p) ==
    /\ Goto(p, "over")
    /\ held' = [held EXCEPT ![p] = FALSE]
    /\ attempted' = [attempted EXCEPT ![p] = FALSE]
    /\ before' = [before EXCEPT ![p] = InitialTag]
    /\ restoreUnstamped' = [restoreUnstamped EXCEPT ![p] = FALSE]

Init ==
    /\ live = [tag |-> InitialTag, at |-> NULL, page |-> [g \in Page |-> Initial]]
    /\ lock = Free
    /\ clock = 0
    /\ tagsSeen = {InitialTag}
    /\ reentered = FALSE
    /\ repeated = FALSE
    /\ lost = {}
    /\ fileTag = [c \in Checkout |-> InitialTag]
    /\ marker = [c \in Checkout |-> live]
    /\ seen = [c \in Checkout |-> {Initial}]
    /\ pc = [p \in Command |-> "idle"]
    /\ sess = [p \in Command |-> "none"]
    /\ held = [p \in Command |-> FALSE]
    /\ attempted = [p \in Command |-> FALSE]
    /\ verified = [p \in Command |-> FALSE]
    /\ wrote = [p \in Command |-> "nothing"]
    /\ rec = [p \in Command |-> NoRecord]
    /\ approved = [p \in Command |-> live]
    /\ tag = [p \in Command |-> InitialTag]
    /\ before = [p \in Command |-> InitialTag]
    /\ restoreUnstamped = [p \in Command |-> FALSE]

-----------------------------------------------------------------------------
(* Taking the application lock *)

BeginUnrecorded(p) ==
    /\ pc[p] = "idle"
    /\ Goto(p, "acquire")
    /\ Session(p, "acquiring")
    /\ UNCHANGED <<dbVars, checkoutVars, flagVars, runVars>>

\* acquire_lock: the intent is on disk before the session starts.
Begin(p) ==
    /\ pc[p] = "idle"
    /\ Goto(p, "acquire")
    /\ SaveRecord(p, "acquisition-unknown", FALSE)
    /\ Session(p, "acquiring")
    /\ UNCHANGED <<dbVars, checkoutVars, held, attempted, verified, wrote, runVars>>

\* The session finds the application unlocked, or refuses (ORA-20067).
AcquireReads(p) ==
    /\ sess[p] = "acquiring"
    /\ Session(p, IF lock = Free THEN "readFree" ELSE "refused")
    /\ UNCHANGED <<dbVars, checkoutVars, pc, flagVars, runVars>>

\* lock_application and commit; the account that owns a lock may take it again.
AcquireLocks(p) ==
    /\ sess[p] = "readFree"
    /\ IF lock.owner \in {NoAccount, OwnAccount(p)}
         THEN /\ lock' = [owner |-> OwnAccount(p), by |-> p]
              /\ reentered' = (reentered \/ lock # Free)
              /\ Session(p, "locked")
         ELSE /\ Session(p, "refused")
              /\ UNCHANGED <<lock, reentered>>
    /\ UNCHANGED <<live, clock, tagsSeen, repeated, lost, checkoutVars, pc, flagVars, runVars>>

AcquireReturns(p) ==
    /\ pc[p] = "acquire"
    /\ sess[p] = "locked"
    /\ SaveRecord(p, "acquisition-unknown", TRUE)
    /\ Goto(p, "confirm")
    /\ UNCHANGED <<dbVars, checkoutVars, sess, held, attempted, verified, wrote, runVars>>

LockIsMine(p) == lock.owner = OwnAccount(p) /\ lock.by = p

\* What follows the capture of the lifecycle; --force skips the drift guard.
FirstCheck(p) ==
    CASE Mode[p] = "full" -> "drift"
      [] Mode[p] = "forced" -> "stamp"
      [] Mode[p] = "partial" -> "snapshot"

\* check_lock in a fresh session, then the record says held.
ConfirmHeld(p) ==
    /\ pc[p] = "confirm"
    /\ LockIsMine(p)
    /\ SaveRecord(p, "held", TRUE)
    /\ held' = [held EXCEPT ![p] = TRUE]
    /\ Goto(p, FirstCheck(p))
    /\ UNCHANGED <<dbVars, checkoutVars, sess, attempted, verified, wrote, runVars>>

-----------------------------------------------------------------------------
(* Before the import *)

NoTagDrift(c) == live.tag = marker[c].tag

\* check_builder_drift: the live tag and date are those of the baseline.  Dates
\* only grow, so an equal date is the date of the baseline.
NoDrift(c) ==
    /\ live.tag = marker[c].tag
    /\ \/ live.at = NULL /\ marker[c].at = NULL
       \/ live.at # NULL /\ marker[c].at # NULL /\ live.at <= marker[c].at

DriftApproves(p) ==
    /\ pc[p] = "drift"
    /\ NoDrift(CheckoutOf[p])
    /\ approved' = [approved EXCEPT ![p] = live]
    /\ Goto(p, "stamp")
    /\ UNCHANGED <<dbVars, checkoutVars, sess, flagVars, tag, before, restoreUnstamped>>

\* next_version, within one day: the counter goes up from the line in the file.
NextTag(line, c) == [author |-> AuthorOf[c], n |-> line.n + 1]

Stamp(p) ==
    LET c == CheckoutOf[p] IN
    /\ pc[p] = "stamp"
    /\ before' = [before EXCEPT ![p] = fileTag[c]]
    /\ tag' = [tag EXCEPT ![p] = NextTag(fileTag[c], c)]
    /\ fileTag' = [fileTag EXCEPT ![c] = NextTag(fileTag[c], c)]
    /\ restoreUnstamped' = [restoreUnstamped EXCEPT ![p] = TRUE]
    /\ Goto(p, "connect")
    /\ UNCHANGED <<dbVars, marker, seen, sess, flagVars, approved>>

\* publish_partial: two equal exports, and the selected pages are those of the
\* baseline; the private stage is stamped from the live version.
Snapshot(p) ==
    LET c == CheckoutOf[p] IN
    /\ pc[p] = "snapshot"
    /\ \A g \in Selected[p] : live.page[g] = marker[c].page[g]
    /\ approved' = [approved EXCEPT ![p] = live]
    /\ tag' = [tag EXCEPT ![p] = NextTag(live.tag, c)]
    /\ Goto(p, "checkStage")
    /\ UNCHANGED <<dbVars, checkoutVars, sess, flagVars, before, restoreUnstamped>>

\* backend.check() before importAttempted
CheckStage(p) ==
    /\ pc[p] = "checkStage"
    /\ LockIsMine(p)
    /\ Goto(p, "connect")
    /\ UNCHANGED <<dbVars, checkoutVars, sess, flagVars, runVars>>

Connect(p) ==
    /\ pc[p] = "connect"
    /\ attempted' = [attempted EXCEPT ![p] = TRUE]
    /\ Session(p, "connected")
    /\ Goto(p, "importing")
    /\ UNCHANGED <<dbVars, checkoutVars, held, verified, wrote, rec, runVars>>

-----------------------------------------------------------------------------
(* The import session *)

\* What the session reads again before it imports.
StillApproved(p) ==
    CASE Mode[p] = "full" -> Token(live) = Token(approved[p])
      [] Mode[p] = "forced" -> TRUE
      [] Mode[p] = "partial" -> live.tag = approved[p].tag

ImportChecks(p) ==
    /\ sess[p] = "connected"
    /\ Session(p, IF StillApproved(p) THEN "checked" ELSE "refused")
    /\ UNCHANGED <<dbVars, checkoutVars, pc, flagVars, runVars>>

ImportAssertsNothing(p) ==
    /\ sess[p] = "checked"
    /\ Session(p, "asserted")
    /\ UNCHANGED <<dbVars, checkoutVars, pc, flagVars, runVars>>

\* assert-lock.sql
ImportAsserts(p) ==
    /\ sess[p] = "checked"
    /\ Session(p, IF LockIsMine(p) THEN "asserted" ELSE "refused")
    /\ UNCHANGED <<dbVars, checkoutVars, pc, flagVars, runVars>>

\* Work that this checkout has not taken over: whatever a publish has sent,
\* verified or not, and what another account has saved.
Unseen(p, x) ==
    /\ x \notin seen[CheckoutOf[p]]
    /\ x \in Save => x.by # OwnAccount(p)

\* A partial import that ended between its pages and its tag.
HalfImported(x) == x \in Command /\ wrote[x] = "pages" /\ ~InImport(x)

Replaced(p) == {live.page[g] : g \in Selected[p]}

MakeLive(t) ==
    /\ repeated' = (repeated \/ t \in tagsSeen)
    /\ tagsSeen' = tagsSeen \cup {t}

\* apex import commits by itself: the whole application with its tag, or the
\* selected pages with the live tag.
ImportWrites(p) ==
    /\ sess[p] = "asserted"
    /\ IF Full(p)
         THEN /\ live' = [tag |-> tag[p], at |-> NULL, page |-> [g \in Page |-> p]]
              /\ MakeLive(tag[p])
         ELSE /\ live' = [live EXCEPT !.page = [g \in Page |-> IF g \in Selected[p] THEN p ELSE @[g]]]
              /\ UNCHANGED <<tagsSeen, repeated>>
    /\ lost' = IF Mode[p] = "forced" THEN lost
               ELSE lost \cup {x \in Replaced(p) : Unseen(p, x)}
    /\ wrote' = [wrote EXCEPT ![p] = IF Full(p) THEN "all" ELSE "pages"]
    /\ Session(p, IF Full(p) THEN "tagged" ELSE "written")
    /\ UNCHANGED <<lock, clock, reentered, checkoutVars, pc, held, attempted, verified, rec, runVars>>

\* partial_publish.sql after the guards are read again: set_application_version
\* dates the application.
ImportTags(p) ==
    /\ sess[p] = "written"
    /\ IF LockIsMine(p) /\ live.tag = approved[p].tag
         THEN /\ live' = [live EXCEPT !.tag = tag[p], !.at = clock + 1]
              /\ clock' = clock + 1
              /\ MakeLive(tag[p])
              /\ wrote' = [wrote EXCEPT ![p] = "all"]
              /\ Session(p, "tagged")
         ELSE /\ Session(p, "refused")
              /\ UNCHANGED <<live, clock, tagsSeen, repeated, wrote>>
    /\ UNCHANGED <<lock, reentered, lost, checkoutVars, pc, held, attempted, verified, rec, runVars>>

\* The second assertion, then the line that proves the import.
ImportConcludes(p) ==
    /\ sess[p] = "tagged"
    /\ Session(p, IF LockIsMine(p) THEN "done" ELSE "refused")
    /\ UNCHANGED <<dbVars, checkoutVars, pc, flagVars, runVars>>

\* The session is lost with whatever it has done.
SessionBreaks(p) ==
    /\ SessionOpen(p)
    /\ Session(p, "broken")
    /\ UNCHANGED <<dbVars, checkoutVars, pc, flagVars, runVars>>

ImportReturns(p) ==
    /\ pc[p] = "importing"
    /\ sess[p] = "done"
    /\ restoreUnstamped' = [restoreUnstamped EXCEPT ![p] = FALSE]
    /\ Goto(p, "export1")
    /\ UNCHANGED <<dbVars, checkoutVars, sess, flagVars, approved, tag, before>>

\* The client failed, or a signal ended it: its session may go on.
ImportFails(p) ==
    /\ pc[p] = "importing"
    /\ Goto(p, "cleanup")
    /\ UNCHANGED <<dbVars, checkoutVars, sess, flagVars, runVars>>

-----------------------------------------------------------------------------
(* After the import *)

\* The re-export is the source that was sent: the command's whole source, or its
\* pages in the snapshot, under its tag.
ShowsMySource(p) ==
    /\ live.tag = tag[p]
    /\ live.page = [g \in Page |-> IF g \in Selected[p] THEN p ELSE approved[p].page[g]]

\* verify_source_bytes, read_verified_revision, verify_partial_source
FirstExport(p) ==
    /\ pc[p] = "export1"
    /\ ShowsMySource(p)
    /\ approved' = [approved EXCEPT ![p] = live]
    /\ Goto(p, IF Full(p) THEN "export2" ELSE "check")
    /\ UNCHANGED <<dbVars, checkoutVars, sess, flagVars, tag, before, restoreUnstamped>>

\* verify_stable_reexport: the same source and the same revision again.
SecondExport(p) ==
    /\ pc[p] = "export2"
    /\ live = approved[p]
    /\ Goto(p, "check")
    /\ UNCHANGED <<dbVars, checkoutVars, sess, flagVars, runVars>>

CheckNothing(p) ==
    /\ pc[p] = "check"
    /\ verified' = [verified EXCEPT ![p] = TRUE]
    /\ Goto(p, "release")
    /\ UNCHANGED <<dbVars, checkoutVars, sess, held, attempted, wrote, rec, runVars>>

\* check_lock again, after the lifecycle was seen as it was before.
CheckLock(p) ==
    /\ pc[p] = "check"
    /\ LockIsMine(p)
    /\ verified' = [verified EXCEPT ![p] = TRUE]
    /\ Goto(p, "release")
    /\ UNCHANGED <<dbVars, checkoutVars, sess, held, attempted, wrote, rec, runVars>>

\* release_lock: the record first, then the session.
SendRelease(p) ==
    /\ pc[p] = "release"
    /\ SaveRecord(p, "release-unknown", TRUE)
    /\ Session(p, "releasing")
    /\ Goto(p, "releasing")
    /\ UNCHANGED <<dbVars, checkoutVars, held, attempted, verified, wrote, runVars>>

\* evidence_guard, unlock_application and commit
ReleaseRuns(p) ==
    /\ sess[p] = "releasing"
    /\ IF LockIsMine(p)
         THEN lock' = Free /\ Session(p, "released")
         ELSE Session(p, "refused") /\ UNCHANGED lock
    /\ UNCHANGED <<live, clock, reentered, tagsSeen, repeated, lost, checkoutVars, pc, flagVars, runVars>>

ReleaseReturns(p) ==
    /\ pc[p] = "releasing"
    /\ sess[p] = "released"
    /\ SaveRecord(p, "released", TRUE)
    /\ held' = [held EXCEPT ![p] = FALSE]
    /\ attempted' = [attempted EXCEPT ![p] = FALSE]
    /\ Goto(p, "baseline")
    /\ UNCHANGED <<dbVars, checkoutVars, sess, verified, wrote, runVars>>

RecordTokenOnly(p) ==
    LET c == CheckoutOf[p] IN
    /\ pc[p] = "baseline"
    /\ marker' = [marker EXCEPT ![c] = Token(approved[p])]
    /\ seen' = [seen EXCEPT ![c] = @ \cup {approved[p].page[g] : g \in Page}]
    /\ fileTag' = IF Full(p) THEN fileTag ELSE [fileTag EXCEPT ![c] = tag[p]]
    /\ Ends(p)
    /\ UNCHANGED <<dbVars, sess, verified, wrote, rec, approved, tag>>

\* advance_baseline after the lock is free: what was exported, not what is live.
\* A partial publish installs the observed source with its marker.
RecordBaseline(p) ==
    LET c == CheckoutOf[p] IN
    /\ pc[p] = "baseline"
    /\ marker' = [marker EXCEPT ![c] = approved[p]]
    /\ seen' = [seen EXCEPT ![c] = @ \cup {approved[p].page[g] : g \in Page}]
    /\ fileTag' = IF Full(p) THEN fileTag ELSE [fileTag EXCEPT ![c] = tag[p]]
    /\ Ends(p)
    /\ UNCHANGED <<dbVars, sess, verified, wrote, rec, approved, tag>>

-----------------------------------------------------------------------------
(* Failures, kills and the exit trap *)

\* A step that refuses or fails ends the command in its exit trap.
StepFails(p) ==
    /\ Running(p)
    /\ pc[p] \notin {"importing", "cleanup", "cleanupRelease"}
    /\ Goto(p, "cleanup")
    /\ UNCHANGED <<dbVars, checkoutVars, sess, flagVars, runVars>>

\* The stamp is undone unless the import was seen to succeed.
UndoStamp(p) ==
    LET c == CheckoutOf[p] IN
    fileTag' = IF restoreUnstamped[p] /\ fileTag[c] = tag[p] THEN [fileTag EXCEPT ![c] = before[p]]
               ELSE fileTag

CleanupAlwaysReleases(p) ==
    /\ pc[p] = "cleanup"
    /\ held[p]
    /\ SaveRecord(p, "release-unknown", TRUE)
    /\ Session(p, "releasing")
    /\ Goto(p, "cleanupRelease")
    /\ UNCHANGED <<dbVars, checkoutVars, held, attempted, verified, wrote, runVars>>

\* A held lock is given back when no import was attempted.
CleanupReleases(p) ==
    /\ pc[p] = "cleanup"
    /\ held[p] /\ ~attempted[p]
    /\ SaveRecord(p, "release-unknown", TRUE)
    /\ Session(p, "releasing")
    /\ Goto(p, "cleanupRelease")
    /\ UNCHANGED <<dbVars, checkoutVars, held, attempted, verified, wrote, runVars>>

\* The release was proved or was not; the rest of the trap follows.
CleanupReleased(p) ==
    /\ pc[p] = "cleanupRelease"
    /\ IF sess[p] = "released"
         THEN SaveRecord(p, "released", TRUE)
         ELSE UNCHANGED rec
    /\ UndoStamp(p)
    /\ Ends(p)
    /\ UNCHANGED <<dbVars, marker, seen, sess, verified, wrote, approved, tag>>

CleanupKeeps(p) ==
    /\ pc[p] = "cleanup"
    /\ ~held[p] \/ attempted[p]
    /\ UndoStamp(p)
    /\ Ends(p)
    /\ UNCHANGED <<dbVars, marker, seen, sess, verified, wrote, rec, approved, tag>>

\* kill -9
Kill(p) ==
    /\ Running(p)
    /\ Ends(p)
    /\ UNCHANGED <<dbVars, checkoutVars, sess, verified, wrote, rec, approved, tag>>

-----------------------------------------------------------------------------
(* Developers *)

\* Builder enforces the lock of another account.
BuilderSave(a) ==
    /\ clock < MaxClock
    /\ lock.owner \in {NoAccount, a}
    /\ \E g \in Page :
           live' = [live EXCEPT !.at = clock + 1, !.page[g] = [by |-> a, at |-> clock + 1]]
    /\ clock' = clock + 1
    /\ UNCHANGED <<lock, reentered, tagsSeen, repeated, lost, checkoutVars, pc, sess, flagVars, runVars>>

Quiet(c) == \A p \in Command : CheckoutOf[p] = c => ~Running(p)

\* export_apps.sh and the merge that follows; the baseline is the live state.
Export(c) ==
    /\ Quiet(c)
    /\ marker[c] # live
    /\ marker' = [marker EXCEPT ![c] = live]
    /\ fileTag' = [fileTag EXCEPT ![c] = live.tag]
    /\ seen' = [seen EXCEPT ![c] = @ \cup {live.page[g] : g \in Page}]
    /\ UNCHANGED <<dbVars, pc, sess, flagVars, runVars>>

\* Git brings back an older application.apx; the baseline is not tracked.
CheckoutOlder(c) ==
    /\ Quiet(c)
    /\ fileTag[c] # InitialTag
    /\ fileTag' = [fileTag EXCEPT ![c] = InitialTag]
    /\ UNCHANGED <<dbVars, marker, seen, pc, sess, flagVars, runVars>>

\* app-unlock: owner-filtered, after the owner has seen that no import runs.
ManualUnlock(a) ==
    /\ lock.owner = a
    /\ \A p \in Command : InImport(p) => OwnAccount(p) # a
    /\ lock' = Free
    /\ UNCHANGED <<live, clock, reentered, tagsSeen, repeated, lost, checkoutVars, pc, sess, flagVars, runVars>>

-----------------------------------------------------------------------------
Proceed(p) ==
    \/ AcquireReturns(p) \/ ConfirmHeld(p) \/ DriftApproves(p) \/ Stamp(p) \/ Snapshot(p)
    \/ CheckStage(p) \/ Connect(p) \/ ImportReturns(p) \/ ImportFails(p) \/ FirstExport(p)
    \/ SecondExport(p) \/ CheckLock(p) \/ SendRelease(p) \/ ReleaseReturns(p)
    \/ RecordBaseline(p) \/ StepFails(p) \/ CleanupReleases(p) \/ CleanupReleased(p)
    \/ CleanupKeeps(p)

SessionMoves(p) ==
    \/ AcquireReads(p) \/ AcquireLocks(p) \/ ImportChecks(p) \/ ImportAsserts(p)
    \/ ImportWrites(p) \/ ImportTags(p) \/ ImportConcludes(p) \/ ReleaseRuns(p)
    \/ SessionBreaks(p)

Next ==
    \/ \E p \in Command : Begin(p) \/ Proceed(p) \/ SessionMoves(p) \/ Kill(p)
    \/ \E a \in Account : BuilderSave(a) \/ ManualUnlock(a)
    \/ \E c \in Checkout : Export(c) \/ CheckoutOlder(c)

Spec == Init /\ [][Next]_vars

-----------------------------------------------------------------------------
PC == {"idle", "acquire", "confirm", "drift", "stamp", "snapshot", "checkStage",
       "connect", "importing", "export1", "export2", "check",
       "release", "releasing", "baseline", "cleanup", "cleanupRelease", "over"}

SessionState == {"none", "acquiring", "readFree", "locked", "refused", "connected", "checked",
                 "asserted", "written", "tagged", "done", "broken", "releasing", "released"}

Record == [status : {"none", "acquisition-unknown", "held", "release-unknown", "released"},
           proof : BOOLEAN]

TypeOK ==
    /\ live \in Live
    /\ lock \in [owner : Account \cup {NoAccount}, by : Command \cup {NoCommand}]
    /\ clock \in Nat
    /\ tagsSeen \subseteq Tag
    /\ reentered \in BOOLEAN
    /\ repeated \in BOOLEAN
    /\ lost \subseteq Content
    /\ fileTag \in [Checkout -> Tag]
    /\ marker \in [Checkout -> Live]
    /\ seen \in [Checkout -> SUBSET Content]
    /\ pc \in [Command -> PC]
    /\ sess \in [Command -> SessionState]
    /\ held \in [Command -> BOOLEAN]
    /\ attempted \in [Command -> BOOLEAN]
    /\ verified \in [Command -> BOOLEAN]
    /\ wrote \in [Command -> {"nothing", "pages", "all"}]
    /\ rec \in [Command -> Record]
    /\ approved \in [Command -> Live]
    /\ tag \in [Command -> Tag]
    /\ before \in [Command -> Tag]
    /\ restoreUnstamped \in [Command -> BOOLEAN]

\* Two publishes of different accounts are never both between their lock
\* assertion and the end of their import, whatever sessions outlive their
\* command (assertion_sql around the import in publish_app.sql), as long as no
\* account runs two commands that race for the lock: lock_application lets an
\* account take its own lock again.
ImportsExclude ==
    \A p, q \in Command :
        InImport(p) /\ InImport(q) => reentered \/ OwnAccount(p) = OwnAccount(q)

\* An unforced publish replaces work of another publish or another account that
\* its checkout never exported (Unseen) only
\*   - after a version tag has been live twice: the drift guard has nothing but
\*     the tag to see an import by (check_builder_drift, live_state_token);
\*   - when an account has raced with itself for the lock; or
\*   - when the work is half a partial publish: its session ended after the
\*     pages and before the tag (partial_publish.sql), so that the tag the drift
\*     guard compares is still the old one.
NoSilentOverwrite == repeated \/ reentered \/ \A x \in lost : HalfImported(x)

\* Once an import has changed the application and nobody has verified it, the
\* record keeps the lock's token and never says released: the exit trap must not
\* give the lock back (cleanup of publish_app.sh, publish_partial's finally).
UnverifiedStaysOnRecord ==
    \A p \in Command : wrote[p] # "nothing" /\ ~verified[p] => rec[p] = [status |-> "held", proof |-> TRUE]

\* A lock that a command took is on its record, at whatever point it was killed:
\* the record is written before the session that acquires and before the one
\* that releases (save_record in acquire_lock and release_lock).
LockIsOnRecord ==
    \A p \in Command : lock.by = p => rec[p].status \in {"acquisition-unknown", "held", "release-unknown"}

SameAccount(p, x) ==
    IF x \in Command THEN OwnAccount(x) = OwnAccount(p) ELSE x \in Save /\ x.by = OwnAccount(p)

\* A publish releases its lock only when each page it sent is live as sent, or
\* has been saved again by its own account, which the lock does not exclude; or
\* an account raced with itself for the lock.
VerifiedIsLive ==
    \A p \in Command : verified'[p] /\ ~verified[p] =>
        reentered \/ \A g \in Selected[p] : SameAccount(p, live.page[g])
PublishedIsLive == [][VerifiedIsLive]_vars

\* Whatever a publish leaves behind when it ends or dies, the lock it holds in
\* the database and an application nobody has verified, is on its record.
LeftoversAreOnRecord == LockIsOnRecord /\ UnverifiedStaysOnRecord

=============================================================================
