--------------------------- MODULE BugLifecycle ---------------------------
(***************************************************************************)
(* Bug triage in one project: testers file feedback, a background          *)
(* goroutine drafts a bug from it (api/feedback.go), developers structure, *)
(* confirm, dismiss, edit and fix bugs (api/bugs.go, store/bugs.go).       *)
(*                                                                         *)
(* A request is a chain of database statements.  Each statement of the     *)
(* pool autocommits and each transaction commits at once, so the state     *)
(* between two of them is visible to every other request, and what an      *)
(* earlier statement read may be stale when a later one runs.  Every such  *)
(* statement or transaction is one action here.                            *)
(***************************************************************************)
EXTENDS FiniteSets

CONSTANTS
  Users,      \* accounts
  Creator,    \* the user who created the project
  Feedbacks,  \* ids of feedback rows, each given out once
  Bugs,       \* ids of structured_bugs rows, each given out once
  Releases,   \* ids of releases rows, each given out once
  Requests,   \* HTTP requests that may be in flight together
  None,       \* SQL NULL
  Unborn,     \* no row has this id yet
  Gone        \* the row that had this id was deleted

ASSUME BugAssumption ==
  /\ Creator \in Users
  /\ None \notin Users \cup Feedbacks \cup Bugs \cup Releases
  /\ Unborn \notin Users
  /\ Gone \notin Users
  /\ Unborn # Gone

VARIABLES
  users,     \* accounts that exist
  role,      \* role[u]: u's project_members row, "none" without one
  feedback,  \* feedback[f]: the author, or Unborn, or Gone
  release,   \* release[l]: the poster, or Unborn, or Gone
  bugs,      \* structured_bugs rows
  activity,  \* activity rows about bugs: who did what to which bug
  auto,      \* auto[f]: where autoStructureFeedback's goroutine for f stands
  req        \* req[r]: the request in slot r

vars == <<users, role, feedback, release, bugs, activity, auto, req>>

--------------------------------------------------------------------------
(* Tables, with the constraints the migrations put on them. *)

Roles == {"none", "creator", "developer", "tester"}

Maintainers == {"creator", "developer"}

BugStatuses == {"unborn", "suggested", "open", "needs_info", "fixed", "gone"}

\* CHECK (type IN (...)) on activity: 0001_init.sql, never altered later.
ActivityTypes == {"bug_structured", "bug_fixed", "release_shipped"}

BugRow ==
  [status       : BugStatuses,
   feedback     : Feedbacks \cup {None},   \* ON DELETE SET NULL
   text         : {"drafted", "edited"},   \* title, steps, expected, actual, severity
   structuredBy : Users \cup {None},
   fixedAt      : BOOLEAN,                 \* fixed_at IS NOT NULL
   fixedBy      : Users \cup {None},
   release      : Releases \cup {None}]    \* ON DELETE SET NULL

NoRow(status) ==
  [status |-> status, feedback |-> None, text |-> "drafted", structuredBy |-> None,
   fixedAt |-> FALSE, fixedBy |-> None, release |-> None]

\* INSERT INTO structured_bugs: the columns it leaves out are NULL.
NewRow(status, f, u) ==
  [NoRow(status) EXCEPT !.feedback = f, !.structuredBy = u]

\* What the UPDATE statements set.
Edited(row) == [row EXCEPT !.text = "edited"]

Moved(row, status) == [row EXCEPT !.status = status]

Confirmed(row, u) == [row EXCEPT !.status = "open", !.structuredBy = u]

Fixed(row, u, l) ==
  [row EXCEPT !.status = "fixed", !.fixedAt = TRUE, !.fixedBy = u, !.release = l]

Reopened(row) ==
  [row EXCEPT !.status = "open", !.fixedAt = FALSE, !.fixedBy = None, !.release = None]

ActivityRow == [type : ActivityTypes, actor : Users, bug : Bugs]

BugKinds == {"confirm", "dismiss", "edit", "needs_info", "resume", "reopen", "fix"}

Steps == {"idle", "authorized", "loaded", "insert", "update"}

Request ==
  [pc       : Steps,
   kind     : BugKinds \cup {"none", "structure"},
   user     : Users \cup {None},
   feedback : Feedbacks \cup {None},
   bug      : Bugs \cup {None},
   release  : Releases \cup {None}]

Idle ==
  [pc |-> "idle", kind |-> "none", user |-> None,
   feedback |-> None, bug |-> None, release |-> None]

AutoStates == {"idle", "analyze", "check", "suggest", "done", "lost"}

Live(row) == row \notin {Unborn, Gone}

Fresh(b) == bugs[b].status = "unborn"

Known(b) == bugs[b].status # "unborn"

\* BugForFeedback: EXISTS (SELECT 1 FROM structured_bugs WHERE feedback_id = f).
BugForFeedback(f) == \E b \in Bugs : bugs[b].feedback = f

Init ==
  /\ users = Users
  /\ role = [u \in Users |-> IF u = Creator THEN "creator" ELSE "none"]
  /\ feedback = [f \in Feedbacks |-> Unborn]
  /\ release = [l \in Releases |-> Unborn]
  /\ bugs = [b \in Bugs |-> NoRow("unborn")]
  /\ activity = {}
  /\ auto = [f \in Feedbacks |-> "idle"]
  /\ req = [r \in Requests |-> Idle]

--------------------------------------------------------------------------
(* People: memberships and accounts. *)

\* JoinByInviteCode, RespondTesterInvitation and AcceptTestSwap write the
\* membership row of an existing user; the last two overwrite the role of one
\* who is a member already.  (Who may do so when is Swaps' and the invitation
\* module's subject; here any overwrite may come at any time.)
WriteMembership(u, r) ==
  /\ u \in users \ {Creator}
  /\ Creator \in users
  /\ role[u] # r
  /\ role' = [role EXCEPT ![u] = r]
  /\ UNCHANGED <<users, feedback, release, bugs, activity, auto, req>>

\* createFeedback commits the report, then spawns the goroutine.
CreateFeedback(u, f) ==
  /\ role[u] # "none"
  /\ feedback[f] = Unborn
  /\ feedback' = [feedback EXCEPT ![f] = u]
  /\ auto' = [auto EXCEPT ![f] = "analyze"]
  /\ UNCHANGED <<users, role, release, bugs, activity, req>>

CreateRelease(u, l) ==
  /\ role[u] \in Maintainers
  /\ release[l] = Unborn
  /\ release' = [release EXCEPT ![l] = u]
  /\ UNCHANGED <<users, role, feedback, bugs, activity, auto, req>>

\* What the account's deletion leaves of a bug: its author columns and links to
\* deleted rows become NULL.
Unlink(row, u) ==
  [row EXCEPT
     !.feedback     = IF @ # None /\ feedback[@] = u THEN None ELSE @,
     !.structuredBy = IF @ = u THEN None ELSE @,
     !.fixedBy      = IF @ = u THEN None ELSE @,
     !.release      = IF @ # None /\ release[@] = u THEN None ELSE @]

\* DeleteUser for somebody who created no project: one transaction.
DeleteMember(u) ==
  /\ u \in users \ {Creator}
  /\ users' = users \ {u}
  /\ role' = [role EXCEPT ![u] = "none"]
  /\ feedback' = [f \in Feedbacks |-> IF feedback[f] = u THEN Gone ELSE feedback[f]]
  /\ release' = [l \in Releases |-> IF release[l] = u THEN Gone ELSE release[l]]
  /\ bugs' = [b \in Bugs |-> Unlink(bugs[b], u)]
  /\ activity' = {a \in activity : a.actor # u}
  /\ UNCHANGED <<auto, req>>

\* DeleteUser for the creator: the project goes, and its rows cascade.
DeleteCreator ==
  /\ Creator \in users
  /\ users' = users \ {Creator}
  /\ role' = [u \in Users |-> "none"]
  /\ feedback' = [f \in Feedbacks |-> IF Live(feedback[f]) THEN Gone ELSE feedback[f]]
  /\ release' = [l \in Releases |-> IF Live(release[l]) THEN Gone ELSE release[l]]
  /\ bugs' = [b \in Bugs |-> IF Known(b) THEN NoRow("gone") ELSE bugs[b]]
  /\ activity' = {}
  /\ UNCHANGED <<auto, req>>

--------------------------------------------------------------------------
(* Requests of maintainers: first the caller's role is read ... *)

Begin(r, u, request) ==
  /\ req[r].pc = "idle"
  /\ role[u] \in Maintainers
  /\ req' = [req EXCEPT ![r] = request]
  /\ UNCHANGED <<users, role, feedback, release, bugs, activity, auto>>

AskStructure(r, u, f) ==
  /\ feedback[f] # Unborn
  /\ Begin(r, u, [Idle EXCEPT !.pc = "authorized", !.kind = "structure",
                              !.user = u, !.feedback = f])

AskBug(r, u, k, b) ==
  /\ Known(b)
  /\ Begin(r, u, [Idle EXCEPT !.pc = "update", !.kind = k, !.user = u, !.bug = b])

\* A fix that names a release looks the release up before it updates the bug.
AskFixIn(r, u, b, l) ==
  /\ Known(b)
  /\ release[l] # Unborn
  /\ Begin(r, u, [Idle EXCEPT !.pc = "authorized", !.kind = "fix", !.user = u,
                              !.bug = b, !.release = l])

(* ... then the statements of the handler run one by one. *)

Go(r, pc) ==
  /\ req' = [req EXCEPT ![r].pc = pc]
  /\ UNCHANGED <<users, role, feedback, release, bugs, activity, auto>>

\* The request is answered, with success or an error.
Finish(r) == req' = [req EXCEPT ![r] = Idle]

Reply(r) ==
  /\ Finish(r)
  /\ UNCHANGED <<users, role, feedback, release, bugs, activity, auto>>

\* Mutant of Transact: activity without the CHECK on its type.
TransactUnchecked(r, b, ok, row, type) ==
  /\ IF ok /\ req[r].user \in users
       THEN /\ bugs' = [bugs EXCEPT ![b] = row]
            /\ activity' = activity \cup {[type |-> type, actor |-> req[r].user, bug |-> b]}
       ELSE UNCHANGED <<bugs, activity>>
  /\ Finish(r)
  /\ UNCHANGED <<users, role, feedback, release, auto>>

\* A transaction that writes bug row b and logs it: everything commits, or, if
\* ok is false, nothing does.  The author columns have foreign keys to users.
Transact(r, b, ok, row, type) ==
  /\ IF ok /\ req[r].user \in users /\ type \in ActivityTypes
       THEN /\ bugs' = [bugs EXCEPT ![b] = row]
            /\ activity' = activity \cup {[type |-> type, actor |-> req[r].user, bug |-> b]}
       ELSE UNCHANGED <<bugs, activity>>
  /\ Finish(r)
  /\ UNCHANGED <<users, role, feedback, release, auto>>

\* One autocommitted statement that writes bug row b if ok.
Update(r, b, ok, row) ==
  /\ bugs' = IF ok THEN [bugs EXCEPT ![b] = row] ELSE bugs
  /\ Finish(r)
  /\ UNCHANGED <<users, role, feedback, release, activity, auto>>

At(r, pc, kind) == req[r].pc = pc /\ req[r].kind = kind

\* GetFeedback
LoadFeedback(r) ==
  /\ At(r, "authorized", "structure")
  /\ IF Live(feedback[req[r].feedback]) THEN Go(r, "loaded") ELSE Reply(r)

\* "feedback already structured"
CheckStructured(r) ==
  /\ At(r, "loaded", "structure")
  /\ IF BugForFeedback(req[r].feedback) THEN Reply(r) ELSE Go(r, "insert")

\* StructureFeedback, once Analyze has returned: nothing looks for another bug
\* of the feedback again, and no index forbids one.
StructureFeedback(r, b) ==
  LET f == req[r].feedback IN
  /\ At(r, "insert", "structure")
  /\ Fresh(b)
  /\ Transact(r, b, Live(feedback[f]), NewRow("open", f, req[r].user), "bug_structured")

\* Mutant of ConfirmBug: its UPDATE does not look at the status.
ConfirmBugAnyStatus(r) ==
  LET b == req[r].bug IN
  /\ At(r, "update", "confirm")
  /\ Transact(r, b, TRUE, Confirmed(bugs[b], req[r].user), "bug_structured")

ConfirmBug(r) ==
  LET b == req[r].bug IN
  /\ At(r, "update", "confirm")
  /\ Transact(r, b, bugs[b].status = "suggested", Confirmed(bugs[b], req[r].user),
              "bug_structured")

DismissBug(r) ==
  LET b == req[r].bug IN
  /\ At(r, "update", "dismiss")
  /\ Update(r, b, bugs[b].status = "suggested", NoRow("gone"))

\* Mutant of UpdateBug: its UPDATE does not look at the status.
UpdateBugAnyStatus(r) ==
  LET b == req[r].bug IN
  /\ At(r, "update", "edit")
  /\ Update(r, b, TRUE, Edited(bugs[b]))

UpdateBug(r) ==
  LET b == req[r].bug IN
  /\ At(r, "update", "edit")
  /\ Update(r, b, bugs[b].status \in {"open", "needs_info"}, Edited(bugs[b]))

\* The activity row's type fails the table's CHECK, so this never commits.
MarkBugNeedsInfo(r) ==
  LET b == req[r].bug IN
  /\ At(r, "update", "needs_info")
  /\ Transact(r, b, bugs[b].status = "open", Moved(bugs[b], "needs_info"),
              "bug_needs_info")

\* Mutant of ResumeBug: it takes a fixed bug too.
ResumeBugFixed(r) ==
  LET b == req[r].bug IN
  /\ At(r, "update", "resume")
  /\ Update(r, b, bugs[b].status \in {"needs_info", "fixed"}, Moved(bugs[b], "open"))

ResumeBug(r) ==
  LET b == req[r].bug IN
  /\ At(r, "update", "resume")
  /\ Update(r, b, bugs[b].status = "needs_info", Moved(bugs[b], "open"))

\* The same: 'bug_reopened' fails the CHECK.
ReopenBug(r) ==
  LET b == req[r].bug IN
  /\ At(r, "update", "reopen")
  /\ Transact(r, b, bugs[b].status = "fixed", Reopened(bugs[b]), "bug_reopened")

\* MarkBugFixed's look at releases, on the pool and outside its transaction.
CheckRelease(r) ==
  /\ At(r, "authorized", "fix")
  /\ IF Live(release[req[r].release]) THEN Go(r, "update") ELSE Reply(r)

\* Mutant of MarkBugFixed: a bug that is fixed may be fixed again.
MarkBugFixedAgain(r) ==
  LET b == req[r].bug
      l == req[r].release
  IN
  /\ At(r, "update", "fix")
  /\ Transact(r, b,
              /\ bugs[b].status \in {"open", "fixed"}
              /\ l # None => Live(release[l]),
              Fixed(bugs[b], req[r].user, l), "bug_fixed")

MarkBugFixed(r) ==
  LET b == req[r].bug
      l == req[r].release
  IN
  /\ At(r, "update", "fix")
  /\ Transact(r, b,
              /\ bugs[b].status = "open"
              /\ l # None => Live(release[l]),   \* its foreign key
              Fixed(bugs[b], req[r].user, l), "bug_fixed")

\* The client goes away or the database fails: the context is cancelled and the
\* request ends between two statements.
Abandon(r) ==
  /\ req[r].pc # "idle"
  /\ Reply(r)

--------------------------------------------------------------------------
(* autoStructureFeedback: the goroutine that drafts a bug. *)

AutoGo(f, from, to) ==
  /\ auto[f] = from
  /\ auto' = [auto EXCEPT ![f] = to]

\* Analyze answers, by the model or by the heuristics, whether f reads like a bug.
AutoAnalyze(f) ==
  /\ \E to \in {"check", "done"} : AutoGo(f, "analyze", to)
  /\ UNCHANGED <<users, role, feedback, release, bugs, activity, req>>

\* Mutant of AutoCheck: the look-up's answer is read the wrong way round.
AutoCheckInverted(f) ==
  /\ AutoGo(f, "check", IF BugForFeedback(f) THEN "suggest" ELSE "done")
  /\ UNCHANGED <<users, role, feedback, release, bugs, activity, req>>

AutoCheck(f) ==
  /\ AutoGo(f, "check", IF BugForFeedback(f) THEN "done" ELSE "suggest")
  /\ UNCHANGED <<users, role, feedback, release, bugs, activity, req>>

\* Mutant of SuggestBug: an answer that never came is taken for a failure and
\* the INSERT is tried again.
SuggestBugRetried(f, b) ==
  /\ \E to \in {"suggest", "done"} : AutoGo(f, "suggest", to)
  /\ Fresh(b)
  /\ bugs' = IF Live(feedback[f]) THEN [bugs EXCEPT ![b] = NewRow("suggested", f, None)]
                                  ELSE bugs
  /\ UNCHANGED <<users, role, feedback, release, activity, req>>

\* SuggestBug: a single INSERT, refused by the foreign key if f is gone.
SuggestBug(f, b) ==
  /\ AutoGo(f, "suggest", "done")
  /\ Fresh(b)
  /\ bugs' = IF Live(feedback[f]) THEN [bugs EXCEPT ![b] = NewRow("suggested", f, None)]
                                  ELSE bugs
  /\ UNCHANGED <<users, role, feedback, release, activity, req>>

\* Its 30 seconds run out, or a statement fails: logged, and never tried again.
AutoFail(f) ==
  /\ \E from \in {"check", "suggest"} : AutoGo(f, from, "lost")
  /\ UNCHANGED <<users, role, feedback, release, bugs, activity, req>>

\* The server stops.  Shutdown waits for handlers at most, never for the
\* goroutines, and nothing on disk says that they were there.
Restart ==
  /\ req' = [r \in Requests |-> Idle]
  /\ auto' = [f \in Feedbacks |->
                IF auto[f] \in {"analyze", "check", "suggest"} THEN "lost" ELSE auto[f]]
  /\ UNCHANGED <<users, role, feedback, release, bugs, activity>>

--------------------------------------------------------------------------
People(u) ==
  \/ \E r \in {"tester", "developer"} : WriteMembership(u, r)
  \/ \E f \in Feedbacks : CreateFeedback(u, f)
  \/ \E l \in Releases : CreateRelease(u, l)
  \/ DeleteMember(u)

Ask(r, u) ==
  \/ \E f \in Feedbacks : AskStructure(r, u, f)
  \/ \E k \in BugKinds, b \in Bugs : AskBug(r, u, k, b)
  \/ \E b \in Bugs, l \in Releases : AskFixIn(r, u, b, l)

Statement(r) ==
  \/ LoadFeedback(r) \/ CheckStructured(r) \/ \E b \in Bugs : StructureFeedback(r, b)
  \/ ConfirmBug(r) \/ DismissBug(r) \/ UpdateBug(r)
  \/ MarkBugNeedsInfo(r) \/ ResumeBug(r) \/ ReopenBug(r)
  \/ CheckRelease(r) \/ MarkBugFixed(r)

AutoStep(f) == AutoAnalyze(f) \/ AutoCheck(f) \/ \E b \in Bugs : SuggestBug(f, b)

Work ==
  \/ \E u \in Users : People(u)
  \/ DeleteCreator
  \/ \E r \in Requests : Statement(r) \/ \E u \in Users : Ask(r, u)
  \/ \E f \in Feedbacks : AutoStep(f)

Failure ==
  \/ \E r \in Requests : Abandon(r)
  \/ \E f \in Feedbacks : AutoFail(f)
  \/ Restart

Next == Work \/ Failure

Spec == Init /\ [][Next]_vars

\* The Go runtime keeps running a goroutine that is ready; nothing else is
\* promised: no request need ever come, and no account need ever be deleted.
Fairness == \A f \in Feedbacks : WF_vars(AutoStep(f))

FairSpec == Spec /\ Fairness

\* The behaviours in which nothing fails.
CalmSpec == Init /\ [][Work]_vars /\ Fairness

--------------------------------------------------------------------------
(* Properties. *)

\* Every row, request and goroutine has its type, and no activity row has a
\* type its table refuses.
TypeOK ==
  /\ users \subseteq Users
  /\ role \in [Users -> Roles]
  /\ feedback \in [Feedbacks -> Users \cup {Unborn, Gone}]
  /\ release \in [Releases -> Users \cup {Unborn, Gone}]
  /\ bugs \in [Bugs -> BugRow]
  /\ activity \subseteq ActivityRow
  /\ auto \in [Feedbacks -> AutoStates]
  /\ req \in [Requests -> Request]

\* Only a fixed bug says when, by whom and in which release it was fixed, and a
\* fixed one always says when: the columns that MarkBugFixed sets and ReopenBug
\* clears never disagree with the status, whatever requests overlap.
FixMetadata ==
  \A b \in Bugs :
    /\ bugs[b].fixedAt <=> bugs[b].status = "fixed"
    /\ bugs[b].status # "fixed" => bugs[b].fixedBy = None /\ bugs[b].release = None

\* The activity trail says exactly what the rows say: u structured (or confirmed)
\* bug b, or fixed it, if and only if the trail has u's row for it.  So of two
\* maintainers who confirm or fix one bug at once the trail credits one; a draft
\* leaves no trace there; and the deletion of an account takes the credit from
\* both places or from neither.  (It rests on ReopenBug's never committing: a
\* reopening would clear fixed_by and leave the trail's bug_fixed row.)
AuditMatchesRows ==
  \A b \in Bugs, u \in Users :
    /\ bugs[b].structuredBy = u
         <=> [type |-> "bug_structured", actor |-> u, bug |-> b] \in activity
    /\ bugs[b].fixedBy = u
         <=> [type |-> "bug_fixed", actor |-> u, bug |-> b] \in activity

\* The goroutine leaves at most one draft of a report for a developer to
\* judge, although no index forbids a second.
OneDraftPerFeedback ==
  \A b, c \in Bugs :
    /\ bugs[b].status = "suggested"
    /\ bugs[c].status = "suggested"
    /\ bugs[b].feedback = bugs[c].feedback
    /\ bugs[b].feedback # None
    => b = c

\* A fixed bug's record is history: its text, its author, its fix, its report
\* change only by losing a reference to what an account's deletion removed, or
\* by a request to reopen it, which clears the fix and nothing else ("ReopenBug
\* moves a fixed bug back to open and clears fix metadata").  UpdateBug's promise
\* ("Suggested and fixed bugs cannot be edited") and MarkBugFixed's ("or is not
\* open") under overlapping requests.  (As it is no reopening ever commits; the
\* property says what one may do for when the CHECK is widened.)
FixedIsHistory ==
  [][\A b \in Bugs :
       bugs[b].status = "fixed" /\ bugs'[b].status # "gone" =>
         \/ /\ \E r \in Requests : At(r, "update", "reopen") /\ req[r].bug = b
            /\ bugs'[b] = Reopened(bugs[b])
         \/ /\ bugs'[b].status = "fixed"
            /\ bugs'[b].text = bugs[b].text
            /\ bugs'[b].fixedAt = bugs[b].fixedAt
            /\ bugs'[b].fixedBy \in {bugs[b].fixedBy, None}
            /\ bugs'[b].structuredBy \in {bugs[b].structuredBy, None}
            /\ bugs'[b].release \in {bugs[b].release, None}
            /\ bugs'[b].feedback \in {bugs[b].feedback, None}
    ]_vars

\* The statuses move as the workflow promises, through every interleaving.
Triage == INSTANCE BugStatus WITH status <- [b \in Bugs |-> bugs[b].status]

TriageSpec == Triage!Spec

\* A report the analysis takes for a bug gets one, drafted or structured by
\* hand, unless the goroutine is lost (a restart, its timeout), the report is
\* deleted first, or (a bound of the model) no bug id is left.
DraftArrives ==
  \A f \in Feedbacks :
    auto[f] = "check" ~>
      \/ BugForFeedback(f)
      \/ auto[f] = "lost"
      \/ feedback[f] = Gone
      \/ \A b \in Bugs : Known(b)

--------------------------------------------------------------------------
(* What the repository says and the code does not do. *)

\* "feedback already structured" (api/bugs.go): a report has one bug at most.
OneBugPerFeedback ==
  \A b, c \in Bugs :
    bugs[b].feedback = bugs[c].feedback /\ bugs[b].feedback # None => b = c

\* "MarkBugNeedsInfo moves an open bug to needs_info", "ReopenBug moves a fixed
\* bug back to open" (store/bugs.go): when such a request of an existing user
\* reaches its transaction, the bug is moved.  (Stated for behaviours in which
\* no request is abandoned, CalmSpec.)
MovesTakeEffect ==
  [][\A r \in Requests :
       LET b == req[r].bug IN
       /\ MarkBugNeedsInfo(r) /\ bugs[b].status = "open" /\ req[r].user \in users
            => bugs'[b].status = "needs_info"
       /\ ReopenBug(r) /\ bugs[b].status = "fixed" /\ req[r].user \in users
            => bugs'[b].status = "open"
    ]_vars
=============================================================================
