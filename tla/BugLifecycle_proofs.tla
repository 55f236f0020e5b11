----------------------- MODULE BugLifecycle_proofs -----------------------
(***************************************************************************)
(* What holds of BugLifecycle for every set of users, reports, bugs,       *)
(* releases and requests.                                                  *)
(*                                                                         *)
(* Two facts make the invariants inductive.  A row that nobody has         *)
(* structured yet (not born, a draft, deleted) names nobody, so no         *)
(* statement overwrites a credit that the activity trail still holds.  And *)
(* a request that waits to run a statement names the rows it runs on.      *)
(***************************************************************************)
EXTENDS BugLifecycle, TLAPS

Unstructured == {"unborn", "suggested", "gone"}

\* A row nobody has structured names nobody.
NobodyCredited ==
  \A b \in Bugs : bugs[b].status \in Unstructured => bugs[b].structuredBy = None

\* The requests in flight name the rows their statements are about.
RequestsNameRows ==
  \A r \in Requests :
    /\ req[r].pc = "update" => req[r].bug \in Bugs
    /\ req[r].pc = "insert" => req[r].feedback \in Feedbacks
    /\ req[r].pc \in {"authorized", "loaded"} =>
         IF req[r].kind = "fix" THEN req[r].bug \in Bugs /\ req[r].release \in Releases
                                ELSE req[r].feedback \in Feedbacks

\* What is kept about the rows and the trail ...
RowInv == FixMetadata /\ AuditMatchesRows /\ NobodyCredited

\* ... and the whole inductive invariant.
IInv == TypeOK /\ RequestsNameRows /\ RowInv

--------------------------------------------------------------------------
(* Types. *)

LEMMA IdleType == Idle \in Request
BY DEF Idle, Request, Steps

LEMMA NoRowType ==
  ASSUME NEW s \in BugStatuses
  PROVE  NoRow(s) \in BugRow
BY DEF NoRow, BugRow

LEMMA NewRowType ==
  ASSUME NEW s \in BugStatuses, NEW f \in Feedbacks \cup {None},
         NEW u \in Users \cup {None}
  PROVE  NewRow(s, f, u) \in BugRow
BY DEF NewRow, NoRow, BugRow

LEMMA UnlinkType ==
  ASSUME NEW row \in BugRow, NEW u
  PROVE  Unlink(row, u) \in BugRow
BY DEF Unlink, BugRow

\* A request that begins is well formed if what it asks for is.
LEMMA BeginType ==
  ASSUME TypeOK, RequestsNameRows, NEW r \in Requests, NEW u \in Users,
         NEW request \in Request, Begin(r, u, request),
         request.pc = "update" => request.bug \in Bugs,
         request.pc \notin {"insert", "loaded"},
         request.pc = "authorized" =>
           IF request.kind = "fix" THEN request.bug \in Bugs /\ request.release \in Releases
                                   ELSE request.feedback \in Feedbacks
  PROVE  TypeOK' /\ RequestsNameRows'
BY DEF Begin, TypeOK, RequestsNameRows

LEMMA AskType ==
  ASSUME TypeOK, RequestsNameRows, NEW r \in Requests, NEW u \in Users, Ask(r, u)
  PROVE  TypeOK' /\ RequestsNameRows'
<1>1. ASSUME NEW f \in Feedbacks, AskStructure(r, u, f)
      PROVE  TypeOK' /\ RequestsNameRows'
  <2> DEFINE q == [Idle EXCEPT !.pc = "authorized", !.kind = "structure",
                               !.user = u, !.feedback = f]
  <2>1. q \in Request /\ q.pc = "authorized" /\ q.kind = "structure" /\ q.feedback = f
    BY DEF Idle, Request, Steps
  <2>2. Begin(r, u, q)
    BY <1>1 DEF AskStructure
  <2> QED BY <2>1, <2>2, BeginType
<1>2. ASSUME NEW k \in BugKinds, NEW b \in Bugs, AskBug(r, u, k, b)
      PROVE  TypeOK' /\ RequestsNameRows'
  <2> DEFINE q == [Idle EXCEPT !.pc = "update", !.kind = k, !.user = u, !.bug = b]
  <2>1. q \in Request /\ q.pc = "update" /\ q.bug = b
    BY DEF Idle, Request, Steps
  <2>2. Begin(r, u, q)
    BY <1>2 DEF AskBug
  <2> QED BY <2>1, <2>2, BeginType
<1>3. ASSUME NEW b \in Bugs, NEW l \in Releases, AskFixIn(r, u, b, l)
      PROVE  TypeOK' /\ RequestsNameRows'
  <2> DEFINE q == [Idle EXCEPT !.pc = "authorized", !.kind = "fix", !.user = u,
                               !.bug = b, !.release = l]
  <2>1. q \in Request /\ q.pc = "authorized" /\ q.kind = "fix" /\ q.bug = b /\ q.release = l
    BY DEF Idle, Request, Steps, BugKinds
  <2>2. Begin(r, u, q)
    BY <1>3 DEF AskFixIn
  <2> QED BY <2>1, <2>2, BeginType
<1> QED BY <1>1, <1>2, <1>3 DEF Ask

\* Answering a request or moving it on keeps the requests well formed.
LEMMA FinishType ==
  ASSUME TypeOK, RequestsNameRows, NEW r \in Requests, Finish(r)
  PROVE  req' \in [Requests -> Request] /\ RequestsNameRows'
BY IdleType DEF Finish, TypeOK, RequestsNameRows, Idle

LEMMA ReplyType ==
  ASSUME TypeOK, RequestsNameRows, NEW r \in Requests, Reply(r)
  PROVE  TypeOK' /\ RequestsNameRows'
BY FinishType DEF Reply, TypeOK

LEMMA TransactType ==
  ASSUME TypeOK, RequestsNameRows, NEW r \in Requests, NEW b \in Bugs, NEW ok,
         NEW row, ok /\ req[r].user \in users => row \in BugRow, NEW type,
         Transact(r, b, ok, row, type)
  PROVE  TypeOK' /\ RequestsNameRows'
<1>1. req' \in [Requests -> Request] /\ RequestsNameRows'
  BY FinishType DEF Transact
<1>2. bugs' \in [Bugs -> BugRow] /\ activity' \subseteq ActivityRow
  BY DEF Transact, TypeOK, ActivityRow
<1> QED BY <1>1, <1>2 DEF Transact, TypeOK

LEMMA UpdateType ==
  ASSUME TypeOK, RequestsNameRows, NEW r \in Requests, NEW b \in Bugs, NEW ok,
         NEW row \in BugRow, Update(r, b, ok, row)
  PROVE  TypeOK' /\ RequestsNameRows'
<1>1. req' \in [Requests -> Request] /\ RequestsNameRows'
  BY FinishType DEF Update
<1>2. bugs' \in [Bugs -> BugRow]
  BY DEF Update, TypeOK
<1> QED BY <1>1, <1>2 DEF Update, TypeOK

\* The rows the transactions and updates write are rows of the table.
LEMMA WrittenType ==
  ASSUME NEW row \in BugRow, NEW s \in BugStatuses,
         NEW u \in Users \cup {None}, NEW l \in Releases \cup {None}
  PROVE  /\ Edited(row) \in BugRow
         /\ Moved(row, s) \in BugRow
         /\ Confirmed(row, u) \in BugRow
         /\ Fixed(row, u, l) \in BugRow
         /\ Reopened(row) \in BugRow
<1>1. Edited(row) \in BugRow
  BY DEF BugRow, Edited
<1>2. Moved(row, s) \in BugRow
  BY DEF BugRow, Moved
<1>3. Confirmed(row, u) \in BugRow
  BY DEF BugRow, BugStatuses, Confirmed
<1>4. Fixed(row, u, l) \in BugRow
  BY DEF BugRow, BugStatuses, Fixed
<1>5. Reopened(row) \in BugRow
  BY DEF BugRow, BugStatuses, Reopened
<1> QED BY <1>1, <1>2, <1>3, <1>4, <1>5

\* A statement of a request leaves everything well typed.
LEMMA StatementType ==
  ASSUME TypeOK, RequestsNameRows, NEW r \in Requests, Statement(r)
  PROVE  TypeOK' /\ RequestsNameRows'
<1> DEFINE b == req[r].bug
           f == req[r].feedback
           l == req[r].release
<1>0. req[r] \in Request /\ bugs \in [Bugs -> BugRow]
  BY DEF TypeOK
<1>1. CASE LoadFeedback(r)
  BY <1>1, ReplyType DEF LoadFeedback, At, Go, TypeOK, RequestsNameRows, Request, Steps
<1>2. CASE CheckStructured(r)
  BY <1>2, ReplyType DEF CheckStructured, At, Go, TypeOK, RequestsNameRows, Request, Steps
<1>3. ASSUME NEW c \in Bugs, StructureFeedback(r, c)
      PROVE  TypeOK' /\ RequestsNameRows'
  <2>1. f \in Feedbacks
    BY <1>3 DEF StructureFeedback, At, RequestsNameRows
  <2>2. NewRow("open", f, req[r].user) \in BugRow
    BY <1>0, <2>1, NewRowType DEF BugStatuses, Request
  <2> QED BY <1>3, <2>2, TransactType DEF StructureFeedback, Live
<1>4. CASE ConfirmBug(r)
  <2>1. b \in Bugs
    BY <1>4 DEF ConfirmBug, At, RequestsNameRows
  <2>2. Confirmed(bugs[b], req[r].user) \in BugRow
    BY <1>0, <2>1, WrittenType DEF Request, BugStatuses
  <2> QED BY <1>4, <2>1, <2>2, TransactType DEF ConfirmBug
<1>5. CASE DismissBug(r)
  <2>1. b \in Bugs
    BY <1>5 DEF DismissBug, At, RequestsNameRows
  <2>2. NoRow("gone") \in BugRow
    BY <1>0, <2>1, NoRowType DEF Request, BugStatuses
  <2> QED BY <1>5, <2>1, <2>2, UpdateType DEF DismissBug
<1>6. CASE UpdateBug(r)
  <2>1. b \in Bugs
    BY <1>6 DEF UpdateBug, At, RequestsNameRows
  <2>2. Edited(bugs[b]) \in BugRow
    BY <1>0, <2>1, WrittenType DEF Request, BugStatuses
  <2> QED BY <1>6, <2>1, <2>2, UpdateType DEF UpdateBug
<1>7. CASE MarkBugNeedsInfo(r)
  <2>1. b \in Bugs
    BY <1>7 DEF MarkBugNeedsInfo, At, RequestsNameRows
  <2>2. Moved(bugs[b], "needs_info") \in BugRow
    BY <1>0, <2>1, WrittenType DEF Request, BugStatuses
  <2> QED BY <1>7, <2>1, <2>2, TransactType DEF MarkBugNeedsInfo
<1>8. CASE ResumeBug(r)
  <2>1. b \in Bugs
    BY <1>8 DEF ResumeBug, At, RequestsNameRows
  <2>2. Moved(bugs[b], "open") \in BugRow
    BY <1>0, <2>1, WrittenType DEF Request, BugStatuses
  <2> QED BY <1>8, <2>1, <2>2, UpdateType DEF ResumeBug
<1>9. CASE ReopenBug(r)
  <2>1. b \in Bugs
    BY <1>9 DEF ReopenBug, At, RequestsNameRows
  <2>2. Reopened(bugs[b]) \in BugRow
    BY <1>0, <2>1, WrittenType DEF Request, BugStatuses
  <2> QED BY <1>9, <2>1, <2>2, TransactType DEF ReopenBug
<1>10. CASE CheckRelease(r)
  BY <1>10, ReplyType DEF CheckRelease, At, Go, TypeOK, RequestsNameRows, Request, Steps
<1>11. CASE MarkBugFixed(r)
  <2>1. b \in Bugs
    BY <1>11 DEF MarkBugFixed, At, RequestsNameRows
  <2>2. Fixed(bugs[b], req[r].user, l) \in BugRow
    BY <1>0, <2>1, WrittenType DEF Request, BugStatuses
  <2> QED BY <1>11, <2>1, <2>2, TransactType DEF MarkBugFixed
<1> QED BY <1>1, <1>2, <1>3, <1>4, <1>5, <1>6, <1>7, <1>8, <1>9, <1>10, <1>11
        DEF Statement

LEMMA AutoStepType ==
  ASSUME TypeOK, RequestsNameRows, NEW f \in Feedbacks, AutoStep(f) \/ AutoFail(f)
  PROVE  TypeOK' /\ RequestsNameRows'
<1>1. CASE AutoAnalyze(f)
  BY <1>1 DEF AutoAnalyze, AutoGo, TypeOK, RequestsNameRows, AutoStates
<1>2. CASE AutoCheck(f)
  BY <1>2 DEF AutoCheck, AutoGo, TypeOK, RequestsNameRows, AutoStates
<1>3. ASSUME NEW b \in Bugs, SuggestBug(f, b)
      PROVE  TypeOK' /\ RequestsNameRows'
  <2>1. NewRow("suggested", f, None) \in BugRow
    BY NewRowType DEF BugStatuses
  <2> QED BY <1>3, <2>1 DEF SuggestBug, AutoGo, TypeOK, RequestsNameRows, AutoStates
<1>4. CASE AutoFail(f)
  BY <1>4 DEF AutoFail, AutoGo, TypeOK, RequestsNameRows, AutoStates
<1> QED BY <1>1, <1>2, <1>3, <1>4 DEF AutoStep

LEMMA PeopleType ==
  ASSUME TypeOK, RequestsNameRows, NEW u \in Users, People(u) \/ DeleteCreator
  PROVE  TypeOK' /\ RequestsNameRows'
<1>1. ASSUME NEW r \in {"tester", "developer"}, WriteMembership(u, r)
      PROVE  TypeOK' /\ RequestsNameRows'
  BY <1>1 DEF WriteMembership, TypeOK, RequestsNameRows, Roles
<1>2. ASSUME NEW f \in Feedbacks, CreateFeedback(u, f)
      PROVE  TypeOK' /\ RequestsNameRows'
  BY <1>2 DEF CreateFeedback, TypeOK, RequestsNameRows, AutoStates
<1>3. ASSUME NEW l \in Releases, CreateRelease(u, l)
      PROVE  TypeOK' /\ RequestsNameRows'
  BY <1>3 DEF CreateRelease, TypeOK, RequestsNameRows
<1>4. CASE DeleteMember(u)
  <2>1. bugs' \in [Bugs -> BugRow]
    BY <1>4, UnlinkType DEF DeleteMember, TypeOK
  <2>2. feedback' \in [Feedbacks -> Users \cup {Unborn, Gone}]
        /\ release' \in [Releases -> Users \cup {Unborn, Gone}]
    BY <1>4 DEF DeleteMember, TypeOK
  <2> QED BY <1>4, <2>1, <2>2 DEF DeleteMember, TypeOK, RequestsNameRows, Roles
<1>5. CASE DeleteCreator
  <2>1. bugs' \in [Bugs -> BugRow]
    BY <1>5, NoRowType DEF DeleteCreator, TypeOK, BugStatuses
  <2>2. feedback' \in [Feedbacks -> Users \cup {Unborn, Gone}]
        /\ release' \in [Releases -> Users \cup {Unborn, Gone}]
    BY <1>5 DEF DeleteCreator, TypeOK
  <2> QED BY <1>5, <2>1, <2>2 DEF DeleteCreator, TypeOK, RequestsNameRows, Roles
<1> QED BY <1>1, <1>2, <1>3, <1>4, <1>5 DEF People

LEMMA NextType ==
  ASSUME TypeOK, RequestsNameRows, [Next]_vars
  PROVE  TypeOK' /\ RequestsNameRows'
<1>1. CASE UNCHANGED vars
  BY <1>1 DEF vars, TypeOK, RequestsNameRows
<1>2. CASE Work
  <2>1. DeleteCreator => TypeOK' /\ RequestsNameRows'
    BY PeopleType, BugAssumption
  <2> QED BY <1>2, <2>1, PeopleType, StatementType, AskType, AutoStepType DEF Work
<1>3. CASE Failure
  <2>1. CASE Restart
    BY <2>1, IdleType DEF Restart, TypeOK, RequestsNameRows, Idle, AutoStates
  <2> QED BY <1>3, <2>1, ReplyType, AutoStepType DEF Failure, Abandon
<1> QED BY <1>1, <1>2, <1>3 DEF Next

LEMMA InitType == Init => TypeOK /\ RequestsNameRows
BY BugAssumption, NoRowType, IdleType
   DEF Init, TypeOK, RequestsNameRows, Idle, Roles, AutoStates, BugStatuses

--------------------------------------------------------------------------
(* Rows and trail. *)

\* RowInv, seen from one row and the trail.
Consistent(row, trail, b) ==
  /\ row.fixedAt <=> row.status = "fixed"
  /\ row.status # "fixed" => row.fixedBy = None /\ row.release = None
  /\ row.status \in Unstructured => row.structuredBy = None
  /\ \A u \in Users :
       /\ row.structuredBy = u
            <=> [type |-> "bug_structured", actor |-> u, bug |-> b] \in trail
       /\ row.fixedBy = u
            <=> [type |-> "bug_fixed", actor |-> u, bug |-> b] \in trail

LEMMA RowByRow == RowInv <=> \A b \in Bugs : Consistent(bugs[b], activity, b)
BY DEF RowInv, FixMetadata, AuditMatchesRows, NobodyCredited, Consistent

LEMMA RowByRowPrime == RowInv' <=> \A b \in Bugs : Consistent(bugs'[b], activity', b)
BY DEF RowInv, FixMetadata, AuditMatchesRows, NobodyCredited, Consistent

\* An activity row about one bug says nothing about another.
LEMMA OtherBug ==
  ASSUME NEW row, NEW trail, NEW b, NEW c, c # b, NEW type, NEW u,
         Consistent(row, trail, c)
  PROVE  Consistent(row, trail \cup {[type |-> type, actor |-> u, bug |-> b]}, c)
BY DEF Consistent

\* A transaction keeps the rows and the trail in step if the row it writes agrees
\* with the line it adds.
LEMMA TransactRows ==
  ASSUME TypeOK, RowInv, NEW r \in Requests, NEW b \in Bugs, NEW ok, NEW row, NEW type,
         Transact(r, b, ok, row, type),
         ok /\ req[r].user \in users =>
           Consistent(row, activity \cup {[type |-> type, actor |-> req[r].user, bug |-> b]}, b)
           \/ type \notin ActivityTypes
  PROVE  RowInv'
<1>1. CASE UNCHANGED <<bugs, activity>>
  BY <1>1, RowByRow, RowByRowPrime
<1>2. CASE ~ UNCHANGED <<bugs, activity>>
  <2> DEFINE a == [type |-> type, actor |-> req[r].user, bug |-> b]
  <2>1. /\ bugs' = [bugs EXCEPT ![b] = row]
        /\ activity' = activity \cup {a}
        /\ Consistent(row, activity \cup {a}, b)
    BY <1>2 DEF Transact
  <2>2. ASSUME NEW c \in Bugs
        PROVE  Consistent(bugs'[c], activity', c)
    <3>1. CASE c = b
      BY <2>1, <3>1 DEF TypeOK
    <3>2. CASE c # b
      <4>1. bugs'[c] = bugs[c] /\ Consistent(bugs[c], activity, c)
        BY <2>1, <3>2, RowByRow DEF TypeOK
      <4>2. Consistent(bugs[c], activity \cup {a}, c)
        BY <3>2, <4>1, OtherBug
      <4> QED BY <2>1, <4>1, <4>2
    <3> QED BY <3>1, <3>2
  <2> QED BY <2>2, RowByRowPrime
<1> QED BY <1>1, <1>2

\* An update outside the trail keeps them in step if the row it writes credits
\* whom the old one did.
LEMMA UpdateRows ==
  ASSUME TypeOK, RowInv, NEW r \in Requests, NEW b \in Bugs, NEW ok, NEW row,
         Update(r, b, ok, row),
         ok => Consistent(row, activity, b)
  PROVE  RowInv'
<1>1. ASSUME NEW c \in Bugs
      PROVE  Consistent(bugs'[c], activity', c)
  <2>1. Consistent(bugs[c], activity, c)
    BY RowByRow
  <2>2. activity' = activity
    BY DEF Update
  <2>3. CASE c = b /\ ok
    BY <2>2, <2>3 DEF Update, TypeOK
  <2>4. CASE ~ (c = b /\ ok)
    BY <2>1, <2>2, <2>4 DEF Update, TypeOK
  <2> QED BY <2>3, <2>4
<1> QED BY <1>1, RowByRowPrime

LEMMA UnchangedRows == RowInv /\ UNCHANGED <<bugs, activity>> => RowInv'
BY RowByRow, RowByRowPrime

\* The writes of the bug handlers, one by one.
LEMMA ConfirmedConsistent ==
  ASSUME NEW row \in BugRow, NEW b \in Bugs, NEW u \in Users, NEW trail,
         Consistent(row, trail, b), row.status = "suggested"
  PROVE  Consistent(Confirmed(row, u),
                    trail \cup {[type |-> "bug_structured", actor |-> u, bug |-> b]}, b)
BY BugAssumption DEF Consistent, Confirmed, Unstructured, BugRow

LEMMA FixedConsistent ==
  ASSUME NEW row \in BugRow, NEW b \in Bugs, NEW u \in Users, NEW l, NEW trail,
         Consistent(row, trail, b), row.status = "open"
  PROVE  Consistent(Fixed(row, u, l),
                    trail \cup {[type |-> "bug_fixed", actor |-> u, bug |-> b]}, b)
BY BugAssumption DEF Consistent, Fixed, Unstructured, BugRow

LEMMA StructuredConsistent ==
  ASSUME NEW row \in BugRow, NEW b \in Bugs, NEW f, NEW u \in Users, NEW trail,
         Consistent(row, trail, b), row.status = "unborn"
  PROVE  Consistent(NewRow("open", f, u),
                    trail \cup {[type |-> "bug_structured", actor |-> u, bug |-> b]}, b)
BY BugAssumption DEF Consistent, NewRow, NoRow, Unstructured, BugRow

LEMMA UncreditedConsistent ==
  ASSUME NEW row \in BugRow, NEW b \in Bugs, NEW f, NEW trail,
         Consistent(row, trail, b), row.status \in Unstructured
  PROVE  /\ Consistent(NewRow("suggested", f, None), trail, b)
         /\ Consistent(NoRow("gone"), trail, b)
BY BugAssumption DEF Consistent, NewRow, NoRow, Unstructured, BugRow

LEMMA EditedConsistent ==
  ASSUME NEW row \in BugRow, NEW b \in Bugs, NEW trail, Consistent(row, trail, b)
  PROVE  /\ Consistent(Edited(row), trail, b)
         /\ row.status = "needs_info" => Consistent(Moved(row, "open"), trail, b)
BY DEF Consistent, Edited, Moved, Unstructured, BugRow

\* A deleted account loses the credit in the rows and in the trail alike.
LEMMA DeleteMemberRows ==
  ASSUME TypeOK, RowInv, NEW u \in Users, DeleteMember(u)
  PROVE  RowInv'
<1>1. ASSUME NEW b \in Bugs
      PROVE  Consistent(bugs'[b], activity', b)
  <2>1. bugs[b] \in BugRow /\ Consistent(bugs[b], activity, b)
    BY RowByRow DEF TypeOK
  <2>2. bugs'[b] = Unlink(bugs[b], u) /\ activity' = {a \in activity : a.actor # u}
    BY <1>1 DEF DeleteMember
  <2>3. /\ bugs'[b].status = bugs[b].status
        /\ bugs'[b].fixedAt = bugs[b].fixedAt
        /\ bugs'[b].structuredBy = IF bugs[b].structuredBy = u THEN None ELSE bugs[b].structuredBy
        /\ bugs'[b].fixedBy = IF bugs[b].fixedBy = u THEN None ELSE bugs[b].fixedBy
        /\ bugs'[b].release \in {bugs[b].release, None}
    BY <2>1, <2>2 DEF Unlink, BugRow
  <2>4. ASSUME NEW v \in Users, NEW type
        PROVE  [type |-> type, actor |-> v, bug |-> b] \in activity'
                 <=> v # u /\ [type |-> type, actor |-> v, bug |-> b] \in activity
    BY <2>2
  <2> QED BY <2>1, <2>3, <2>4, BugAssumption DEF Consistent
<1> QED BY <1>1, RowByRowPrime

\* With the project go every row and the whole trail.
LEMMA DeleteCreatorRows ==
  ASSUME TypeOK, RowInv, DeleteCreator
  PROVE  RowInv'
<1>1. ASSUME NEW b \in Bugs
      PROVE  Consistent(bugs'[b], activity', b)
  <2>1. bugs[b] \in BugRow /\ Consistent(bugs[b], activity, b) /\ activity' = {}
    BY RowByRow DEF TypeOK, DeleteCreator
  <2>2. CASE bugs[b].status = "unborn"
    <3>1. bugs'[b] = bugs[b]
      BY <2>2 DEF DeleteCreator, Known
    <3>2. bugs[b].structuredBy = None /\ bugs[b].fixedBy = None
      BY <2>1, <2>2 DEF Consistent, Unstructured
    <3> QED BY <2>1, <3>1, <3>2, BugAssumption DEF Consistent
  <2>3. CASE bugs[b].status # "unborn"
    <3>1. bugs'[b] = NoRow("gone")
      BY <2>3 DEF DeleteCreator, Known
    <3> QED BY <2>1, <3>1, BugAssumption DEF Consistent, NoRow, Unstructured
  <2> QED BY <2>2, <2>3
<1> QED BY <1>1, RowByRowPrime

LEMMA StatementRows ==
  ASSUME IInv, NEW r \in Requests, Statement(r)
  PROVE  RowInv'
<1> DEFINE b == req[r].bug
<1>0. /\ TypeOK /\ RowInv
      /\ req[r] \in Request
      /\ \A c \in Bugs : bugs[c] \in BugRow /\ Consistent(bugs[c], activity, c)
      /\ users \subseteq Users
      /\ req[r].pc = "update" => b \in Bugs
  BY RowByRow DEF IInv, TypeOK, RequestsNameRows
<1>1. CASE LoadFeedback(r) \/ CheckStructured(r) \/ CheckRelease(r)
  BY <1>0, <1>1, UnchangedRows DEF LoadFeedback, CheckStructured, CheckRelease, Go, Reply
<1>2. ASSUME NEW c \in Bugs, StructureFeedback(r, c)
      PROVE  RowInv'
  BY <1>0, <1>2, StructuredConsistent, TransactRows DEF StructureFeedback, Fresh
<1>3. CASE ConfirmBug(r)
  BY <1>0, <1>3, ConfirmedConsistent, TransactRows DEF ConfirmBug, At
<1>4. CASE DismissBug(r)
  BY <1>0, <1>4, UncreditedConsistent, UpdateRows DEF DismissBug, At, Unstructured
<1>5. CASE UpdateBug(r)
  BY <1>0, <1>5, EditedConsistent, UpdateRows DEF UpdateBug, At
<1>6. CASE MarkBugNeedsInfo(r)
  BY <1>0, <1>6, TransactRows DEF MarkBugNeedsInfo, At, ActivityTypes
<1>7. CASE ResumeBug(r)
  BY <1>0, <1>7, EditedConsistent, UpdateRows DEF ResumeBug, At
<1>8. CASE ReopenBug(r)
  BY <1>0, <1>8, TransactRows DEF ReopenBug, At, ActivityTypes
<1>9. CASE MarkBugFixed(r)
  BY <1>0, <1>9, FixedConsistent, TransactRows DEF MarkBugFixed, At
<1> QED BY <1>1, <1>2, <1>3, <1>4, <1>5, <1>6, <1>7, <1>8, <1>9 DEF Statement

LEMMA AutoRows ==
  ASSUME TypeOK, RowInv, NEW f \in Feedbacks, AutoStep(f) \/ AutoFail(f)
  PROVE  RowInv'
<1>1. CASE AutoAnalyze(f) \/ AutoCheck(f) \/ AutoFail(f)
  BY <1>1, UnchangedRows DEF AutoAnalyze, AutoCheck, AutoFail
<1>2. ASSUME NEW b \in Bugs, SuggestBug(f, b)
      PROVE  RowInv'
  <2>1. ASSUME NEW c \in Bugs
        PROVE  Consistent(bugs'[c], activity', c)
    <3>1. bugs[c] \in BugRow /\ Consistent(bugs[c], activity, c) /\ activity' = activity
      BY <1>2, RowByRow DEF TypeOK, SuggestBug
    <3>2. CASE bugs'[c] = bugs[c]
      BY <3>1, <3>2
    <3>3. CASE bugs'[c] # bugs[c]
      <4>1. bugs[c].status = "unborn" /\ bugs'[c] = NewRow("suggested", f, None)
        BY <1>2, <3>3 DEF SuggestBug, Fresh, TypeOK
      <4> QED BY <3>1, <4>1, UncreditedConsistent DEF Unstructured
    <3> QED BY <3>2, <3>3
  <2> QED BY <2>1, RowByRowPrime
<1> QED BY <1>1, <1>2 DEF AutoStep

LEMMA NextRows ==
  ASSUME IInv, [Next]_vars
  PROVE  RowInv'
<1>0. TypeOK /\ RowInv
  BY DEF IInv
<1>1. CASE UNCHANGED vars
  BY <1>0, <1>1, UnchangedRows DEF vars
<1>2. ASSUME NEW u \in Users, People(u)
      PROVE  RowInv'
  <2>1. CASE DeleteMember(u)
    BY <1>0, <2>1, DeleteMemberRows
  <2> QED BY <1>0, <1>2, <2>1, UnchangedRows
          DEF People, WriteMembership, CreateFeedback, CreateRelease
<1>3. CASE DeleteCreator
  BY <1>0, <1>3, DeleteCreatorRows
<1>4. ASSUME NEW r \in Requests, NEW u \in Users, Ask(r, u)
      PROVE  RowInv'
  BY <1>0, <1>4, UnchangedRows DEF Ask, AskStructure, AskBug, AskFixIn, Begin
<1>5. ASSUME NEW r \in Requests, Abandon(r)
      PROVE  RowInv'
  BY <1>0, <1>5, UnchangedRows DEF Abandon, Reply
<1>6. CASE Restart
  BY <1>0, <1>6, UnchangedRows DEF Restart
<1> QED BY <1>0, <1>1, <1>2, <1>3, <1>4, <1>5, <1>6, StatementRows, AutoRows
        DEF Next, Work, Failure

LEMMA InitRows == Init => RowInv
BY BugAssumption
   DEF Init, RowInv, FixMetadata, AuditMatchesRows, NobodyCredited, NoRow, Unstructured

\* The invariant is inductive, whatever requests, goroutines, deletions and
\* restarts overlap.
THEOREM Inductive == Spec => []IInv
<1>1. Init => IInv
  BY InitType, InitRows DEF IInv
<1>2. IInv /\ [Next]_vars => IInv'
  BY NextType, NextRows DEF IInv
<1> QED BY <1>1, <1>2, PTL DEF Spec

\* TypeOK: no statement leaves a row that a constraint of its table forbids.
THEOREM Typed == Spec => []TypeOK
<1>1. IInv => TypeOK
  BY DEF IInv
<1> QED BY <1>1, Inductive, PTL

\* FixMetadata: the columns that say how a bug was fixed agree with its status.
THEOREM FixMetadataHolds == Spec => []FixMetadata
<1>1. IInv => FixMetadata
  BY DEF IInv, RowInv
<1> QED BY <1>1, Inductive, PTL

\* AuditMatchesRows: the activity trail credits exactly whom the rows credit.
THEOREM AuditHolds == Spec => []AuditMatchesRows
<1>1. IInv => AuditMatchesRows
  BY DEF IInv, RowInv
<1> QED BY <1>1, Inductive, PTL

--------------------------------------------------------------------------
(* History, and the refinement. *)

\* What one statement may write over a row, but for a reopening.
Written(row, new) ==
  \/ /\ row.status = "unborn"
     /\ \E s \in {"open", "suggested"}, f \in Feedbacks, u \in Users \cup {None} :
          new = NewRow(s, f, u)
  \/ /\ row.status = "suggested"
     /\ \/ \E u \in Users : new = Confirmed(row, u)
        \/ new = NoRow("gone")
  \/ row.status \in {"open", "needs_info"} /\ new = Edited(row)
  \/ row.status = "needs_info" /\ new = Moved(row, "open")
  \/ row.status = "open" /\ new = Moved(row, "needs_info")
  \/ /\ row.status = "open"
     /\ \E u \in Users, l \in Releases \cup {None} : new = Fixed(row, u, l)

\* A reopening that takes effect.
Reopens(b) ==
  /\ \E r \in Requests : At(r, "update", "reopen") /\ req[r].bug = b
  /\ bugs[b].status = "fixed" /\ bugs' = [bugs EXCEPT ![b] = Reopened(bugs[b])]

\* What one step may do to the table, whatever types the trail takes.
BugsStep ==
  \/ bugs' = bugs
  \/ \E u \in Users : bugs' = [b \in Bugs |-> Unlink(bugs[b], u)]
  \/ bugs' = [b \in Bugs |-> IF Known(b) THEN NoRow("gone") ELSE bugs[b]]
  \/ \E b \in Bugs, new \in BugRow :
       Written(bugs[b], new) /\ bugs' = [bugs EXCEPT ![b] = new]
  \/ \E b \in Bugs : Reopens(b)

LEMMA TransactStep ==
  ASSUME NEW r \in Requests, NEW b \in Bugs, NEW ok, NEW row, NEW type,
         Transact(r, b, ok, row, type),
         ok /\ req[r].user \in users => row \in BugRow /\ Written(bugs[b], row)
  PROVE  BugsStep
BY DEF Transact, BugsStep

LEMMA UpdateStep ==
  ASSUME NEW r \in Requests, NEW b \in Bugs, NEW ok, NEW row \in BugRow,
         Update(r, b, ok, row), ok => Written(bugs[b], row)
  PROVE  BugsStep
BY DEF Update, BugsStep

LEMMA StatementStep ==
  ASSUME IInv, NEW r \in Requests, Statement(r)
  PROVE  BugsStep
<1> DEFINE b == req[r].bug
<1>0. /\ TypeOK
      /\ req[r] \in Request
      /\ \A c \in Bugs : bugs[c] \in BugRow
      /\ users \subseteq Users
      /\ req[r].pc = "update" => b \in Bugs
      /\ req[r].pc = "insert" => req[r].feedback \in Feedbacks
      /\ req[r].user \in Users \cup {None}
      /\ req[r].release \in Releases \cup {None}
  BY DEF IInv, TypeOK, RequestsNameRows, Request
<1>1. CASE LoadFeedback(r) \/ CheckStructured(r) \/ CheckRelease(r)
  BY <1>1 DEF LoadFeedback, CheckStructured, CheckRelease, Go, Reply, BugsStep
<1>2. ASSUME NEW c \in Bugs, StructureFeedback(r, c)
      PROVE  BugsStep
  <2> DEFINE new == NewRow("open", req[r].feedback, req[r].user)
  <2>1. req[r].feedback \in Feedbacks /\ bugs[c].status = "unborn"
    BY <1>0, <1>2 DEF StructureFeedback, At, Fresh
  <2>2. new \in BugRow /\ Written(bugs[c], new)
    BY <1>0, <2>1, NewRowType DEF Written, BugStatuses
  <2> QED BY <1>0, <1>2, <2>2, TransactStep DEF StructureFeedback
<1>3. CASE ConfirmBug(r)
  <2>1. b \in Bugs
    BY <1>0, <1>3 DEF ConfirmBug, At
  <2>2. bugs[b].status = "suggested" /\ req[r].user \in users =>
          Confirmed(bugs[b], req[r].user) \in BugRow
          /\ Written(bugs[b], Confirmed(bugs[b], req[r].user))
    BY <1>0, <2>1, WrittenType DEF Written, BugStatuses
  <2> QED BY <1>0, <1>3, <2>1, <2>2, TransactStep DEF ConfirmBug
<1>4. CASE DismissBug(r)
  <2>1. b \in Bugs
    BY <1>0, <1>4 DEF DismissBug, At
  <2>2. NoRow("gone") \in BugRow
    BY NoRowType DEF BugStatuses
  <2> QED BY <1>4, <2>1, <2>2, UpdateStep DEF DismissBug, Written
<1>5. CASE UpdateBug(r)
  <2>1. b \in Bugs /\ Edited(bugs[b]) \in BugRow
    BY <1>0, <1>5, WrittenType DEF UpdateBug, At, BugStatuses
  <2> QED BY <1>5, <2>1, UpdateStep DEF UpdateBug, Written
<1>6. CASE MarkBugNeedsInfo(r)
  <2>1. b \in Bugs
    BY <1>0, <1>6 DEF MarkBugNeedsInfo, At
  <2>2. Moved(bugs[b], "needs_info") \in BugRow
    BY <1>0, <2>1, WrittenType DEF BugStatuses
  <2>3. bugs[b].status = "open" => Written(bugs[b], Moved(bugs[b], "needs_info"))
    BY DEF Written
  <2> QED BY <1>6, <2>1, <2>2, <2>3, TransactStep DEF MarkBugNeedsInfo
<1>7. CASE ResumeBug(r)
  <2>1. b \in Bugs /\ Moved(bugs[b], "open") \in BugRow
    BY <1>0, <1>7, WrittenType DEF ResumeBug, At, BugStatuses
  <2> QED BY <1>7, <2>1, UpdateStep DEF ResumeBug, Written
<1>8. CASE ReopenBug(r)
  <2>1. b \in Bugs /\ At(r, "update", "reopen")
    BY <1>0, <1>8 DEF ReopenBug, At
  <2> QED BY <1>8, <2>1 DEF ReopenBug, Transact, Reopens, BugsStep
<1>9. CASE MarkBugFixed(r)
  <2> DEFINE new == Fixed(bugs[b], req[r].user, req[r].release)
  <2>1. b \in Bugs
    BY <1>0, <1>9 DEF MarkBugFixed, At
  <2>2. new \in BugRow
    BY <1>0, <2>1, WrittenType DEF BugStatuses
  <2>3. bugs[b].status = "open" /\ req[r].user \in users => Written(bugs[b], new)
    BY <1>0 DEF Written
  <2> QED BY <1>0, <1>9, <2>1, <2>2, <2>3, TransactStep DEF MarkBugFixed
<1> QED BY <1>1, <1>2, <1>3, <1>4, <1>5, <1>6, <1>7, <1>8, <1>9 DEF Statement

LEMMA StepShape ==
  ASSUME IInv, [Next]_vars
  PROVE  BugsStep
<1>1. CASE UNCHANGED vars
  BY <1>1 DEF vars, BugsStep
<1>2. ASSUME NEW u \in Users, People(u)
      PROVE  BugsStep
  BY <1>2 DEF People, WriteMembership, CreateFeedback, CreateRelease, DeleteMember, BugsStep
<1>3. CASE DeleteCreator
  BY <1>3 DEF DeleteCreator, BugsStep
<1>4. ASSUME NEW r \in Requests, NEW u \in Users, Ask(r, u)
      PROVE  BugsStep
  BY <1>4 DEF Ask, AskStructure, AskBug, AskFixIn, Begin, BugsStep
<1>5. ASSUME NEW r \in Requests, Abandon(r)
      PROVE  BugsStep
  BY <1>5 DEF Abandon, Reply, BugsStep
<1>6. CASE Restart
  BY <1>6 DEF Restart, BugsStep
<1>7. ASSUME NEW f \in Feedbacks, AutoStep(f) \/ AutoFail(f)
      PROVE  BugsStep
  <2>1. CASE AutoAnalyze(f) \/ AutoCheck(f) \/ AutoFail(f)
    BY <2>1 DEF AutoAnalyze, AutoCheck, AutoFail, BugsStep
  <2>2. ASSUME NEW b \in Bugs, SuggestBug(f, b)
        PROVE  BugsStep
    <3> DEFINE new == NewRow("suggested", f, None)
    <3>1. new \in BugRow /\ Written(bugs[b], new)
      BY <2>2, NewRowType DEF SuggestBug, Fresh, Written, BugStatuses
    <3> QED BY <2>2, <3>1 DEF SuggestBug, BugsStep
  <2> QED BY <1>7, <2>1, <2>2 DEF AutoStep
<1> QED BY <1>1, <1>2, <1>3, <1>4, <1>5, <1>6, <1>7, StatementStep DEF Next, Work, Failure

\* A fixed row is written by no statement but a reopening.
LEMMA FixedNotWritten ==
  ASSUME NEW row, NEW new, Written(row, new)
  PROVE  row.status # "fixed"
BY DEF Written

\* The moves that a statement makes.
LEMMA WrittenMoves ==
  ASSUME NEW row \in BugRow, NEW new, Written(row, new), new.status # row.status
  PROVE  \/ row.status = "unborn" /\ new.status \in {"suggested", "open"}
         \/ row.status = "suggested" /\ new.status \in {"open", "gone"}
         \/ row.status = "needs_info" /\ new.status = "open"
         \/ row.status = "open" /\ new.status \in {"fixed", "needs_info"}
<1>1. ASSUME NEW s \in {"open", "suggested"}, NEW f, NEW u
      PROVE  NewRow(s, f, u).status = s
  BY DEF NewRow, NoRow
<1>2. /\ NoRow("gone").status = "gone"
      /\ Edited(row).status = row.status
      /\ Moved(row, "open").status = "open" /\ Moved(row, "needs_info").status = "needs_info"
  BY DEF NoRow, Edited, Moved, BugRow
<1>3. ASSUME NEW u, NEW l
      PROVE  Confirmed(row, u).status = "open" /\ Fixed(row, u, l).status = "fixed"
  BY DEF Confirmed, Fixed, BugRow
<1> QED BY <1>1, <1>2, <1>3 DEF Written

LEMMA UnlinkKeeps ==
  ASSUME NEW row \in BugRow, NEW u
  PROVE  /\ Unlink(row, u).status = row.status
         /\ Unlink(row, u).text = row.text
         /\ Unlink(row, u).fixedAt = row.fixedAt
         /\ Unlink(row, u).fixedBy \in {row.fixedBy, None}
         /\ Unlink(row, u).structuredBy \in {row.structuredBy, None}
         /\ Unlink(row, u).release \in {row.release, None}
         /\ Unlink(row, u).feedback \in {row.feedback, None}
BY DEF Unlink, BugRow

\* FixedIsHistory: no interleaving of requests rewrites a fixed bug; the deletion of
\* accounts takes references from it, and a reopening would take the fix.
THEOREM FixedIsHistoryHolds == Spec => FixedIsHistory
<1> DEFINE History(b) ==
      bugs[b].status = "fixed" /\ bugs'[b].status # "gone" =>
        \/ /\ \E r \in Requests : At(r, "update", "reopen") /\ req[r].bug = b
           /\ bugs'[b] = Reopened(bugs[b])
        \/ /\ bugs'[b].status = "fixed"
           /\ bugs'[b].text = bugs[b].text
           /\ bugs'[b].fixedAt = bugs[b].fixedAt
           /\ bugs'[b].fixedBy \in {bugs[b].fixedBy, None}
           /\ bugs'[b].structuredBy \in {bugs[b].structuredBy, None}
           /\ bugs'[b].release \in {bugs[b].release, None}
           /\ bugs'[b].feedback \in {bugs[b].feedback, None}
<1>1. ASSUME IInv, [Next]_vars, NEW b \in Bugs
      PROVE  History(b)
  <2>1. BugsStep /\ bugs[b] \in BugRow /\ bugs \in [Bugs -> BugRow]
    BY <1>1, StepShape DEF IInv, TypeOK
  <2>2. CASE bugs' = bugs
    BY <2>2
  <2>3. ASSUME NEW u \in Users, bugs' = [c \in Bugs |-> Unlink(bugs[c], u)]
        PROVE  History(b)
    <3>1. bugs'[b] = Unlink(bugs[b], u)
      BY <2>3
    <3> QED BY <2>1, <3>1, UnlinkKeeps
  <2>4. CASE bugs' = [c \in Bugs |-> IF Known(c) THEN NoRow("gone") ELSE bugs[c]]
    BY <2>4 DEF Known, NoRow
  <2>5. ASSUME NEW c \in Bugs, NEW new \in BugRow,
               Written(bugs[c], new), bugs' = [bugs EXCEPT ![c] = new]
        PROVE  History(b)
    <3>1. CASE b = c
      BY <2>5, <3>1, FixedNotWritten
    <3>2. CASE b # c
      BY <2>1, <2>5, <3>2
    <3> QED BY <3>1, <3>2
  <2>6. ASSUME NEW c \in Bugs, Reopens(c)
        PROVE  History(b)
    <3>1. CASE b = c
      BY <2>1, <2>6, <3>1 DEF Reopens
    <3>2. CASE b # c
      BY <2>1, <2>6, <3>2 DEF Reopens
    <3> QED BY <3>1, <3>2
  <2> QED BY <2>1, <2>2, <2>3, <2>4, <2>5, <2>6 DEF BugsStep
<1>2. IInv /\ [Next]_vars => [\A b \in Bugs : History(b)]_vars
  BY <1>1
<1> QED BY <1>2, Inductive, PTL DEF Spec, FixedIsHistory

\* TriageSpec: every behaviour of the handlers, goroutines and deletions is, in
\* its statuses, a behaviour of the triage workflow.
THEOREM TriageRefined == Spec => TriageSpec
<1> DEFINE status == [b \in Bugs |-> bugs[b].status]
<1>1. Init => Triage!Init
  BY DEF Init, Triage!Init, NoRow
<1>2. ASSUME IInv, [Next]_vars
      PROVE  [Triage!Next]_status
  <2>1. BugsStep /\ bugs \in [Bugs -> BugRow]
    BY <1>2, StepShape DEF IInv, TypeOK
  <2>2. CASE bugs' = bugs
    BY <2>2
  <2>3. ASSUME NEW u \in Users, bugs' = [c \in Bugs |-> Unlink(bugs[c], u)]
        PROVE  status' = status
    BY <2>1, <2>3, UnlinkKeeps
  <2>4. CASE bugs' = [c \in Bugs |-> IF Known(c) THEN NoRow("gone") ELSE bugs[c]]
    <3>1. Triage!DropProject
      BY <2>4 DEF Triage!DropProject, Known, NoRow
    <3> QED BY <3>1 DEF Triage!Next
  <2>5. ASSUME NEW b \in Bugs, NEW new \in BugRow,
               Written(bugs[b], new), bugs' = [bugs EXCEPT ![b] = new]
        PROVE  [Triage!Next]_status
    <3>1. status[b] = bugs[b].status /\ status' = [status EXCEPT ![b] = new.status]
      BY <2>1, <2>5
    <3>2. CASE new.status = bugs[b].status
      BY <3>1, <3>2
    <3>3. CASE new.status # bugs[b].status
      <4>1. \/ bugs[b].status = "unborn" /\ new.status \in {"suggested", "open"}
            \/ bugs[b].status = "suggested" /\ new.status \in {"open", "gone"}
            \/ bugs[b].status = "needs_info" /\ new.status = "open"
            \/ bugs[b].status = "open" /\ new.status \in {"fixed", "needs_info"}
        BY <2>1, <2>5, <3>3, WrittenMoves
      <4>2. \/ Triage!Suggest(b) \/ Triage!Structure(b) \/ Triage!Confirm(b)
            \/ Triage!Dismiss(b) \/ Triage!Resume(b) \/ Triage!Fix(b) \/ Triage!AskInfo(b)
        BY <3>1, <4>1
           DEF Triage!Suggest, Triage!Structure, Triage!Confirm, Triage!Dismiss,
               Triage!Resume, Triage!Fix, Triage!AskInfo, Triage!Move
      <4> QED BY <4>2 DEF Triage!Next
    <3> QED BY <3>2, <3>3
  <2>6. ASSUME NEW b \in Bugs, Reopens(b)
        PROVE  [Triage!Next]_status
    <3>1. Reopened(bugs[b]).status = "open"
      BY <2>1 DEF Reopened, BugRow
    <3>2. status[b] = "fixed" /\ status' = [status EXCEPT ![b] = "open"]
      BY <2>1, <2>6, <3>1 DEF Reopens
    <3>3. Triage!Reopen(b)
      BY <3>2 DEF Triage!Reopen, Triage!Move
    <3> QED BY <3>3 DEF Triage!Next
  <2> QED BY <2>1, <2>2, <2>3, <2>4, <2>5, <2>6 DEF BugsStep
<1> QED BY <1>1, <1>2, Inductive, PTL DEF Spec, TriageSpec, Triage!Spec

--------------------------------------------------------------------------
(* Drafts. *)

\* The goroutine of a report that has a draft is through, so it draws no second.
DraftInv ==
  /\ \A b \in Bugs :
       bugs[b].status = "suggested" /\ bugs[b].feedback # None =>
         auto[bugs[b].feedback] = "done" /\ feedback[bugs[b].feedback] # Unborn
  /\ OneDraftPerFeedback

\* A step that draws no draft, revives no goroutine and unwrites no report.
NoNewDraft ==
  /\ \A b \in Bugs :
       bugs'[b].status = "suggested" =>
         bugs[b].status = "suggested" /\ bugs'[b].feedback \in {bugs[b].feedback, None}
  /\ \A f \in Feedbacks :
       feedback[f] # Unborn => feedback'[f] # Unborn /\ (auto[f] = "done" => auto'[f] = "done")

LEMMA NoNewDraftKeeps ==
  ASSUME TypeOK, DraftInv, NoNewDraft
  PROVE  DraftInv'
<1>1. \A b \in Bugs : bugs[b].feedback \in Feedbacks \cup {None}
  BY DEF TypeOK, BugRow
<1>2. ASSUME NEW b \in Bugs, bugs'[b].status = "suggested", bugs'[b].feedback # None
      PROVE  /\ bugs[b].status = "suggested" /\ bugs'[b].feedback = bugs[b].feedback
             /\ auto'[bugs'[b].feedback] = "done" /\ feedback'[bugs'[b].feedback] # Unborn
  BY <1>1, <1>2 DEF DraftInv, NoNewDraft
<1> QED BY <1>2 DEF DraftInv, OneDraftPerFeedback

\* No statement of a request writes a draft.
LEMMA StatementDrafts ==
  ASSUME IInv, NEW r \in Requests, Statement(r)
  PROVE  NoNewDraft
<1> DEFINE b == req[r].bug
<1>0. /\ bugs \in [Bugs -> BugRow]
      /\ req[r].pc = "update" => b \in Bugs
  BY DEF IInv, TypeOK, RequestsNameRows
<1>1. UNCHANGED <<feedback, auto>>
  BY DEF Statement, LoadFeedback, CheckStructured, StructureFeedback, ConfirmBug, DismissBug,
         UpdateBug, MarkBugNeedsInfo, ResumeBug, ReopenBug, CheckRelease, MarkBugFixed,
         Transact, Update, Go, Reply
<1>2. ASSUME NEW c \in Bugs, NEW row, row.status # "suggested",
             bugs' \in {bugs, [bugs EXCEPT ![c] = row]}
      PROVE  NoNewDraft
  BY <1>0, <1>1, <1>2 DEF NoNewDraft
<1>3. CASE bugs' = bugs
  BY <1>1, <1>3 DEF NoNewDraft
<1>4. ASSUME NEW c \in Bugs, StructureFeedback(r, c)
      PROVE  NoNewDraft
  <2>1. NewRow("open", req[r].feedback, req[r].user).status # "suggested"
    BY DEF NewRow, NoRow
  <2> QED BY <1>2, <1>4, <2>1 DEF StructureFeedback, Transact
<1>5. CASE ConfirmBug(r)
  <2>1. b \in Bugs /\ Confirmed(bugs[b], req[r].user).status # "suggested"
    BY <1>0, <1>5 DEF ConfirmBug, At, Confirmed, BugRow
  <2> QED BY <1>2, <1>5, <2>1 DEF ConfirmBug, Transact
<1>6. CASE DismissBug(r)
  <2>1. b \in Bugs /\ NoRow("gone").status # "suggested"
    BY <1>0, <1>6 DEF DismissBug, At, NoRow
  <2> QED BY <1>2, <1>6, <2>1 DEF DismissBug, Update
<1>7. CASE UpdateBug(r) /\ bugs' # bugs
  <2>1. b \in Bugs /\ Edited(bugs[b]).status # "suggested"
    BY <1>0, <1>7 DEF UpdateBug, Update, At, Edited, BugRow
  <2> QED BY <1>2, <1>7, <2>1 DEF UpdateBug, Update
<1>8. CASE MarkBugNeedsInfo(r) \/ ReopenBug(r)
  <2>1. bugs' = bugs
    BY <1>8 DEF MarkBugNeedsInfo, ReopenBug, Transact, ActivityTypes
  <2> QED BY <1>3, <2>1
<1>9. CASE ResumeBug(r)
  <2>1. b \in Bugs /\ Moved(bugs[b], "open").status # "suggested"
    BY <1>0, <1>9 DEF ResumeBug, At, Moved, BugRow
  <2> QED BY <1>2, <1>9, <2>1 DEF ResumeBug, Update
<1>10. CASE MarkBugFixed(r)
  <2>1. b \in Bugs /\ Fixed(bugs[b], req[r].user, req[r].release).status # "suggested"
    BY <1>0, <1>10 DEF MarkBugFixed, At, Fixed, BugRow
  <2> QED BY <1>2, <1>10, <2>1 DEF MarkBugFixed, Transact
<1>11. CASE LoadFeedback(r) \/ CheckStructured(r) \/ CheckRelease(r)
  <2>1. bugs' = bugs
    BY <1>11 DEF LoadFeedback, CheckStructured, CheckRelease, Go, Reply
  <2> QED BY <1>3, <2>1
<1> QED BY <1>3, <1>4, <1>5, <1>6, <1>7, <1>8, <1>9, <1>10, <1>11 DEF Statement, UpdateBug

LEMMA PeopleDrafts ==
  ASSUME IInv, NEW u \in Users, People(u) \/ DeleteCreator
  PROVE  NoNewDraft
<1>0. /\ bugs \in [Bugs -> BugRow]
      /\ feedback \in [Feedbacks -> Users \cup {Unborn, Gone}]
      /\ auto \in [Feedbacks -> AutoStates]
      /\ Unborn # Gone
  BY BugAssumption DEF IInv, TypeOK
<1>1. ASSUME NEW r \in {"tester", "developer"}, WriteMembership(u, r)
      PROVE  NoNewDraft
  BY <1>1 DEF WriteMembership, NoNewDraft
<1>2. ASSUME NEW f \in Feedbacks, CreateFeedback(u, f)
      PROVE  NoNewDraft
  BY <1>0, <1>2, BugAssumption DEF CreateFeedback, NoNewDraft
<1>3. ASSUME NEW l \in Releases, CreateRelease(u, l)
      PROVE  NoNewDraft
  BY <1>3 DEF CreateRelease, NoNewDraft
<1>4. CASE DeleteMember(u)
  <2>1. ASSUME NEW b \in Bugs
        PROVE  bugs'[b].status = bugs[b].status /\ bugs'[b].feedback \in {bugs[b].feedback, None}
    <3>1. bugs'[b] = Unlink(bugs[b], u) /\ bugs[b] \in BugRow
      BY <1>0, <1>4 DEF DeleteMember
    <3> QED BY <3>1, UnlinkKeeps
  <2>2. \A f \in Feedbacks : feedback[f] # Unborn => feedback'[f] # Unborn /\ auto' = auto
    BY <1>0, <1>4 DEF DeleteMember
  <2> QED BY <2>1, <2>2 DEF NoNewDraft
<1>5. CASE DeleteCreator
  <2>1. ASSUME NEW b \in Bugs, bugs'[b].status = "suggested"
        PROVE  bugs'[b] = bugs[b]
    BY <1>5, <2>1 DEF DeleteCreator, NoRow
  <2>2. \A f \in Feedbacks : feedback[f] # Unborn => feedback'[f] # Unborn /\ auto' = auto
    BY <1>0, <1>5 DEF DeleteCreator
  <2> QED BY <2>1, <2>2 DEF NoNewDraft
<1> QED BY <1>1, <1>2, <1>3, <1>4, <1>5 DEF People

LEMMA SuggestDrafts ==
  ASSUME TypeOK, DraftInv, NEW f \in Feedbacks, NEW b \in Bugs, SuggestBug(f, b)
  PROVE  DraftInv'
<1>0. /\ bugs \in [Bugs -> BugRow]
      /\ auto \in [Feedbacks -> AutoStates]
      /\ auto[f] = "suggest" /\ auto' = [auto EXCEPT ![f] = "done"] /\ feedback' = feedback
  BY DEF TypeOK, SuggestBug, AutoGo
<1>1. CASE bugs' = bugs
  <2>1. NoNewDraft
    BY <1>0, <1>1 DEF NoNewDraft
  <2> QED BY <2>1, NoNewDraftKeeps
<1>2. CASE bugs' # bugs
  <2> DEFINE new == NewRow("suggested", f, None)
  <2>1. bugs' = [bugs EXCEPT ![b] = new] /\ feedback[f] # Unborn
    BY <1>2 DEF SuggestBug, Live
  <2>2. new.status = "suggested" /\ new.feedback = f
    BY DEF NewRow, NoRow
  \* auto[f] was not yet "done", so no draft was drawn from f.
  <2>3. \A c \in Bugs : bugs[c].status = "suggested" /\ bugs[c].feedback # None =>
                         bugs[c].feedback # f
    BY <1>0 DEF DraftInv
  <2>4. ASSUME NEW c \in Bugs, c # b
        PROVE  bugs'[c] = bugs[c] /\ bugs[c].feedback \in Feedbacks \cup {None}
    BY <1>0, <2>1, <2>4 DEF BugRow
  <2>5. bugs'[b] = new
    BY <1>0, <2>1
  <2> QED BY <1>0, <2>1, <2>2, <2>3, <2>4, <2>5 DEF DraftInv, OneDraftPerFeedback
<1> QED BY <1>1, <1>2

LEMMA NextDrafts ==
  ASSUME IInv, DraftInv, [Next]_vars
  PROVE  DraftInv'
<1>0. TypeOK
  BY DEF IInv
<1>1. CASE UNCHANGED vars
  BY <1>1 DEF vars, DraftInv, OneDraftPerFeedback
<1>2. ASSUME NEW u \in Users, People(u) \/ DeleteCreator
      PROVE  DraftInv'
  BY <1>0, <1>2, PeopleDrafts, NoNewDraftKeeps
<1>3. ASSUME NEW r \in Requests, Statement(r)
      PROVE  DraftInv'
  BY <1>0, <1>3, StatementDrafts, NoNewDraftKeeps
<1>4. ASSUME NEW r \in Requests, NEW u \in Users, Ask(r, u) \/ Abandon(r)
      PROVE  DraftInv'
  BY <1>4 DEF Ask, AskStructure, AskBug, AskFixIn, Begin, Abandon, Reply,
              DraftInv, OneDraftPerFeedback
<1>5. ASSUME NEW f \in Feedbacks, AutoAnalyze(f) \/ AutoCheck(f) \/ AutoFail(f)
      PROVE  DraftInv'
  <2>1. bugs' = bugs /\ feedback' = feedback
        /\ \A g \in Feedbacks : auto[g] = "done" => auto'[g] = "done"
    BY <1>0, <1>5 DEF AutoAnalyze, AutoCheck, AutoFail, AutoGo, TypeOK
  <2>2. NoNewDraft
    BY <2>1 DEF NoNewDraft
  <2> QED BY <1>0, <2>2, NoNewDraftKeeps
<1>6. CASE Restart
  <2>1. NoNewDraft
    BY <1>0, <1>6 DEF Restart, NoNewDraft, TypeOK
  <2> QED BY <1>0, <2>1, NoNewDraftKeeps
<1> QED BY <1>0, <1>1, <1>2, <1>3, <1>4, <1>5, <1>6, SuggestDrafts, BugAssumption
        DEF Next, Work, Failure, AutoStep

\* OneDraftPerFeedback: a report never waits for judgement twice, although no
\* index of the table sees to it.
THEOREM OneDraftHolds == Spec => []OneDraftPerFeedback
<1>1. Init => DraftInv
  BY DEF Init, DraftInv, OneDraftPerFeedback, NoRow
<1>2. IInv /\ DraftInv /\ [Next]_vars => DraftInv'
  BY NextDrafts
<1>3. DraftInv => OneDraftPerFeedback
  BY DEF DraftInv
<1> QED BY <1>1, <1>2, <1>3, Inductive, PTL DEF Spec
==========================================================================
