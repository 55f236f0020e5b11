-------------------------- MODULE Invitations_proofs --------------------------
(***************************************************************************)
(* Proofs about Invitations, for any accounts, projects, invitations and   *)
(* requests, and any swaps that are pending at the start.                  *)
(***************************************************************************)
EXTENDS Invitations, TLAPS

--------------------------------------------------------------------------
(* The first invariant: tables, requests, creators. *)

\* The conjuncts of TypeOK, named.
Fields ==
  /\ users \subseteq Users
  /\ open \subseteq users
  /\ blocks \subseteq users \X users
  /\ member \in [Pairs -> Roles]
  /\ invites \in [InviteIds -> InviteRow]
  /\ swaps \subseteq Swaps
  /\ told \in [Arrivals -> Nat]
  /\ req \in [Requests -> Request]
  /\ late \in [InviteIds -> SUBSET {"block", "member"}]

NamesPairs == \A i \in InviteIds : Known(i) => Pair(i) \in Pairs

NoDangling ==
  \A m \in Pairs : ~ (Exists(m[1]) /\ m[2] \in users) => member[m] = "none" /\ PendingFor(m) = {}

OnePending ==
  \A i, j \in InviteIds : \A m \in Pairs : {i, j} \subseteq PendingFor(m) => i = j

\* What a request names at each of its statements.
RequestOK(q) ==
  /\ q.pc \in {"open", "member", "blocked", "insert", "already", "join", "welcome"} =>
       q.user \in Users /\ q.project \in Projects
  /\ q.pc \in {"open", "member", "blocked", "insert"} =>
       q.arg \in {"tester", "developer"}
  /\ q.pc \in {"blocked", "insert"} /\ Exists(q.project) => q.user # Owner[q.project]
  /\ q.pc = "email" => q.project \in Projects /\ q.arg \in {"tester", "developer"}
  /\ q.pc = "respond" =>
       q.user \in Users /\ q.invite \in InviteIds /\ q.arg \in {"accepted", "declined"}
  /\ q.pc \in {"already", "join"} => q.invite = None

RequestsOK == \A r \in Requests : RequestOK(req[r])

\* Nobody is a creator but of their own project, and there everybody is; and nobody is
\* invited to their own.
CreatorsOK ==
  /\ \A m \in Pairs : member[m] = "creator" => Owner[m[1]] = m[2]
  /\ \A p \in Projects : Exists(p) => member[<<p, Owner[p]>>] = "creator"
  /\ \A i \in InviteIds : Known(i) => invites[i].to # Owner[invites[i].project]

\* A pending swap is between people and projects that are there.
SwapsOK == \A m \in swaps : m \in Pairs /\ Owner[m[1]] # m[2] /\ Exists(m[1]) /\ m[2] \in users

TInv == Fields /\ NamesPairs /\ NoDangling /\ OnePending /\ RequestsOK /\ CreatorsOK /\ SwapsOK

LEMMA TInvTypeOK == TInv => TypeOK
BY DEF TInv, TypeOK, Fields, NamesPairs, NoDangling, OnePending

LEMMA OwnerType == \A p \in Projects : Owner[p] \in Users
BY InvitationAssumption

LEMMA PairParts == \A m \in Pairs : m[1] \in Projects /\ m[2] \in Users /\ m = <<m[1], m[2]>>
BY DEF Pairs

LEMMA InitTInv == Init => TInv
<1> SUFFICES ASSUME Init PROVE TInv
  OBVIOUS
<1> USE DEF Init
<1>1. Fields
  <2>1. member \in [Pairs -> Roles]
    BY DEF Roles
  <2>2. NoInvite \in InviteRow
    BY DEF NoInvite, InviteRow
  <2>3. Idle \in Request
    BY DEF Idle, Request
  <2> QED BY <2>1, <2>2, <2>3 DEF Fields, Arrivals
<1>2. \A i \in InviteIds : ~ Known(i) /\ invites[i].status # "pending"
  BY DEF Known, NoInvite
<1>3. \A m \in Pairs : Exists(m[1]) /\ m[2] \in users
  BY OwnerType, PairParts DEF Exists
<1>4. \A r \in Requests : req[r].pc = "idle"
  BY DEF Idle
<1>5. RequestsOK
  BY <1>4 DEF RequestsOK, RequestOK
<1>6. SwapsOK
  BY <1>3, InvitationAssumption DEF SwapsOK, Pairs
<1>7. CreatorsOK
  BY <1>2, OwnerType DEF CreatorsOK, Pairs
<1> QED BY <1>1, <1>2, <1>3, <1>5, <1>6, <1>7 DEF TInv, NamesPairs, NoDangling,
              OnePending, PendingFor

--------------------------------------------------------------------------
(* Steps that change no table but open_to_test. *)

\* Request r is now q.
Becomes(r, q) == q \in Request /\ RequestOK(q) /\ req' = [req EXCEPT ![r] = q]

Quiet ==
  /\ UNCHANGED <<users, blocks, member, invites, swaps, told, late>>
  /\ open' \subseteq users
  /\ \/ req' = req
     \/ \E r \in Requests, q \in Request : q.pc # "welcome" /\ Becomes(r, q)

LEMMA IdleOK ==
  /\ Idle \in Request /\ RequestOK(Idle) /\ Idle.pc = "idle"
  /\ Idle.user = None /\ Idle.project = None /\ Idle.invite = None /\ Idle.arg = "none"
BY DEF Idle, Request, RequestOK

LEMMA BecomesOK ==
  ASSUME Fields, RequestsOK, NEW r \in Requests, NEW q, Becomes(r, q), users' \subseteq users
  PROVE  req' \in [Requests -> Request] /\ RequestsOK' /\ req'[r] = q
<1>1. \A s \in Requests : req'[s] = IF s = r THEN q ELSE req[s]
  BY DEF Fields, Becomes
<1>2. \A s \in Requests : RequestOK(req'[s])
  BY <1>1 DEF RequestsOK, Becomes
<1> QED BY <1>1, <1>2 DEF Fields, Becomes, RequestsOK, RequestOK, Exists

LEMMA FinishOK ==
  ASSUME Fields, NEW r \in Requests, Finish(r)
  PROVE  Becomes(r, Idle)
BY IdleOK DEF Finish, Becomes

\* A request that goes on to its next statement.
LEMMA GoOK ==
  ASSUME TInv, NEW r \in Requests, NEW pc, UNCHANGED data,
         req' = [req EXCEPT ![r].pc = pc] \/ Finish(r),
         \/ req[r].pc = "open" /\ pc = "member"
         \/ /\ req[r].pc = "member" /\ pc = "blocked"
            /\ Finish(r) \/ member[Asked(r)] = "none"
         \/ req[r].pc = "blocked" /\ pc = "insert"
         \/ req[r].pc = "already" /\ pc = "join"
  PROVE  Quiet
<1>1. UNCHANGED <<users, blocks, member, invites, swaps, told, late>> /\ open' \subseteq users
  BY DEF data, TInv, Fields
<1>2. req[r] \in Request /\ RequestOK(req[r])
  BY DEF TInv, Fields, RequestsOK
<1>3. CASE req' = [req EXCEPT ![r].pc = pc] /\ ~ Finish(r)
  <2> DEFINE q == [req[r] EXCEPT !.pc = pc]
  <2>1. req' = [req EXCEPT ![r] = q]
    BY <1>3
  <2>2. q \in Request /\ q.pc # "welcome"
    BY <1>2 DEF Request
  <2>3. /\ q.pc = pc /\ q.user = req[r].user /\ q.project = req[r].project
        /\ q.invite = req[r].invite /\ q.arg = req[r].arg
    BY <1>2 DEF Request
  <2> HIDE DEF q
  <2>4. RequestOK(q)
    <3>1. CASE req[r].pc = "member"
      <4>1. member[<<q.project, q.user>>] = "none" /\ q.project \in Projects
        BY <1>2, <1>3, <2>3, <3>1 DEF Asked, RequestOK
      <4>2. Exists(q.project) => q.user # Owner[q.project]
        BY <4>1 DEF TInv, CreatorsOK
      <4> QED BY <1>2, <2>3, <3>1, <4>2 DEF RequestOK
    <3>2. CASE req[r].pc # "member"
      BY <1>2, <2>3, <3>2 DEF RequestOK
    <3> QED BY <3>1, <3>2
  <2> QED BY <1>1, <2>1, <2>2, <2>4 DEF Quiet, Becomes
<1>4. CASE Finish(r)
  <2>1. Becomes(r, Idle)
    BY <1>4, FinishOK DEF TInv
  <2> QED BY <1>1, <2>1, IdleOK DEF Quiet
<1> QED BY <1>3, <1>4

LEMMA BeginQuiet ==
  ASSUME TInv, NEW r \in Requests, NEW q \in Request, RequestOK(q), q.pc # "welcome",
         Begin(r, q)
  PROVE  Quiet
BY DEF Begin, data, Quiet, Becomes, TInv, Fields

LEMMA AskQuiet ==
  ASSUME TInv, NEW r \in Requests, Ask(r)
  PROVE  Quiet
<1>1. ASSUME NEW p \in Projects, NEW u \in Users, AskTester(r, p, u)
      PROVE  Quiet
  <2> DEFINE q == [Idle EXCEPT !.pc = "open", !.user = u, !.project = p, !.arg = "tester"]
  <2>1. /\ q \in Request /\ q.pc = "open" /\ q.user = u /\ q.project = p
        /\ q.invite = None /\ q.arg = "tester"
    BY IdleOK DEF Request
  <2>2. q \in Request /\ RequestOK(q) /\ q.pc # "welcome"
    BY <2>1 DEF RequestOK
  <2>3. Begin(r, q)
    BY <1>1 DEF AskTester
  <2> HIDE DEF q
  <2> QED BY <2>2, <2>3, BeginQuiet
<1>2. ASSUME NEW p \in Projects, NEW u \in Users, AskJoin(r, u, p)
      PROVE  Quiet
  <2> DEFINE q == [Idle EXCEPT !.pc = "already", !.user = u, !.project = p]
  <2>1. /\ q \in Request /\ q.pc = "already" /\ q.user = u /\ q.project = p
        /\ q.invite = None /\ q.arg = "none"
    BY IdleOK DEF Request
  <2>2. q \in Request /\ RequestOK(q) /\ q.pc # "welcome"
    BY <2>1 DEF RequestOK
  <2>3. Begin(r, q)
    BY <1>2 DEF AskJoin
  <2> HIDE DEF q
  <2> QED BY <2>2, <2>3, BeginQuiet
<1>3. ASSUME NEW p \in Projects, NEW role \in {"tester", "developer"}, AskEmail(r, p, role)
      PROVE  Quiet
  <2> DEFINE q == [Idle EXCEPT !.pc = "email", !.project = p, !.arg = role]
  <2>1. /\ q \in Request /\ q.pc = "email" /\ q.user = None /\ q.project = p
        /\ q.invite = None /\ q.arg = role
    BY IdleOK DEF Request
  <2>2. q \in Request /\ RequestOK(q) /\ q.pc # "welcome"
    BY <2>1 DEF RequestOK
  <2>3. Begin(r, q)
    BY <1>3 DEF AskEmail
  <2> HIDE DEF q
  <2> QED BY <2>2, <2>3, BeginQuiet
<1>4. ASSUME NEW u \in Users, NEW i \in InviteIds, NEW answer \in {"accepted", "declined"},
             AskRespond(r, u, i, answer)
      PROVE  Quiet
  <2> DEFINE q == [Idle EXCEPT !.pc = "respond", !.user = u, !.invite = i, !.arg = answer]
  <2>1. /\ q \in Request /\ q.pc = "respond" /\ q.user = u /\ q.project = None
        /\ q.invite = i /\ q.arg = answer
    BY IdleOK DEF Request
  <2>2. q \in Request /\ RequestOK(q) /\ q.pc # "welcome"
    BY <2>1 DEF RequestOK
  <2>3. Begin(r, q)
    BY <1>4 DEF AskRespond
  <2> HIDE DEF q
  <2> QED BY <2>2, <2>3, BeginQuiet
<1> QED BY <1>1, <1>2, <1>3, <1>4 DEF Ask

LEMMA CheckInviteeQuiet ==
  ASSUME TInv, NEW r \in Requests, NEW u \in Users, CheckInvitee(r, u)
  PROVE  Quiet
<1>1. UNCHANGED <<users, blocks, member, invites, swaps, told, late>> /\ open' \subseteq users
  BY DEF CheckInvitee, data, TInv, Fields
<1>2. req[r] \in Request /\ RequestOK(req[r]) /\ req[r].pc = "email"
  BY DEF TInv, Fields, RequestsOK, CheckInvitee, At
<1>3. CASE u # Owner[req[r].project] /\ member[<<req[r].project, u>>] = "none"
  <2> DEFINE q == [req[r] EXCEPT !.pc = "insert", !.user = u]
  <2>1. req' = [req EXCEPT ![r] = q]
    BY <1>2, <1>3 DEF CheckInvitee, TInv, Fields
  <2>2. /\ q.pc = "insert" /\ q.user = u /\ q.project = req[r].project
        /\ q.invite = req[r].invite /\ q.arg = req[r].arg
        /\ q \in Request
    BY <1>2 DEF Request
  <2>3. RequestOK(q)
    BY <1>2, <1>3, <2>2 DEF RequestOK
  <2> QED BY <1>1, <2>1, <2>2, <2>3 DEF Quiet, Becomes
<1>4. CASE ~ (u # Owner[req[r].project] /\ member[<<req[r].project, u>>] = "none")
  <2>1. Becomes(r, Idle)
    BY <1>4, FinishOK DEF CheckInvitee, TInv
  <2> QED BY <1>1, <2>1, IdleOK DEF Quiet
<1> QED BY <1>3, <1>4

\* The steps that are not quiet.
Writes ==
  \/ \E u, v \in Users : BlockUser(u, v) \/ UnblockUser(u, v)
  \/ \E u \in Users : DeleteUser(u)
  \/ \E m \in Swaps : AcceptSwap(m)
  \/ \E r \in Requests :
       \/ \E i \in InviteIds : InsertInvite(r, i)
       \/ Respond(r) \/ Welcome(r) \/ InsertMember(r)

LEMMA StepKinds ==
  ASSUME TInv, [Next]_vars
  PROVE  Quiet \/ Writes
<1>1. CASE UNCHANGED vars
  BY <1>1 DEF vars, data, Quiet, TInv, Fields
<1>2. ASSUME NEW u \in Users, SetOpenToTest(u)
      PROVE  Quiet
  BY <1>2 DEF SetOpenToTest, Quiet, TInv, Fields
<1>3. ASSUME NEW r \in Requests, Abandon(r)
      PROVE  Quiet
  <2>1. Becomes(r, Idle)
    BY <1>3, FinishOK DEF Abandon, Reply, TInv
  <2> QED BY <1>3, <2>1, IdleOK DEF Abandon, Reply, data, Quiet, TInv, Fields
<1>4. ASSUME NEW r \in Requests, Statement(r)
      PROVE  Quiet \/ Writes
  <2>1. CASE CheckOpen(r)
    BY <2>1, GoOK DEF CheckOpen, At, GoIf
  <2>2. CASE CheckMember(r)
    BY <2>2, GoOK DEF CheckMember, At, GoIf
  <2>3. CASE CheckBlocked(r)
    BY <2>3, GoOK DEF CheckBlocked, At, GoIf
  <2>4. CASE CheckAlready(r)
    BY <2>4, GoOK DEF CheckAlready, At, GoIf
  <2> QED BY <1>4, <2>1, <2>2, <2>3, <2>4, CheckInviteeQuiet DEF Statement, Writes
<1>5. ASSUME NEW u \in Users, People(u)
      PROVE  Quiet \/ Writes
  BY <1>2, <1>5 DEF People, Writes
<1> QED BY <1>1, <1>3, <1>4, <1>5, AskQuiet DEF Next, Writes

--------------------------------------------------------------------------
(* What becomes of rows that are there. *)

\* A pending row is answered, or cancelled; a row goes with its project or its invitee.
RowMoves(row, new) ==
  \/ new = row
  \/ row.status = "pending" /\ \E s \in {"accepted", "declined", "cancelled"} :
                                 new = [row EXCEPT !.status = s]
  \/ row.status # "unborn" /\ new = [row EXCEPT !.status = "gone"]

RowsMove ==
  /\ invites' = [i \in InviteIds |-> invites'[i]]
  /\ \A i \in InviteIds : RowMoves(invites[i], invites'[i])

LEMMA RowMovesKeeps ==
  ASSUME NEW row \in InviteRow, NEW new, RowMoves(row, new)
  PROVE  /\ new \in InviteRow
         /\ new.project = row.project /\ new.to = row.to /\ new.role = row.role
         /\ new.status = "unborn" <=> row.status = "unborn"
         /\ new.status = "pending" => new = row
BY DEF RowMoves, InviteRow

LEMMA RowsMoveKeeps ==
  ASSUME TInv, RowsMove
  PROVE  /\ invites' \in [InviteIds -> InviteRow] /\ NamesPairs' /\ OnePending'
         /\ \A i \in InviteIds : Pair(i)' = Pair(i) /\ (Known(i)' <=> Known(i))
         /\ \A m \in Pairs : PendingFor(m)' \subseteq PendingFor(m)
         /\ \A i \in InviteIds : Known(i)' => invites'[i].to # Owner[invites'[i].project]
<1>1. \A i \in InviteIds : invites[i] \in InviteRow
  BY DEF TInv, Fields
<1>2. ASSUME NEW i \in InviteIds
      PROVE  /\ invites'[i] \in InviteRow /\ Pair(i)' = Pair(i) /\ (Known(i)' <=> Known(i))
             /\ invites'[i].project = invites[i].project /\ invites'[i].to = invites[i].to
             /\ invites'[i].status = "pending" => invites'[i] = invites[i]
  <2>1. invites[i] \in InviteRow /\ RowMoves(invites[i], invites'[i])
    BY <1>1 DEF RowsMove
  <2> QED BY <2>1, RowMovesKeeps DEF Pair, Known
<1>3. invites' \in [InviteIds -> InviteRow]
  BY <1>2 DEF RowsMove
<1>4. NamesPairs'
  BY <1>2 DEF NamesPairs, TInv
<1>5. ASSUME NEW m \in Pairs
      PROVE  PendingFor(m)' \subseteq PendingFor(m)
  BY <1>2 DEF PendingFor
<1>6. OnePending'
  BY <1>5 DEF OnePending, TInv
<1>7. \A i \in InviteIds : Known(i)' => invites'[i].to # Owner[invites'[i].project]
  BY <1>2 DEF TInv, CreatorsOK
<1> QED BY <1>2, <1>3, <1>4, <1>5, <1>6, <1>7

\* The steps that answer, cancel or remove rows: the others leave them alone.
LEMMA BlockRows ==
  ASSUME TInv, NEW u \in Users, NEW v \in Users, BlockUser(u, v)
  PROVE  RowsMove
BY DEF BlockUser, RowsMove, RowMoves

LEMMA DeleteRows ==
  ASSUME TInv, NEW u \in Users, DeleteUser(u)
  PROVE  RowsMove
BY DEF DeleteUser, RowsMove, RowMoves, Known

LEMMA RespondRows ==
  ASSUME TInv, NEW r \in Requests, Respond(r)
  PROVE  RowsMove
<1> DEFINE i == req[r].invite
<1>1. /\ i \in InviteIds /\ req[r].arg \in {"accepted", "declined"}
      /\ invites \in [InviteIds -> InviteRow]
  BY DEF Respond, At, TInv, RequestsOK, RequestOK, Fields
<1>2. CASE invites[i].status = "pending" /\ invites[i].to = req[r].user
  <2>1. invites' = [invites EXCEPT ![i].status = req[r].arg]
    BY <1>2 DEF Respond
  <2>2. invites'[i] = [invites[i] EXCEPT !.status = req[r].arg]
    BY <1>1, <2>1
  <2> QED BY <1>1, <1>2, <2>1, <2>2 DEF RowsMove, RowMoves
<1>3. CASE ~ (invites[i].status = "pending" /\ invites[i].to = req[r].user)
  BY <1>1, <1>3 DEF Respond, RowsMove, RowMoves
<1> QED BY <1>2, <1>3

--------------------------------------------------------------------------
(* Every step keeps TInv. *)

LEMMA QuietTInv ==
  ASSUME TInv, Quiet
  PROVE  TInv'
<1>1. req' \in [Requests -> Request] /\ RequestsOK'
  <2>1. CASE req' = req
    BY <2>1 DEF TInv, Fields, RequestsOK, RequestOK, Exists, Quiet
  <2>2. ASSUME NEW r \in Requests, NEW q \in Request, Becomes(r, q)
        PROVE  req' \in [Requests -> Request] /\ RequestsOK'
    BY <2>2, BecomesOK DEF TInv, Quiet
  <2> QED BY <2>1, <2>2 DEF Quiet
<1>2. Fields'
  BY <1>1 DEF Quiet, TInv, Fields
<1>3. /\ \A m \in Pairs : PendingFor(m)' = PendingFor(m)
      /\ \A i \in InviteIds : Pair(i)' = Pair(i) /\ (Known(i)' <=> Known(i))
      /\ \A p \in Projects : Exists(p)' <=> Exists(p)
  BY DEF Quiet, PendingFor, Pair, Known, Exists
<1>4. NamesPairs' /\ OnePending'
  BY <1>3 DEF TInv, NamesPairs, OnePending
<1>5. NoDangling' /\ SwapsOK'
  BY <1>3, PairParts DEF TInv, NoDangling, SwapsOK, Quiet
<1>6. CreatorsOK'
  BY <1>3 DEF TInv, CreatorsOK, Quiet, Exists
<1> QED BY <1>1, <1>2, <1>4, <1>5, <1>6 DEF TInv

LEMMA BlockTInv ==
  ASSUME TInv, NEW u \in Users, NEW v \in Users, BlockUser(u, v)
  PROVE  TInv'
<1>1. /\ blocks' = blocks \cup {<<u, v>>} /\ u \in users /\ v \in users
      /\ swaps' \subseteq swaps
      /\ UNCHANGED <<users, open, member, told, late, req>>
  BY DEF BlockUser
<1>2. RowsMove
  BY BlockRows
<1>3. Fields'
  BY <1>1, <1>2, RowsMoveKeeps DEF TInv, Fields
<1>4. NoDangling'
  BY <1>1, <1>2, RowsMoveKeeps DEF TInv, NoDangling, Exists
<1>5. RequestsOK'
  BY <1>1 DEF TInv, RequestsOK, RequestOK, Exists
<1>6. CreatorsOK' /\ SwapsOK'
  BY <1>1, <1>2, RowsMoveKeeps DEF TInv, CreatorsOK, SwapsOK, Exists
<1> QED BY <1>2, <1>3, <1>4, <1>5, <1>6, RowsMoveKeeps DEF TInv

LEMMA UnblockTInv ==
  ASSUME TInv, NEW u \in Users, NEW v \in Users, UnblockUser(u, v)
  PROVE  TInv'
<1>1. blocks' \subseteq blocks /\ UNCHANGED <<users, open, member, invites, swaps, told, late, req>>
  BY DEF UnblockUser
<1>2. Fields'
  BY <1>1 DEF TInv, Fields
<1>3. /\ NamesPairs' /\ OnePending' /\ NoDangling' /\ RequestsOK' /\ CreatorsOK' /\ SwapsOK'
  BY <1>1 DEF TInv, NamesPairs, OnePending, NoDangling, RequestsOK, RequestOK, CreatorsOK, SwapsOK,
              PendingFor, Pair, Known, Exists
<1> QED BY <1>2, <1>3 DEF TInv

\* What DeleteUser takes: the memberships, rows and swaps of u and of u's projects.
Mine(m, u) == m[2] = u \/ Owner[m[1]] = u

LEMMA DeleteFacts ==
  ASSUME NEW u \in Users, DeleteUser(u)
  PROVE  /\ u \in users /\ users' = users \ {u} /\ open' = open \ {u}
         /\ blocks' = {b \in blocks : u \notin {b[1], b[2]}}
         /\ member' = [m \in Pairs |-> IF Mine(m, u) THEN "none" ELSE member[m]]
         /\ invites' = [i \in InviteIds |->
                          IF Known(i) /\ Mine(Pair(i), u)
                            THEN [invites[i] EXCEPT !.status = "gone"] ELSE invites[i]]
         /\ swaps' = {m \in swaps : ~ Mine(m, u)}
         /\ UNCHANGED <<told, late, req>>
BY DEF DeleteUser, Mine

LEMMA DeleteTInv ==
  ASSUME TInv, NEW u \in Users, DeleteUser(u)
  PROVE  TInv'
<1>1. /\ u \in users /\ users' = users \ {u} /\ open' = open \ {u}
      /\ blocks' = {b \in blocks : u \notin {b[1], b[2]}}
      /\ member' = [m \in Pairs |-> IF Mine(m, u) THEN "none" ELSE member[m]]
      /\ \A i \in InviteIds : Known(i) /\ Mine(Pair(i), u) => invites'[i].status = "gone"
      /\ swaps' = {m \in swaps : ~ Mine(m, u)}
      /\ UNCHANGED <<told, late, req>>
  <2>1. \A i \in InviteIds : invites[i] \in InviteRow
    BY DEF TInv, Fields
  <2> QED BY <2>1, DeleteFacts DEF InviteRow
<1>2. RowsMove
  BY DeleteRows
<1>3. Fields'
  <2>1. blocks' \subseteq users' \X users'
    BY <1>1 DEF TInv, Fields
  <2>2. member' \in [Pairs -> Roles]
    BY <1>1 DEF TInv, Fields, Roles
  <2> QED BY <1>1, <1>2, <2>1, <2>2, RowsMoveKeeps DEF TInv, Fields
<1>4. NoDangling'
  <2> SUFFICES ASSUME NEW m \in Pairs, ~ (Exists(m[1])' /\ m[2] \in users')
               PROVE  member'[m] = "none" /\ PendingFor(m)' = {}
    BY DEF NoDangling
  <2>1. CASE Mine(m, u)
    <3>1. ASSUME NEW i \in PendingFor(m)'
          PROVE  FALSE
      <4>1. i \in PendingFor(m)
        BY <1>2, RowsMoveKeeps
      <4>2. i \in InviteIds /\ Known(i) /\ Pair(i) = m /\ invites'[i].status = "pending"
        BY <4>1 DEF PendingFor, Known
      <4> QED BY <1>1, <2>1, <4>2
    <3> QED BY <1>1, <2>1, <3>1
  <2>2. CASE ~ Mine(m, u)
    <3>1. ~ (Exists(m[1]) /\ m[2] \in users)
      BY <1>1, <2>2 DEF Exists, Mine
    <3> QED BY <1>1, <1>2, <2>2, <3>1, RowsMoveKeeps DEF TInv, NoDangling
  <2> QED BY <2>1, <2>2
<1>5. RequestsOK'
  BY <1>1 DEF TInv, RequestsOK, RequestOK, Exists
<1>6. CreatorsOK'
  <2>1. \A p \in Projects : <<p, Owner[p]>> \in Pairs
    BY OwnerType DEF Pairs
  <2> QED BY <1>1, <1>2, <2>1, RowsMoveKeeps DEF TInv, CreatorsOK, Exists, Mine
<1>7. SwapsOK'
  BY <1>1 DEF TInv, SwapsOK, Exists, Mine
<1> QED BY <1>2, <1>3, <1>4, <1>5, <1>6, <1>7, RowsMoveKeeps DEF TInv

\* A membership that is written between people and projects that are there.
LEMMA JoinsTInv ==
  ASSUME TInv, NEW m \in Pairs, NEW role \in {"tester", "developer"},
         Exists(m[1]), m[2] \in users, member[m] # "creator",
         member' = [member EXCEPT ![m] = role],
         users' = users
  PROVE  /\ member' \in [Pairs -> Roles]
         /\ \A n \in Pairs : member'[n] = "creator" => Owner[n[1]] = n[2]
         /\ \A p \in Projects : Exists(p)' => member'[<<p, Owner[p]>>] = "creator"
         /\ \A n \in Pairs : ~ (Exists(n[1])' /\ n[2] \in users') => member'[n] = "none"
<1>1. member \in [Pairs -> Roles]
  BY DEF TInv, Fields
<1>2. \A n \in Pairs : member'[n] = IF n = m THEN role ELSE member[n]
  BY <1>1
<1>3. \A p \in Projects : <<p, Owner[p]>> \in Pairs
  BY OwnerType DEF Pairs
<1> QED BY <1>1, <1>2, <1>3 DEF TInv, CreatorsOK, NoDangling, Exists, Roles

LEMMA AcceptSwapTInv ==
  ASSUME TInv, NEW m \in Swaps, AcceptSwap(m)
  PROVE  TInv'
<1>1. /\ m \in swaps /\ member' = [member EXCEPT ![m] = "tester"] /\ swaps' \subseteq swaps
      /\ UNCHANGED <<users, open, blocks, invites, told, late, req>>
  BY DEF AcceptSwap
<1>2. m \in Pairs /\ Exists(m[1]) /\ m[2] \in users /\ member[m] # "creator"
  BY <1>1 DEF TInv, SwapsOK, CreatorsOK
<1>3. /\ member' \in [Pairs -> Roles]
      /\ \A n \in Pairs : member'[n] = "creator" => Owner[n[1]] = n[2]
      /\ \A p \in Projects : Exists(p)' => member'[<<p, Owner[p]>>] = "creator"
      /\ \A n \in Pairs : ~ (Exists(n[1])' /\ n[2] \in users') => member'[n] = "none"
  BY <1>1, <1>2, JoinsTInv
<1>4. Fields'
  BY <1>1, <1>3 DEF TInv, Fields
<1>5. NamesPairs' /\ OnePending' /\ RequestsOK' /\ SwapsOK'
  BY <1>1 DEF TInv, NamesPairs, OnePending, RequestsOK, RequestOK, SwapsOK, PendingFor, Pair, Known,
              Exists
<1>6. NoDangling'
  BY <1>1, <1>3 DEF TInv, NoDangling, PendingFor, Pair, Exists
<1>7. CreatorsOK'
  BY <1>1, <1>3 DEF TInv, CreatorsOK, Known, Exists
<1> QED BY <1>4, <1>5, <1>6, <1>7 DEF TInv

\* The INSERT of an invitation that takes effect.
Inserted(r, i) ==
  /\ At(r, "insert") /\ ~ Known(i) /\ Finish(r)
  /\ Exists(req[r].project) /\ req[r].user \in users /\ PendingFor(Asked(r)) = {}
  /\ InsertRow(i, req[r].project, req[r].user, req[r].arg)
  /\ UNCHANGED <<users, open, blocks, member, swaps, told>>

LEMMA InsertKinds ==
  ASSUME TInv, NEW r \in Requests, NEW i \in InviteIds, InsertInvite(r, i)
  PROVE  Inserted(r, i) \/ Quiet
<1>1. Becomes(r, Idle)
  BY FinishOK DEF InsertInvite, TInv
<1> QED BY <1>1, IdleOK DEF InsertInvite, Inserted, Quiet, TInv, Fields

LEMMA InsertedFacts ==
  ASSUME TInv, NEW r \in Requests, NEW i \in InviteIds, Inserted(r, i)
  PROVE  /\ Asked(r) \in Pairs /\ Asked(r)[2] # Owner[Asked(r)[1]]
         /\ Asked(r)[1] = req[r].project /\ Asked(r)[2] = req[r].user
         /\ invites'[i].status = "pending" /\ invites'[i].role = req[r].arg
         /\ invites'[i].project = Asked(r)[1] /\ invites'[i].to = Asked(r)[2]
         /\ Pair(i)' = Asked(r)
         /\ invites'[i] \in InviteRow
         /\ \A j \in InviteIds \ {i} : invites'[j] = invites[j]
         /\ invites' \in [InviteIds -> InviteRow]
         /\ \A m \in Pairs : PendingFor(m)' = IF m = Asked(r) THEN {i} ELSE PendingFor(m)
<1> DEFINE new == [status |-> "pending", project |-> req[r].project,
                   to |-> req[r].user, role |-> req[r].arg]
<1>1. RequestOK(req[r]) /\ req[r].pc = "insert" /\ invites \in [InviteIds -> InviteRow]
  BY DEF TInv, RequestsOK, Fields, Inserted, At
<1>2. /\ req[r].user \in Users /\ req[r].project \in Projects
      /\ req[r].user # Owner[req[r].project] /\ req[r].arg \in {"tester", "developer"}
  BY <1>1 DEF RequestOK, Inserted
<1>3. Asked(r) \in Pairs /\ Asked(r)[1] = req[r].project /\ Asked(r)[2] = req[r].user
  BY <1>2 DEF Asked, Pairs
<1>4. new \in InviteRow
  BY <1>2 DEF InviteRow
<1>5. invites' = [invites EXCEPT ![i] = new]
  BY DEF Inserted, InsertRow
<1>6. invites'[i] = new /\ invites' \in [InviteIds -> InviteRow]
      /\ \A j \in InviteIds \ {i} : invites'[j] = invites[j]
  BY <1>1, <1>4, <1>5
<1>7. Pair(i)' = Asked(r)
  BY <1>6 DEF Pair, Asked
<1>8. \A j \in InviteIds \ {i} : Pair(j)' = Pair(j)
  BY <1>6 DEF Pair
<1>9. invites[i].status # "pending"
  BY DEF Inserted, Known
<1>10. ASSUME NEW m \in Pairs
       PROVE  PendingFor(m)' = IF m = Asked(r) THEN {i} ELSE PendingFor(m)
  <2>1. PendingFor(m)' = {j \in InviteIds : invites'[j].status = "pending" /\ Pair(j)' = m}
    BY DEF PendingFor
  <2>2. PendingFor(m) = {j \in InviteIds : invites[j].status = "pending" /\ Pair(j) = m}
    BY DEF PendingFor
  <2>3. m = Asked(r) => PendingFor(m) = {}
    BY DEF Inserted
  <2>4. invites'[i].status = "pending"
    BY <1>6
  <2>5. \A j \in InviteIds :
          j \in PendingFor(m)' <=> (IF j = i THEN m = Asked(r) ELSE j \in PendingFor(m))
    BY <1>6, <1>7, <1>8, <2>1, <2>2, <2>4
  <2>6. i \notin PendingFor(m)
    BY <1>9, <2>2
  <2> QED BY <2>1, <2>2, <2>3, <2>5, <2>6
<1>11. /\ invites'[i].status = "pending" /\ invites'[i].role = req[r].arg
       /\ invites'[i].project = Asked(r)[1] /\ invites'[i].to = Asked(r)[2]
  BY <1>3, <1>6
<1> QED BY <1>2, <1>3, <1>4, <1>6, <1>7, <1>10, <1>11

LEMMA InsertTInv ==
  ASSUME TInv, NEW r \in Requests, NEW i \in InviteIds, InsertInvite(r, i)
  PROVE  TInv'
<1>1. CASE Quiet
  BY <1>1, QuietTInv
<1>2. CASE Inserted(r, i)
  <2> DEFINE m == Asked(r)
  <2>1. /\ m \in Pairs /\ m[2] # Owner[m[1]] /\ m[1] = req[r].project /\ m[2] = req[r].user
        /\ Exists(m[1]) /\ m[2] \in users
        /\ UNCHANGED <<users, open, blocks, member, swaps, told>>
        /\ late' \in [InviteIds -> SUBSET {"block", "member"}]
    <3>1. late \in [InviteIds -> SUBSET {"block", "member"}]
      BY DEF TInv, Fields
    <3> QED BY <1>2, <3>1, InsertedFacts DEF Inserted, InsertRow
  <2>2. /\ invites' \in [InviteIds -> InviteRow]
        /\ Pair(i)' = m /\ invites'[i].project = m[1] /\ invites'[i].to = m[2]
        /\ \A j \in InviteIds \ {i} : invites'[j] = invites[j]
        /\ \A n \in Pairs : PendingFor(n)' = IF n = m THEN {i} ELSE PendingFor(n)
    BY <1>2, InsertedFacts
  <2>3. req' \in [Requests -> Request] /\ RequestsOK'
    BY <1>2, <2>1, FinishOK, BecomesOK DEF Inserted, TInv
  <2> HIDE DEF m
  <2>4. Fields'
    BY <2>1, <2>2, <2>3 DEF TInv, Fields
  <2>5. NamesPairs'
    BY <2>1, <2>2 DEF TInv, NamesPairs, Known, Pair
  <2>6. OnePending'
    BY <2>2 DEF TInv, OnePending
  <2>7. NoDangling' /\ SwapsOK'
    BY <2>1, <2>2 DEF TInv, NoDangling, SwapsOK, Exists
  <2>8. CreatorsOK'
    BY <2>1, <2>2 DEF TInv, CreatorsOK, Known, Exists
  <2> QED BY <2>3, <2>4, <2>5, <2>6, <2>7, <2>8 DEF TInv
<1> QED BY <1>1, <1>2, InsertKinds

\* An acceptance: the row, its people, its project and the membership.
LEMMA RespondFacts ==
  ASSUME TInv, NEW r \in Requests, At(r, "respond"),
         invites[req[r].invite].status = "pending"
  PROVE  LET i == req[r].invite IN
         /\ i \in InviteIds /\ Pair(i) \in Pairs /\ i \in PendingFor(Pair(i))
         /\ Exists(Pair(i)[1]) /\ Pair(i)[2] \in users
         /\ Pair(i)[1] = invites[i].project /\ Pair(i)[2] = invites[i].to
         /\ invites[i].role \in {"tester", "developer"}
         /\ req[r].arg \in {"accepted", "declined"}
         /\ member[Pair(i)] # "creator"
<1> DEFINE i == req[r].invite
<1>1. i \in InviteIds /\ req[r].arg \in {"accepted", "declined"} /\ invites[i] \in InviteRow
  BY DEF TInv, RequestsOK, RequestOK, At, Fields
<1>2. Known(i) /\ Pair(i) \in Pairs
  BY <1>1 DEF Known, TInv, NamesPairs
<1>3. i \in PendingFor(Pair(i))
  BY <1>1 DEF PendingFor
<1>4. Exists(Pair(i)[1]) /\ Pair(i)[2] \in users
  BY <1>2, <1>3 DEF TInv, NoDangling
<1>5. Pair(i)[1] = invites[i].project /\ Pair(i)[2] = invites[i].to
  BY DEF Pair
<1>6. member[Pair(i)] # "creator"
  BY <1>1, <1>2, <1>5 DEF TInv, CreatorsOK
<1> QED BY <1>1, <1>2, <1>3, <1>4, <1>5, <1>6 DEF InviteRow

LEMMA RespondTInv ==
  ASSUME TInv, NEW r \in Requests, Respond(r)
  PROVE  TInv'
<1> DEFINE i == req[r].invite
           taken == invites[i].status = "pending" /\ invites[i].to = req[r].user
           yes == taken /\ req[r].arg = "accepted"
<1>1. RowsMove /\ UNCHANGED <<users, open, blocks, swaps, told, late>>
  BY RespondRows DEF Respond
<1>2. /\ member' \in [Pairs -> Roles]
      /\ \A n \in Pairs : member'[n] = "creator" => Owner[n[1]] = n[2]
      /\ \A p \in Projects : Exists(p)' => member'[<<p, Owner[p]>>] = "creator"
      /\ \A n \in Pairs : ~ (Exists(n[1])' /\ n[2] \in users') => member'[n] = "none"
  <2>1. CASE yes
    <3>1. member' = [member EXCEPT ![Pair(i)] = invites[i].role] /\ At(r, "respond")
      BY <2>1 DEF Respond
    <3> QED BY <1>1, <2>1, <3>1, RespondFacts, JoinsTInv
  <2>2. CASE ~ yes
    <3>1. member' = member
      BY <2>2 DEF Respond
    <3> QED BY <1>1, <3>1 DEF TInv, Fields, CreatorsOK, NoDangling, Exists
  <2> QED BY <2>1, <2>2
<1>3. req' \in [Requests -> Request] /\ RequestsOK'
  <2>1. CASE Finish(r)
    BY <1>1, <2>1, FinishOK, BecomesOK DEF TInv
  <2>2. CASE taken /\ req' = [req EXCEPT ![r].pc = "welcome", ![r].project = invites[i].project]
    <3> DEFINE q == [req[r] EXCEPT !.pc = "welcome", !.project = invites[i].project]
    <3>1. /\ req[r] \in Request /\ invites[i].project \in Projects
          /\ i \in InviteIds /\ req[r].user \in Users
      <4>1. At(r, "respond")
        BY DEF Respond
      <4>2. RequestOK(req[r]) /\ req[r] \in Request
        BY DEF TInv, RequestsOK, Fields
      <4>3. Pair(i) \in Pairs /\ Pair(i)[1] = invites[i].project
        BY <2>2, <4>1, RespondFacts
      <4> QED BY <4>1, <4>2, <4>3, PairParts DEF RequestOK, At
    <3>2. req' = [req EXCEPT ![r] = q]
      BY <2>2, <3>1 DEF TInv, Fields
    <3>3. /\ q.pc = "welcome" /\ q.project = invites[i].project /\ q.user = req[r].user
          /\ q \in Request
      BY <3>1 DEF Request
    <3>4. Becomes(r, q)
      BY <3>1, <3>2, <3>3 DEF Becomes, RequestOK
    <3> QED BY <1>1, <3>4, BecomesOK DEF TInv
  <2> QED BY <2>1, <2>2 DEF Respond
<1> HIDE DEF taken, yes, i
<1>4. Fields'
  BY <1>1, <1>2, <1>3, RowsMoveKeeps DEF TInv, Fields
<1>5. NoDangling'
  BY <1>1, <1>2, RowsMoveKeeps DEF TInv, NoDangling, Exists
<1>6. CreatorsOK' /\ SwapsOK'
  BY <1>1, <1>2, RowsMoveKeeps DEF TInv, CreatorsOK, SwapsOK, Exists
<1> QED BY <1>1, <1>3, <1>4, <1>5, <1>6, RowsMoveKeeps DEF TInv

LEMMA ArrivalType ==
  ASSUME TInv, NEW r \in Requests, req[r].pc = "welcome"
  PROVE  /\ Arrival(r) \in Arrivals
         /\ IF req[r].invite # None THEN Arrival(r) = req[r].invite /\ Arrival(r) \in InviteIds
                                    ELSE Arrival(r) = Asked(r) /\ Arrival(r) \in Pairs
<1>1. req[r] \in Request /\ RequestOK(req[r])
  BY DEF TInv, Fields, RequestsOK
<1>2. req[r].invite \in InviteIds \cup {None} /\ Asked(r) \in Pairs
  BY <1>1 DEF Request, RequestOK, Asked, Pairs
<1> QED BY <1>2 DEF Arrival, Arrivals

LEMMA WelcomeTInv ==
  ASSUME TInv, NEW r \in Requests, Welcome(r)
  PROVE  TInv'
<1>1. UNCHANGED <<users, open, blocks, member, invites, swaps, late>> /\ Finish(r)
  BY DEF Welcome
<1>2. req' \in [Requests -> Request] /\ RequestsOK'
  BY <1>1, FinishOK, BecomesOK DEF TInv
<1>3. told' \in [Arrivals -> Nat]
  <2>1. told \in [Arrivals -> Nat]
    BY DEF TInv, Fields
  <2>2. CASE told' = told
    BY <2>1, <2>2
  <2>3. CASE told' = [told EXCEPT ![Arrival(r)] = @ + 1]
    <3>1. Arrival(r) \in Arrivals
      BY ArrivalType DEF Welcome, At
    <3> QED BY <2>1, <2>3, <3>1
  <2> QED BY <2>2, <2>3 DEF Welcome
<1>4. Fields'
  BY <1>1, <1>2, <1>3 DEF TInv, Fields
<1>5. NamesPairs' /\ OnePending' /\ NoDangling' /\ CreatorsOK' /\ SwapsOK'
  BY <1>1 DEF TInv, NamesPairs, OnePending, NoDangling, CreatorsOK, SwapsOK, PendingFor, Pair,
              Known, Exists
<1> QED BY <1>2, <1>4, <1>5 DEF TInv

\* The INSERT of a membership that takes effect.
Joined(r) ==
  /\ At(r, "join") /\ req[r].user \in users /\ Exists(req[r].project)
  /\ member[Asked(r)] = "none"
  /\ member' = [member EXCEPT ![Asked(r)] = "tester"]
  /\ req' = [req EXCEPT ![r].pc = "welcome"]
  /\ UNCHANGED <<users, open, blocks, invites, swaps, told, late>>

LEMMA JoinKinds ==
  ASSUME TInv, NEW r \in Requests, InsertMember(r)
  PROVE  Joined(r) \/ Quiet
<1>1. CASE req[r].user \in users /\ Exists(req[r].project) /\ member[Asked(r)] = "none"
  BY <1>1 DEF InsertMember, Joined
<1>2. CASE ~ (req[r].user \in users /\ Exists(req[r].project) /\ member[Asked(r)] = "none")
  <2>1. Becomes(r, Idle) /\ UNCHANGED <<users, open, blocks, member, invites, swaps, told, late>>
    BY <1>2, FinishOK DEF InsertMember, TInv
  <2> QED BY <2>1, IdleOK DEF Quiet, TInv, Fields
<1> QED BY <1>1, <1>2

LEMMA JoinedFacts ==
  ASSUME TInv, NEW r \in Requests, Joined(r)
  PROVE  /\ Asked(r) \in Pairs /\ Exists(Asked(r)[1]) /\ Asked(r)[2] \in users
         /\ req'[r].pc = "welcome" /\ req'[r].invite = None
         /\ req'[r].user = req[r].user /\ req'[r].project = req[r].project
         /\ Becomes(r, req'[r])
<1>1. RequestOK(req[r]) /\ req[r] \in Request /\ req[r].pc = "join" /\ req \in [Requests -> Request]
  BY DEF TInv, RequestsOK, Fields, Joined, At
<1>2. req[r].user \in Users /\ req[r].project \in Projects /\ req[r].invite = None
  BY <1>1 DEF RequestOK
<1>3. Asked(r) \in Pairs /\ Exists(Asked(r)[1]) /\ Asked(r)[2] \in users
  BY <1>2 DEF Asked, Pairs, Joined
<1> DEFINE q == [req[r] EXCEPT !.pc = "welcome"]
<1>4. req' = [req EXCEPT ![r] = q] /\ req'[r] = q
  BY <1>1 DEF Joined
<1>5. /\ q.pc = "welcome" /\ q.invite = None /\ q.user = req[r].user /\ q.project = req[r].project
      /\ q \in Request
  BY <1>1, <1>2 DEF Request
<1> HIDE DEF q
<1>6. RequestOK(q)
  BY <1>2, <1>5 DEF RequestOK
<1> QED BY <1>3, <1>4, <1>5, <1>6 DEF Becomes

LEMMA JoinTInv ==
  ASSUME TInv, NEW r \in Requests, InsertMember(r)
  PROVE  TInv'
<1>1. CASE Quiet
  BY <1>1, QuietTInv
<1>2. CASE Joined(r)
  <2>1. UNCHANGED <<users, open, blocks, invites, swaps, told, late>>
    BY <1>2 DEF Joined
  <2>2. /\ member' \in [Pairs -> Roles]
        /\ \A n \in Pairs : member'[n] = "creator" => Owner[n[1]] = n[2]
        /\ \A p \in Projects : Exists(p)' => member'[<<p, Owner[p]>>] = "creator"
        /\ \A n \in Pairs : ~ (Exists(n[1])' /\ n[2] \in users') => member'[n] = "none"
    BY <1>2, <2>1, JoinedFacts, JoinsTInv DEF Joined
  <2>3. req' \in [Requests -> Request] /\ RequestsOK'
    BY <1>2, <2>1, JoinedFacts, BecomesOK DEF TInv
  <2>4. Fields'
    BY <2>1, <2>2, <2>3 DEF TInv, Fields
  <2>5. NamesPairs' /\ OnePending' /\ SwapsOK'
    BY <2>1 DEF TInv, NamesPairs, OnePending, SwapsOK, PendingFor, Pair, Known, Exists
  <2>6. NoDangling'
    BY <2>1, <2>2 DEF TInv, NoDangling, PendingFor, Pair, Exists
  <2>7. CreatorsOK'
    BY <2>1, <2>2 DEF TInv, CreatorsOK, Known, Exists
  <2> QED BY <2>3, <2>4, <2>5, <2>6, <2>7 DEF TInv
<1> QED BY <1>1, <1>2, JoinKinds

LEMMA NextTInv == TInv /\ [Next]_vars => TInv'
<1> SUFFICES ASSUME TInv, [Next]_vars PROVE TInv'
  OBVIOUS
<1>1. CASE Quiet
  BY <1>1, QuietTInv
<1>2. CASE Writes
  BY <1>2, BlockTInv, UnblockTInv, DeleteTInv, AcceptSwapTInv, InsertTInv, RespondTInv, WelcomeTInv,
     JoinTInv DEF Writes
<1> QED BY <1>1, <1>2, StepKinds

LEMMA TInvHolds == Spec => []TInv
BY InitTInv, NextTInv, PTL DEF Spec

\* Types, the foreign keys, and the index: however requests of the two kinds overlap,
\* one invitation is pending for a person and a project.
THEOREM Typed == Spec => []TypeOK
BY TInvHolds, TInvTypeOK, PTL

--------------------------------------------------------------------------
(* Answers are final. *)

LEMMA RowsShape ==
  ASSUME TInv, [Next]_vars
  PROVE  RowsMove \/ \E r \in Requests, i \in InviteIds : Inserted(r, i)
<1>1. ASSUME invites' = invites
      PROVE  RowsMove
  BY <1>1 DEF RowsMove, RowMoves, TInv, Fields
<1>2. ASSUME Quiet
      PROVE  RowsMove
  BY <1>1, <1>2 DEF Quiet
<1>3. CASE Writes
  <2>1. ASSUME NEW r \in Requests, NEW i \in InviteIds, InsertInvite(r, i)
        PROVE  RowsMove \/ Inserted(r, i)
    BY <1>2, <2>1, InsertKinds
  <2>2. ASSUME NEW r \in Requests, Welcome(r) \/ InsertMember(r)
        PROVE  RowsMove
    BY <1>1, <2>2 DEF Welcome, InsertMember
  <2>3. ASSUME NEW u \in Users, NEW v \in Users, UnblockUser(u, v)
        PROVE  RowsMove
    BY <1>1, <2>3 DEF UnblockUser
  <2>4. ASSUME NEW m \in Swaps, AcceptSwap(m)
        PROVE  RowsMove
    BY <1>1, <2>4 DEF AcceptSwap
  <2> QED BY <1>3, <2>1, <2>2, <2>3, <2>4, BlockRows, DeleteRows, RespondRows DEF Writes
<1> QED BY <1>2, <1>3, StepKinds

\* AnsweredOnce: an acceptance, a decline and a block may race for a row, in any number
\* of requests, and one of them wins.
THEOREM AnsweredOnceHolds == Spec => AnsweredOnce
<1> DEFINE Final(i) ==
      /\ Known(i) => [invites'[i] EXCEPT !.status = "gone"] = [invites[i] EXCEPT !.status = "gone"]
      /\ invites'[i].status # invites[i].status =>
           \/ invites[i].status = "unborn" /\ invites'[i].status = "pending"
           \/ invites[i].status = "pending" /\ invites'[i].status # "unborn"
           \/ invites'[i].status = "gone"
<1>1. ASSUME TInv, [Next]_vars, NEW i \in InviteIds
      PROVE  Final(i)
  <2>1. invites[i] \in InviteRow
    BY <1>1 DEF TInv, Fields
  <2>2. CASE RowsMove
    <3>1. RowMoves(invites[i], invites'[i])
      BY <2>2 DEF RowsMove
    <3> QED BY <2>1, <3>1 DEF RowMoves, InviteRow
  <2>3. ASSUME NEW r \in Requests, NEW j \in InviteIds, Inserted(r, j)
        PROVE  Final(i)
    <3>1. CASE i = j
      <4>1. invites[i].status = "unborn"
        BY <2>3, <3>1 DEF Inserted, Known
      <4>2. invites'[i].status = "pending"
        BY <1>1, <2>3, <3>1, InsertedFacts
      <4> QED BY <4>1, <4>2 DEF Known
    <3>2. CASE i # j
      <4>1. invites'[i] = invites[i]
        BY <1>1, <2>3, <3>2, InsertedFacts
      <4> QED BY <4>1
    <3> QED BY <3>1, <3>2
  <2> QED BY <1>1, <2>2, <2>3, RowsShape
<1>2. TInv /\ [Next]_vars => [\A i \in InviteIds : Final(i)]_vars
  BY <1>1
<1> QED BY <1>2, TInvHolds, PTL DEF Spec, AnsweredOnce

--------------------------------------------------------------------------
(* Roles and blocks. *)

\* A developer to whom something is still on offer had a role when the offer was made.
LateMember ==
  \A i \in InviteIds :
    invites[i].status = "pending" /\ member[Pair(i)] = "developer" => "member" \in late[i]

RInv == DevelopersWereInvited /\ BlockWithdraws /\ LateMember

\* Steps that leave invitations, their histories and blocks alone, and make no developer.
LEMMA NoDeveloperRInv ==
  ASSUME TInv, RInv, UNCHANGED <<invites, late>>, blocks' \subseteq blocks,
         \A m \in Pairs : member'[m] = "developer" => member[m] = "developer"
  PROVE  RInv'
<1>1. \A i \in InviteIds : invites[i].status = "pending" => Pair(i) \in Pairs
  BY DEF TInv, NamesPairs, Known
<1>2. DevelopersWereInvited'
  BY DEF RInv, DevelopersWereInvited, Pair
<1>3. BlockWithdraws'
  BY DEF RInv, BlockWithdraws, Blocked
<1>4. LateMember'
  BY <1>1 DEF RInv, LateMember, Pair
<1> QED BY <1>2, <1>3, <1>4 DEF RInv

LEMMA BlockRInv ==
  ASSUME TInv, RInv, NEW u \in Users, NEW v \in Users, BlockUser(u, v)
  PROVE  RInv'
<1>1. /\ blocks' = blocks \cup {<<u, v>>} /\ UNCHANGED <<member, late>>
      /\ \A i \in InviteIds :
           invites'[i] = IF /\ invites[i].status = "pending"
                            /\ {Owner[invites[i].project], invites[i].to} = {u, v}
                         THEN [invites[i] EXCEPT !.status = "cancelled"] ELSE invites[i]
  BY DEF BlockUser
<1>2. RowsMove /\ \A i \in InviteIds : invites[i] \in InviteRow
  BY BlockRows DEF TInv, Fields
<1>3. DevelopersWereInvited'
  <2> SUFFICES ASSUME NEW m \in Pairs, member[m] = "developer"
               PROVE  \E i \in InviteIds : /\ invites'[i].status = "accepted"
                                           /\ invites'[i].role = "developer" /\ Pair(i)' = m
    BY <1>1 DEF DevelopersWereInvited
  <2>1. PICK i \in InviteIds : /\ invites[i].status = "accepted"
                               /\ invites[i].role = "developer" /\ Pair(i) = m
    BY DEF RInv, DevelopersWereInvited
  <2> QED BY <1>1, <1>2, <2>1, RowsMoveKeeps
<1>4. BlockWithdraws'
  <2> SUFFICES ASSUME NEW i \in InviteIds, invites'[i].status = "pending",
                      Blocked(Owner[invites[i].project], invites[i].to)'
               PROVE  "block" \in late[i]
    BY <1>1 DEF BlockWithdraws, Blocked
  <2>1. /\ invites'[i] = invites[i] /\ invites[i].status = "pending"
        /\ {Owner[invites[i].project], invites[i].to} # {u, v}
    BY <1>1, <1>2 DEF InviteRow
  <2>2. Blocked(Owner[invites[i].project], invites[i].to)
    BY <1>1, <2>1 DEF Blocked
  <2> QED BY <2>1, <2>2 DEF RInv, BlockWithdraws
<1>5. LateMember'
  <2> SUFFICES ASSUME NEW i \in InviteIds, invites'[i].status = "pending",
                      member[Pair(i)'] = "developer"
               PROVE  "member" \in late[i]
    BY <1>1 DEF LateMember
  <2>1. invites'[i] = invites[i] /\ Pair(i)' = Pair(i)
    BY <1>1, <1>2, RowsMoveKeeps DEF InviteRow
  <2> QED BY <2>1 DEF RInv, LateMember
<1> QED BY <1>3, <1>4, <1>5 DEF RInv

LEMMA DeleteRInv ==
  ASSUME TInv, RInv, NEW u \in Users, DeleteUser(u)
  PROVE  RInv'
<1>1. /\ blocks' \subseteq blocks /\ late' = late
      /\ \A m \in Pairs : member'[m] = IF Mine(m, u) THEN "none" ELSE member[m]
      /\ \A i \in InviteIds :
           invites'[i] = IF Known(i) /\ Mine(Pair(i), u)
                           THEN [invites[i] EXCEPT !.status = "gone"] ELSE invites[i]
  BY DeleteFacts
<1>2. RowsMove /\ \A i \in InviteIds : invites[i] \in InviteRow
  BY DeleteRows DEF TInv, Fields
<1>3. \A i \in InviteIds : invites'[i].status = "pending" =>
        invites'[i] = invites[i] /\ Pair(i)' = Pair(i) /\ Pair(i) \in Pairs
  BY <1>1, <1>2, RowsMoveKeeps DEF InviteRow, TInv, NamesPairs, Known
<1>4. DevelopersWereInvited'
  <2> SUFFICES ASSUME NEW m \in Pairs, member'[m] = "developer"
               PROVE  \E i \in InviteIds : /\ invites'[i].status = "accepted"
                                           /\ invites'[i].role = "developer" /\ Pair(i)' = m
    BY DEF DevelopersWereInvited
  <2>1. ~ Mine(m, u) /\ member[m] = "developer"
    BY <1>1
  <2>2. PICK i \in InviteIds : /\ invites[i].status = "accepted"
                               /\ invites[i].role = "developer" /\ Pair(i) = m
    BY <2>1 DEF RInv, DevelopersWereInvited
  <2> QED BY <1>1, <1>2, <2>1, <2>2, RowsMoveKeeps
<1>5. BlockWithdraws'
  BY <1>1, <1>3 DEF RInv, BlockWithdraws, Blocked
<1>6. LateMember'
  BY <1>1, <1>3 DEF RInv, LateMember
<1> QED BY <1>4, <1>5, <1>6 DEF RInv

LEMMA InsertedRInv ==
  ASSUME TInv, RInv, NEW r \in Requests, NEW i \in InviteIds, Inserted(r, i)
  PROVE  RInv'
<1> DEFINE m == Asked(r)
<1>1. /\ UNCHANGED <<blocks, member>> /\ invites[i].status = "unborn"
      /\ \A j \in InviteIds \ {i} : invites'[j] = invites[j] /\ late'[j] = late[j]
                                   /\ Pair(j)' = Pair(j)
      /\ Pair(i)' = m /\ invites'[i].project = m[1] /\ invites'[i].to = m[2] /\ m \in Pairs
      /\ m[1] = req[r].project /\ m[2] = req[r].user
  <2>1. /\ UNCHANGED <<blocks, member>> /\ invites[i].status = "unborn"
        /\ \A j \in InviteIds \ {i} : late'[j] = late[j]
    BY DEF Inserted, InsertRow, Known, TInv, Fields
  <2>2. /\ \A j \in InviteIds \ {i} : invites'[j] = invites[j]
        /\ Pair(i)' = m /\ invites'[i].project = m[1] /\ invites'[i].to = m[2] /\ m \in Pairs
        /\ m[1] = req[r].project /\ m[2] = req[r].user
    BY InsertedFacts
  <2> QED BY <2>1, <2>2 DEF Pair
<1>2. /\ Blocked(Owner[m[1]], m[2]) => "block" \in late'[i]
      /\ member[m] # "none" => "member" \in late'[i]
  <2>1. late'[i] = {why \in {"block", "member"} :
                      IF why = "block" THEN Blocked(Owner[m[1]], m[2])
                                       ELSE member[<<m[1], m[2]>>] # "none"}
    BY <1>1 DEF Inserted, InsertRow, TInv, Fields
  <2>2. m = <<m[1], m[2]>>
    BY DEF Asked
  <2> HIDE DEF m
  <2> QED BY <2>1, <2>2
<1> HIDE DEF m
<1>3. DevelopersWereInvited'
  <2> SUFFICES ASSUME NEW n \in Pairs, member[n] = "developer"
               PROVE  \E j \in InviteIds : /\ invites'[j].status = "accepted"
                                           /\ invites'[j].role = "developer" /\ Pair(j)' = n
    BY <1>1 DEF DevelopersWereInvited
  <2>1. PICK j \in InviteIds : /\ invites[j].status = "accepted"
                               /\ invites[j].role = "developer" /\ Pair(j) = n
    BY DEF RInv, DevelopersWereInvited
  <2>2. j # i
    BY <1>1, <2>1
  <2> QED BY <1>1, <2>1, <2>2
<1>4. BlockWithdraws'
  BY <1>1, <1>2 DEF RInv, BlockWithdraws, Blocked
<1>5. LateMember'
  BY <1>1, <1>2 DEF RInv, LateMember
<1> QED BY <1>3, <1>4, <1>5 DEF RInv

LEMMA RespondRInv ==
  ASSUME TInv, RInv, NEW r \in Requests, Respond(r)
  PROVE  RInv'
<1>0. PICK i \in InviteIds : i = req[r].invite
  BY DEF TInv, RequestsOK, RequestOK, Respond, At
<1>1. RowsMove /\ UNCHANGED <<blocks, late>> /\ At(r, "respond")
      /\ \A j \in InviteIds : invites[j] \in InviteRow
  BY RespondRows DEF Respond, TInv, Fields
<1>2. \A j \in InviteIds : invites'[j].status = "pending" =>
        invites'[j] = invites[j] /\ Pair(j)' = Pair(j) /\ Pair(j) \in Pairs
  <2> SUFFICES ASSUME NEW j \in InviteIds, invites'[j].status = "pending"
               PROVE  invites'[j] = invites[j] /\ Pair(j)' = Pair(j) /\ Pair(j) \in Pairs
    OBVIOUS
  <2>1. invites'[j] = invites[j]
    BY <1>1, RowMovesKeeps DEF RowsMove
  <2> QED BY <1>1, <2>1, RowsMoveKeeps DEF TInv, NamesPairs, Known
<1>3. \A j \in InviteIds : invites[j].status = "accepted" =>
        invites'[j].status = "accepted" /\ invites'[j].role = invites[j].role /\ Pair(j)' = Pair(j)
  <2> SUFFICES ASSUME NEW j \in InviteIds, invites[j].status = "accepted"
               PROVE  invites'[j] = invites[j]
    BY DEF Pair
  <2> QED BY <1>0, <1>1 DEF Respond, TInv, Fields
<1>4. CASE member' = member
  <2>1. DevelopersWereInvited'
    BY <1>3, <1>4 DEF RInv, DevelopersWereInvited
  <2>2. BlockWithdraws' /\ LateMember'
    BY <1>1, <1>2, <1>4 DEF RInv, BlockWithdraws, LateMember, Blocked
  <2> QED BY <2>1, <2>2 DEF RInv
<1>5. CASE member' # member
  <2>1. /\ invites[i].status = "pending" /\ req[r].arg = "accepted"
        /\ invites' = [invites EXCEPT ![i].status = "accepted"]
        /\ member' = [member EXCEPT ![Pair(i)] = invites[i].role]
    BY <1>0, <1>5 DEF Respond
  <2>2. i \in InviteIds /\ Pair(i) \in Pairs /\ i \in PendingFor(Pair(i))
    BY <1>0, <1>1, <2>1, RespondFacts
  <2>3. /\ invites'[i].status = "accepted" /\ invites'[i].role = invites[i].role
        /\ Pair(i)' = Pair(i)
        /\ \A m \in Pairs : member'[m] = IF m = Pair(i) THEN invites[i].role ELSE member[m]
    BY <1>1, <2>1, <2>2 DEF Pair, InviteRow, TInv, Fields
  <2>4. DevelopersWereInvited'
    <3> SUFFICES ASSUME NEW m \in Pairs, member'[m] = "developer"
                 PROVE  \E j \in InviteIds : /\ invites'[j].status = "accepted"
                                             /\ invites'[j].role = "developer" /\ Pair(j)' = m
      BY DEF DevelopersWereInvited
    <3>1. CASE m = Pair(i)
      BY <2>2, <2>3, <3>1
    <3>2. CASE m # Pair(i)
      BY <1>3, <2>3, <3>2 DEF RInv, DevelopersWereInvited
    <3> QED BY <3>1, <3>2
  <2>5. BlockWithdraws'
    BY <1>1, <1>2 DEF RInv, BlockWithdraws, Blocked
  <2>6. LateMember'
    <3> SUFFICES ASSUME NEW j \in InviteIds, invites'[j].status = "pending",
                        member'[Pair(j)'] = "developer"
                 PROVE  "member" \in late[j]
      BY <1>1 DEF LateMember
    <3>1. invites[j].status = "pending" /\ Pair(j)' = Pair(j) /\ Pair(j) \in Pairs
      BY <1>2
    <3>2. Pair(j) # Pair(i)
      <4>1. SUFFICES ASSUME Pair(j) = Pair(i) PROVE FALSE
        OBVIOUS
      <4>2. {i, j} \subseteq PendingFor(Pair(i))
        BY <2>2, <3>1, <4>1 DEF PendingFor
      <4>3. i = j
        BY <2>2, <4>2 DEF TInv, OnePending
      <4> QED BY <2>3, <4>3
    <3> QED BY <2>3, <3>1, <3>2 DEF RInv, LateMember
  <2> QED BY <2>4, <2>5, <2>6 DEF RInv
<1> QED BY <1>4, <1>5

LEMMA NextRInv == TInv /\ RInv /\ [Next]_vars => RInv'
<1> SUFFICES ASSUME TInv, RInv, [Next]_vars PROVE RInv'
  OBVIOUS
<1>1. ASSUME Quiet
      PROVE  RInv'
  BY <1>1, NoDeveloperRInv DEF Quiet
<1>2. CASE Writes
  <2>1. ASSUME NEW r \in Requests, NEW i \in InviteIds, InsertInvite(r, i)
        PROVE  RInv'
    BY <1>1, <2>1, InsertKinds, InsertedRInv
  <2>2. ASSUME NEW r \in Requests, InsertMember(r)
        PROVE  RInv'
    <3>1. CASE Joined(r)
      <4>1. \A m \in Pairs : member'[m] \in {member[m], "tester"}
        BY <3>1 DEF Joined, TInv, Fields
      <4> QED BY <3>1, <4>1, NoDeveloperRInv DEF Joined
    <3> QED BY <1>1, <2>2, <3>1, JoinKinds
  <2>3. ASSUME NEW r \in Requests, Welcome(r)
        PROVE  RInv'
    BY <2>3, NoDeveloperRInv DEF Welcome
  <2>4. ASSUME NEW u \in Users, NEW v \in Users, UnblockUser(u, v)
        PROVE  RInv'
    BY <2>4, NoDeveloperRInv DEF UnblockUser
  <2>5. ASSUME NEW m \in Swaps, AcceptSwap(m)
        PROVE  RInv'
    <3>1. \A n \in Pairs : member'[n] \in {member[n], "tester"}
      BY <2>5 DEF AcceptSwap, TInv, Fields
    <3> QED BY <2>5, <3>1, NoDeveloperRInv DEF AcceptSwap
  <2> QED BY <1>2, <2>1, <2>2, <2>3, <2>4, <2>5, BlockRInv, DeleteRInv, RespondRInv DEF Writes
<1> QED BY <1>1, <1>2, StepKinds

LEMMA RInvHolds == Spec => []RInv
<1>1. Init => RInv
  BY DEF Init, RInv, DevelopersWereInvited, BlockWithdraws, LateMember, NoInvite
<1> QED BY <1>1, NextRInv, TInvHolds, PTL DEF Spec

\* DevelopersWereInvited: whatever codes, swaps and answers overlap, a developer once
\* accepted an invitation as one, which is still on record.
THEOREM DevelopersWereInvitedHolds == Spec => []DevelopersWereInvited
<1>1. RInv => DevelopersWereInvited
  BY DEF RInv
<1> QED BY <1>1, RInvHolds, PTL

\* BlockWithdraws: only what was inserted behind a block is on offer across it.
THEOREM BlockWithdrawsHolds == Spec => []BlockWithdraws
<1>1. RInv => BlockWithdraws
  BY DEF RInv
<1> QED BY <1>1, RInvHolds, PTL

\* DeveloperKept: only a swap, or an invitation that was late, makes a developer a
\* tester.
THEOREM DeveloperKeptHolds == Spec => DeveloperKept
<1> DEFINE Kept(m) ==
      member[m] = "developer" /\ member'[m] = "tester" =>
        \/ m \in swaps
        \/ \E i \in PendingFor(m) : "member" \in late[i]
<1>1. ASSUME TInv, RInv, [Next]_vars, NEW m \in Pairs
      PROVE  Kept(m)
  <2> SUFFICES ASSUME member[m] = "developer", member'[m] = "tester"
               PROVE  m \in swaps \/ \E i \in PendingFor(m) : "member" \in late[i]
    OBVIOUS
  <2>0. member \in [Pairs -> Roles] /\ member' # member
    BY <1>1 DEF TInv, Fields
  <2>1. ASSUME NEW u \in Users, DeleteUser(u)
        PROVE  FALSE
    BY <2>1, DeleteFacts
  <2>2. ASSUME NEW n \in Swaps, AcceptSwap(n)
        PROVE  m \in swaps
    BY <2>0, <2>2 DEF AcceptSwap
  <2>3. ASSUME NEW r \in Requests, InsertMember(r)
        PROVE  FALSE
    BY <2>0, <2>3 DEF InsertMember
  <2>4. ASSUME NEW r \in Requests, Respond(r)
        PROVE  \E i \in PendingFor(m) : "member" \in late[i]
    <3> DEFINE i == req[r].invite
    <3>1. /\ invites[i].status = "pending" /\ At(r, "respond")
          /\ member' = [member EXCEPT ![Pair(i)] = invites[i].role]
      BY <2>0, <2>4 DEF Respond
    <3>2. i \in InviteIds /\ Pair(i) \in Pairs /\ i \in PendingFor(Pair(i))
      BY <1>1, <3>1, RespondFacts
    <3>3. m = Pair(i)
      BY <2>0, <3>1, <3>2
    <3>4. "member" \in late[i]
      BY <1>1, <3>1, <3>2, <3>3 DEF RInv, LateMember
    <3> QED BY <3>2, <3>3, <3>4
  <2>5. ~ Quiet
    BY <2>0 DEF Quiet
  <2>6. Writes
    BY <1>1, <2>5, StepKinds
  <2> QED BY <2>0, <2>1, <2>2, <2>3, <2>4, <2>6
          DEF Writes, BlockUser, UnblockUser, InsertInvite, Welcome
<1>2. TInv /\ RInv /\ [Next]_vars => [\A m \in Pairs : Kept(m)]_vars
  BY <1>1
<1> QED BY <1>2, TInvHolds, RInvHolds, PTL DEF Spec, DeveloperKept

--------------------------------------------------------------------------
(* Arrivals. *)

Welcoming(r) == req[r].pc = "welcome"

\* What w stands for has happened, and cannot happen again.
Arrived(w) ==
  /\ w \in InviteIds => invites[w].status \in {"accepted", "gone"}
  /\ w \in Pairs => member[w] # "none" \/ ~ (Exists(w[1]) /\ w[2] \in users)

OnceInv ==
  /\ \A r, s \in Requests :
       Welcoming(r) /\ Welcoming(s) /\ Arrival(r) = Arrival(s) => r = s
  /\ \A r \in Requests : Welcoming(r) => told[Arrival(r)] = 0 /\ Arrived(Arrival(r))
  /\ \A w \in Arrivals : told[w] # 0 => Arrived(w)
  /\ WelcomedOnce

LEMMA UsersShrink ==
  ASSUME TInv, [Next]_vars
  PROVE  users' \subseteq users
BY StepKinds DEF Quiet, Writes, BlockUser, UnblockUser, DeleteUser, AcceptSwap,
                 InsertInvite, Respond, Welcome, InsertMember

\* A membership ends only with the account or the project.
LEMMA MemberStays ==
  ASSUME TInv, [Next]_vars, NEW m \in Pairs, member[m] # "none"
  PROVE  member'[m] # "none" \/ ~ (Exists(m[1])' /\ m[2] \in users')
<1>0. member \in [Pairs -> Roles]
  BY DEF TInv, Fields
<1>1. ASSUME member' = member
      PROVE  member'[m] # "none"
  BY <1>1
<1>2. ASSUME NEW u \in Users, DeleteUser(u)
      PROVE  member'[m] # "none" \/ ~ (Exists(m[1])' /\ m[2] \in users')
  BY <1>2, DeleteFacts DEF Mine, Exists
<1>3. ASSUME NEW n \in Swaps, AcceptSwap(n)
      PROVE  member'[m] # "none"
  BY <1>0, <1>3 DEF AcceptSwap
<1>4. ASSUME NEW r \in Requests, InsertMember(r)
      PROVE  member'[m] # "none"
  BY <1>0, <1>4 DEF InsertMember
<1>5. ASSUME NEW r \in Requests, Respond(r)
      PROVE  member'[m] # "none"
  <2>1. PICK i \in InviteIds : i = req[r].invite
    BY <1>5 DEF TInv, RequestsOK, RequestOK, Respond, At
  <2>2. CASE member' # member
    <3>1. /\ invites[i].status = "pending" /\ At(r, "respond")
          /\ member' = [member EXCEPT ![Pair(i)] = invites[i].role]
      BY <1>5, <2>1, <2>2 DEF Respond
    <3>2. invites[i].role # "none"
      BY <2>1, <3>1, RespondFacts
    <3> QED BY <1>0, <3>1, <3>2
  <2> QED BY <1>1, <2>2
<1> QED BY <1>1, <1>2, <1>3, <1>4, <1>5, StepKinds
        DEF Quiet, Writes, BlockUser, UnblockUser, InsertInvite, Welcome

LEMMA ArrivedStays ==
  ASSUME TInv, [Next]_vars, NEW w \in Arrivals, Arrived(w)
  PROVE  Arrived(w)'
<1>1. ASSUME w \in InviteIds
      PROVE  invites'[w].status \in {"accepted", "gone"}
  <2>1. invites[w].status \in {"accepted", "gone"} /\ invites[w] \in InviteRow
    BY <1>1 DEF Arrived, TInv, Fields
  <2>2. CASE RowsMove
    <3>1. RowMoves(invites[w], invites'[w])
      BY <1>1, <2>2 DEF RowsMove
    <3> QED BY <2>1, <3>1 DEF RowMoves, InviteRow
  <2>3. ASSUME NEW r \in Requests, NEW i \in InviteIds, Inserted(r, i)
        PROVE  invites'[w].status \in {"accepted", "gone"}
    <3>1. w # i
      BY <2>1, <2>3 DEF Inserted, Known
    <3>2. invites'[w] = invites[w]
      BY <1>1, <2>3, <3>1, InsertedFacts
    <3> QED BY <2>1, <3>2
  <2> QED BY <2>2, <2>3, RowsShape
<1>2. ASSUME w \in Pairs
      PROVE  member'[w] # "none" \/ ~ (Exists(w[1])' /\ w[2] \in users')
  <2>1. CASE member[w] # "none"
    BY <1>2, <2>1, MemberStays
  <2>2. CASE ~ (Exists(w[1]) /\ w[2] \in users)
    BY <2>2, UsersShrink DEF Exists
  <2> QED BY <1>2, <2>1, <2>2 DEF Arrived
<1> QED BY <1>1, <1>2 DEF Arrived

\* A step that tells nobody and begins no welcome.
LEMMA NoWelcomeOnce ==
  ASSUME TInv, OnceInv, [Next]_vars, told' = told,
         \A r \in Requests : Welcoming(r)' => req'[r] = req[r]
  PROVE  OnceInv'
<1>1. ASSUME NEW r \in Requests, Welcoming(r)'
      PROVE  /\ Welcoming(r) /\ Arrival(r)' = Arrival(r) /\ Arrival(r) \in Arrivals
             /\ told[Arrival(r)] = 0 /\ Arrived(Arrival(r))'
  <2>1. Welcoming(r) /\ Arrival(r)' = Arrival(r)
    BY <1>1 DEF Welcoming, Arrival, Asked
  <2>2. Arrival(r) \in Arrivals
    BY <2>1, ArrivalType DEF Welcoming
  <2>3. told[Arrival(r)] = 0 /\ Arrived(Arrival(r))
    BY <2>1 DEF OnceInv
  <2>4. PICK w \in Arrivals : w = Arrival(r)
    BY <2>2
  <2>5. Arrived(w)'
    BY <2>3, <2>4, ArrivedStays
  <2> QED BY <2>1, <2>2, <2>3, <2>4, <2>5
<1>2. \A w \in Arrivals : told'[w] # 0 => Arrived(w)'
  BY ArrivedStays DEF OnceInv
<1> QED BY <1>1, <1>2 DEF OnceInv, WelcomedOnce

\* A step that brings somebody, and begins the welcome.
LEMMA BeginWelcomeOnce ==
  ASSUME TInv, OnceInv, [Next]_vars, told' = told,
         NEW r \in Requests, NEW w \in Arrivals, ~ Arrived(w), Arrived(w)',
         Arrival(r)' = w, \A s \in Requests \ {r} : req'[s] = req[s]
  PROVE  OnceInv'
<1>1. ASSUME NEW s \in Requests, s # r, Welcoming(s)'
      PROVE  /\ Welcoming(s) /\ Arrival(s)' = Arrival(s) /\ Arrival(s) \in Arrivals
             /\ told[Arrival(s)] = 0 /\ Arrived(Arrival(s))' /\ Arrival(s)' # w
  <2>1. Welcoming(s) /\ Arrival(s)' = Arrival(s)
    BY <1>1 DEF Welcoming, Arrival, Asked
  <2>2. Arrival(s) \in Arrivals
    BY <2>1, ArrivalType DEF Welcoming
  <2>3. told[Arrival(s)] = 0 /\ Arrived(Arrival(s))
    BY <2>1 DEF OnceInv
  <2>4. PICK v \in Arrivals : v = Arrival(s)
    BY <2>2
  <2>5. Arrived(v)' /\ v # w
    BY <2>3, <2>4, ArrivedStays
  <2> QED BY <2>1, <2>2, <2>3, <2>4, <2>5
<1>2. told[w] = 0
  BY DEF OnceInv
<1>3. \A v \in Arrivals : told'[v] # 0 => Arrived(v)'
  BY ArrivedStays DEF OnceInv
<1>4. \A s \in Requests : Welcoming(s)' => told'[Arrival(s)'] = 0 /\ Arrived(Arrival(s))'
  BY <1>1, <1>2
<1>5. \A s, t \in Requests :
        Welcoming(s)' /\ Welcoming(t)' /\ Arrival(s)' = Arrival(t)' => s = t
  BY <1>1 DEF OnceInv
<1> QED BY <1>3, <1>4, <1>5 DEF OnceInv, WelcomedOnce

LEMMA WelcomeOnce ==
  ASSUME TInv, OnceInv, NEW r \in Requests, Welcome(r), [Next]_vars
  PROVE  OnceInv'
<1>1. Welcoming(r) /\ told \in [Arrivals -> Nat] /\ req \in [Requests -> Request]
  BY DEF Welcome, At, Welcoming, TInv, Fields
<1>2. PICK w \in Arrivals : w = Arrival(r)
  BY <1>1, ArrivalType DEF Welcoming
<1>3. told[w] = 0 /\ Arrived(w)
  BY <1>1, <1>2 DEF OnceInv
<1>4. told' = told \/ told' = [told EXCEPT ![w] = 1]
  BY <1>1, <1>2, <1>3 DEF Welcome
<1>5. ~ Welcoming(r)' /\ \A s \in Requests \ {r} : req'[s] = req[s]
  BY <1>1, IdleOK DEF Welcome, Finish, Welcoming
<1>6. ASSUME NEW s \in Requests, Welcoming(s)'
      PROVE  /\ s # r /\ Welcoming(s) /\ Arrival(s)' = Arrival(s)
             /\ told'[Arrival(s)] = 0 /\ Arrived(Arrival(s))'
  <2>1. s # r /\ Welcoming(s) /\ Arrival(s)' = Arrival(s)
    BY <1>5, <1>6 DEF Welcoming, Arrival, Asked
  <2>2. PICK v \in Arrivals : v = Arrival(s)
    BY <2>1, ArrivalType DEF Welcoming
  <2>3. told[v] = 0 /\ Arrived(v) /\ v # w
    BY <1>1, <1>2, <2>1, <2>2 DEF OnceInv
  <2>4. Arrived(v)' /\ told'[v] = 0
    BY <1>1, <1>4, <2>3, ArrivedStays
  <2> QED BY <2>1, <2>2, <2>4
<1>7. \A v \in Arrivals : told'[v] <= 1 /\ (told'[v] # 0 => Arrived(v)')
  BY <1>1, <1>3, <1>4, ArrivedStays DEF OnceInv, WelcomedOnce
<1>8. \A s, t \in Requests :
        Welcoming(s)' /\ Welcoming(t)' /\ Arrival(s)' = Arrival(t)' => s = t
  BY <1>6 DEF OnceInv
<1> QED BY <1>6, <1>7, <1>8 DEF OnceInv, WelcomedOnce

LEMMA FinishBegins ==
  ASSUME TInv, NEW r \in Requests, NEW q \in Request, q.pc # "welcome", Becomes(r, q)
  PROVE  \A s \in Requests : Welcoming(s)' => req'[s] = req[s]
BY DEF Becomes, Welcoming, TInv, Fields

LEMMA RespondOnce ==
  ASSUME TInv, OnceInv, NEW r \in Requests, Respond(r), [Next]_vars
  PROVE  OnceInv'
<1>1. told' = told /\ At(r, "respond")
  BY DEF Respond
<1>2. CASE Finish(r)
  <2>1. \A s \in Requests : Welcoming(s)' => req'[s] = req[s]
    BY <1>2, FinishOK, FinishBegins, IdleOK DEF TInv
  <2> QED BY <1>1, <2>1, NoWelcomeOnce
<1>3. CASE ~ Finish(r)
  <2>1. PICK i \in InviteIds : i = req[r].invite
    BY <1>1 DEF TInv, RequestsOK, RequestOK, At
  <2>2. /\ invites[i].status = "pending" /\ req[r].arg = "accepted"
        /\ invites' = [invites EXCEPT ![i].status = "accepted"]
        /\ req' = [req EXCEPT ![r].pc = "welcome", ![r].project = invites[i].project]
    BY <1>3, <2>1 DEF Respond
  <2>3. invites \in [InviteIds -> InviteRow] /\ req \in [Requests -> Request]
    BY DEF TInv, Fields
  <2>4. i \notin Pairs /\ i # None /\ i \in Arrivals
    BY InvitationAssumption DEF Pairs, Arrivals
  <2>5. invites'[i].status = "accepted"
    BY <2>2, <2>3 DEF InviteRow
  <2>6. ~ Arrived(i) /\ Arrived(i)'
    BY <2>2, <2>4, <2>5 DEF Arrived
  <2>7. req'[r].invite = i /\ \A s \in Requests \ {r} : req'[s] = req[s]
    BY <2>1, <2>2, <2>3 DEF Request
  <2>8. Arrival(r)' = i
    BY <2>4, <2>7 DEF Arrival
  <2> QED BY <1>1, <2>4, <2>6, <2>7, <2>8, BeginWelcomeOnce
<1> QED BY <1>2, <1>3

LEMMA JoinOnce ==
  ASSUME TInv, OnceInv, NEW r \in Requests, Joined(r), [Next]_vars
  PROVE  OnceInv'
<1>1. told' = told /\ users' = users /\ member \in [Pairs -> Roles] /\ member[Asked(r)] = "none"
      /\ member' = [member EXCEPT ![Asked(r)] = "tester"]
  BY DEF Joined, TInv, Fields
<1>2. PICK w \in Pairs : w = Asked(r)
  BY JoinedFacts
<1>3. w \notin InviteIds /\ w \in Arrivals
  BY <1>2, InvitationAssumption DEF Pairs, Arrivals
<1>4. Exists(w[1]) /\ w[2] \in users /\ member[w] = "none" /\ member'[w] = "tester"
  BY <1>1, <1>2, JoinedFacts
<1>5. ~ Arrived(w) /\ Arrived(w)'
  BY <1>3, <1>4 DEF Arrived
<1>6. Arrival(r)' = w
  BY <1>2, JoinedFacts DEF Arrival, Asked
<1>7. \A s \in Requests \ {r} : req'[s] = req[s]
  BY DEF Joined, TInv, Fields
<1> QED BY <1>1, <1>3, <1>5, <1>6, <1>7, BeginWelcomeOnce

LEMMA NextOnce == TInv /\ OnceInv /\ [Next]_vars => OnceInv'
<1> SUFFICES ASSUME TInv, OnceInv, [Next]_vars PROVE OnceInv'
  OBVIOUS
<1>1. ASSUME req' = req, told' = told
      PROVE  OnceInv'
  BY <1>1, NoWelcomeOnce
<1>2. ASSUME Quiet
      PROVE  OnceInv'
  <2>1. told' = told
    BY <1>2 DEF Quiet
  <2>2. ASSUME NEW r \in Requests, NEW q \in Request, q.pc # "welcome", Becomes(r, q)
        PROVE  OnceInv'
    BY <2>1, <2>2, FinishBegins, NoWelcomeOnce
  <2> QED BY <1>1, <1>2, <2>1, <2>2 DEF Quiet
<1>3. ASSUME NEW r \in Requests, NEW i \in InviteIds, InsertInvite(r, i)
      PROVE  OnceInv'
  <2>1. told' = told /\ Becomes(r, Idle)
    BY <1>3, FinishOK DEF InsertInvite, TInv
  <2> QED BY <2>1, IdleOK, FinishBegins, NoWelcomeOnce
<1>4. ASSUME NEW r \in Requests, InsertMember(r)
      PROVE  OnceInv'
  BY <1>2, <1>4, JoinKinds, JoinOnce
<1> QED BY <1>1, <1>2, <1>3, <1>4, RespondOnce, WelcomeOnce, StepKinds
        DEF Writes, BlockUser, UnblockUser, DeleteUser, AcceptSwap

\* WelcomedOnce: any number of taps on an invite link and of answers to an invitation
\* may overlap, and of each arrival people hear once.
THEOREM WelcomedOnceHolds == Spec => []WelcomedOnce
<1>1. Init => OnceInv
  BY DEF Init, OnceInv, Welcoming, WelcomedOnce, Idle
<1>2. OnceInv => WelcomedOnce
  BY DEF OnceInv
<1> QED BY <1>1, <1>2, NextOnce, TInvHolds, PTL DEF Spec

--------------------------------------------------------------------------
(* Invitations implements Membership. *)

\* What is on offer is what the one pending row says.
OfferedOK ==
  \A m \in Pairs :
    /\ PendingFor(m) = {} => Offered(m) = "none"
    /\ \A i \in PendingFor(m) : Offered(m) = invites[i].role
    /\ Offered(m) \in {"none", "tester", "developer"}

LEMMA OfferedIs == TInv => OfferedOK
<1> SUFFICES ASSUME TInv, NEW m \in Pairs
             PROVE  /\ PendingFor(m) = {} => Offered(m) = "none"
                    /\ \A i \in PendingFor(m) : Offered(m) = invites[i].role
                    /\ Offered(m) \in {"none", "tester", "developer"}
  BY DEF OfferedOK
<1>1. CASE PendingFor(m) = {}
  BY <1>1 DEF Offered
<1>2. CASE PendingFor(m) # {}
  <2>1. PICK i \in PendingFor(m) : i = CHOOSE j \in PendingFor(m) : TRUE
    BY <1>2
  <2>2. Offered(m) = invites[i].role
    BY <1>2, <2>1 DEF Offered
  <2>3. i \in InviteIds /\ invites[i].role \in {"tester", "developer"}
    BY <2>1 DEF PendingFor, TInv, Fields, InviteRow
  <2>4. \A j \in PendingFor(m) : j = i
    BY <2>1 DEF TInv, OnePending, PendingFor
  <2> QED BY <1>2, <2>2, <2>3, <2>4
<1> QED BY <1>1, <1>2

LEMMA OfferedIsNext == TInv' => OfferedOK'
BY OfferedIs, PTL

\* Steps that leave m's role and, of what is on offer to m, at most take it away.
Less(m) == member'[m] = member[m] /\ Offered(m)' \in {Offered(m), "none"}

LEMMA LessMoves ==
  ASSUME NEW m \in Pairs, Less(m)
  PROVE  Shape!Keep(m) \/ Shape!Withdraw(m)
BY DEF Less, Shape!Keep, Shape!Withdraw

LEMMA RowsMoveOffered ==
  ASSUME TInv, TInv', RowsMove, NEW m \in Pairs
  PROVE  Offered(m)' \in {Offered(m), "none"}
<1>1. CASE PendingFor(m)' = {}
  BY <1>1, OfferedIsNext DEF OfferedOK
<1>2. CASE PendingFor(m)' # {}
  <2>1. PICK i \in PendingFor(m)' : TRUE
    BY <1>2
  <2>2. i \in PendingFor(m) /\ i \in InviteIds
    BY <2>1, RowsMoveKeeps DEF PendingFor
  <2>3. invites'[i].role = invites[i].role
    BY <2>2, RowMovesKeeps DEF RowsMove, TInv, Fields
  <2>4. Offered(m)' = invites'[i].role
    BY <2>1, OfferedIsNext DEF OfferedOK
  <2>5. Offered(m) = invites[i].role
    BY <2>2, OfferedIs DEF OfferedOK
  <2> QED BY <2>3, <2>4, <2>5
<1> QED BY <1>1, <1>2

\* m's move in the abstract specification.
Moves(m) ==
  \/ Shape!Keep(m) \/ Shape!Offer(m) \/ Shape!Withdraw(m) \/ Shape!Take(m)
  \/ Shape!Join(m) \/ Shape!Swap(m) \/ Shape!Leave(m)

LEMMA RowsMoveMoves ==
  ASSUME TInv, TInv', RowsMove, NEW m \in Pairs, member'[m] = member[m]
  PROVE  Moves(m)
BY RowsMoveOffered, LessMoves DEF Less, Moves

LEMMA DeleteMoves ==
  ASSUME TInv, TInv', NEW m \in Pairs, NEW u \in Users, DeleteUser(u)
  PROVE  Moves(m)
<1>1. CASE Mine(m, u)
  <2>1. ~ (Exists(m[1])' /\ m[2] \in users')
    BY <1>1, DeleteFacts DEF Mine, Exists
  <2>2. member'[m] = "none" /\ PendingFor(m)' = {}
    BY <2>1 DEF TInv, NoDangling
  <2>3. Offered(m)' = "none"
    BY <2>2, OfferedIsNext DEF OfferedOK
  <2> QED BY <2>2, <2>3 DEF Moves, Shape!Leave
<1>2. CASE ~ Mine(m, u)
  <2>1. member'[m] = member[m]
    BY <1>2, DeleteFacts
  <2> QED BY <2>1, DeleteRows, RowsMoveMoves
<1> QED BY <1>1, <1>2

LEMMA InsertedMoves ==
  ASSUME TInv, TInv', NEW m \in Pairs, NEW r \in Requests, NEW i \in InviteIds, Inserted(r, i)
  PROVE  Moves(m)
<1>1. /\ member' = member
      /\ PendingFor(m)' = IF m = Asked(r) THEN {i} ELSE PendingFor(m)
      /\ \A j \in InviteIds \ {i} : invites'[j] = invites[j]
      /\ invites'[i].role \in {"tester", "developer"}
  BY InsertedFacts DEF Inserted, InviteRow
<1>2. CASE m = Asked(r)
  <2>1. Offered(m) = "none"
    BY <1>2, OfferedIs DEF Inserted, OfferedOK
  <2>2. Offered(m)' = invites'[i].role
    BY <1>1, <1>2, OfferedIsNext DEF OfferedOK
  <2>3. member[m] # "creator"
    BY <1>2, InsertedFacts DEF TInv, CreatorsOK
  <2>4. Offered(m)' # "none"
    BY <1>1, <2>2
  <2> QED BY <1>1, <2>1, <2>3, <2>4 DEF Moves, Shape!Offer
<1>3. CASE m # Asked(r)
  <2>1. CASE PendingFor(m) = {}
    BY <1>1, <1>3, <2>1, OfferedIs, OfferedIsNext, LessMoves DEF Less, Moves, OfferedOK
  <2>2. ASSUME NEW j \in PendingFor(m)
        PROVE  Moves(m)
    <3>1. j \in InviteIds \ {i}
      BY <2>2 DEF PendingFor, Inserted, Known
    <3>2. Offered(m) = invites[j].role /\ Offered(m)' = invites'[j].role
      BY <1>1, <1>3, <2>2, OfferedIs, OfferedIsNext DEF OfferedOK
    <3> QED BY <1>1, <3>1, <3>2, LessMoves DEF Less, Moves
  <2> QED BY <2>1, <2>2
<1> QED BY <1>2, <1>3

LEMMA RespondMoves ==
  ASSUME TInv, TInv', NEW m \in Pairs, NEW r \in Requests, Respond(r)
  PROVE  Moves(m)
<1>1. CASE member'[m] = member[m]
  BY <1>1, RespondRows, RowsMoveMoves
<1>2. CASE member'[m] # member[m]
  <2>1. PICK i \in InviteIds : i = req[r].invite
    BY DEF TInv, RequestsOK, RequestOK, Respond, At
  <2>2. /\ invites[i].status = "pending" /\ At(r, "respond")
        /\ invites' = [invites EXCEPT ![i].status = "accepted"]
        /\ member' = [member EXCEPT ![Pair(i)] = invites[i].role]
    BY <1>2, <2>1 DEF Respond
  <2>3. m = Pair(i) /\ member'[m] = invites[i].role
    BY <1>2, <2>2 DEF TInv, Fields
  <2>4. /\ i \in PendingFor(m) /\ member[m] # "creator"
        /\ invites[i].role \in {"tester", "developer"}
    BY <2>1, <2>2, <2>3, RespondFacts
  <2>5. Offered(m) = invites[i].role
    BY <2>4, OfferedIs DEF OfferedOK
  <2>6. ASSUME NEW j \in PendingFor(m)'
        PROVE  FALSE
    <3>1. j \in PendingFor(m)
      BY RespondRows, RowsMoveKeeps
    <3>2. j = i
      BY <2>4, <3>1 DEF TInv, OnePending, PendingFor
    <3>3. invites'[i].status = "accepted"
      BY <2>2 DEF TInv, Fields, InviteRow
    <3> QED BY <3>2, <3>3 DEF PendingFor
  <2>7. Offered(m)' = "none"
    BY <2>6, OfferedIsNext DEF OfferedOK
  <2> QED BY <2>3, <2>4, <2>5, <2>7 DEF Moves, Shape!Take
<1> QED BY <1>1, <1>2

\* A membership written by a join or a swap: nothing changes on offer.
LEMMA WrittenMoves ==
  ASSUME TInv, NEW m \in Pairs, NEW n \in Pairs, invites' = invites,
         member' = [member EXCEPT ![n] = "tester"], member[n] # "creator"
  PROVE  Moves(m)
<1>1. Offered(m)' = Offered(m)
  BY DEF Offered, PendingFor, Pair
<1>2. member'[m] = IF m = n THEN "tester" ELSE member[m]
  BY DEF TInv, Fields
<1>3. CASE m = n
  BY <1>1, <1>2, <1>3 DEF Moves, Shape!Swap
<1>4. CASE m # n
  BY <1>1, <1>2, <1>4 DEF Moves, Shape!Keep
<1> QED BY <1>3, <1>4

LEMMA NextMoves ==
  ASSUME TInv, TInv', [Next]_vars, NEW m \in Pairs
  PROVE  Moves(m)
<1>1. ASSUME RowsMove, member' = member
      PROVE  Moves(m)
  BY <1>1, RowsMoveMoves
<1>2. ASSUME invites' = invites, member' = member
      PROVE  Moves(m)
  BY <1>1, <1>2 DEF RowsMove, RowMoves, TInv, Fields
<1>3. ASSUME Quiet
      PROVE  Moves(m)
  BY <1>2, <1>3 DEF Quiet
<1>4. ASSUME NEW u \in Users, NEW v \in Users, BlockUser(u, v)
      PROVE  Moves(m)
  BY <1>1, <1>4, BlockRows DEF BlockUser
<1>5. ASSUME NEW n \in Swaps, AcceptSwap(n)
      PROVE  Moves(m)
  <2>1. n \in Pairs /\ member[n] # "creator"
    BY <1>5 DEF TInv, SwapsOK, CreatorsOK, AcceptSwap
  <2> QED BY <1>5, <2>1, WrittenMoves DEF AcceptSwap
<1>6. ASSUME NEW r \in Requests, InsertMember(r)
      PROVE  Moves(m)
  <2>1. CASE Joined(r)
    BY <2>1, JoinedFacts, WrittenMoves DEF Joined
  <2> QED BY <1>3, <1>6, <2>1, JoinKinds
<1>7. ASSUME NEW r \in Requests, NEW i \in InviteIds, InsertInvite(r, i)
      PROVE  Moves(m)
  BY <1>3, <1>7, InsertKinds, InsertedMoves
<1> QED BY <1>2, <1>3, <1>4, <1>5, <1>6, <1>7, DeleteMoves, RespondMoves, StepKinds
        DEF Writes, UnblockUser, Welcome

\* Membership is implemented: whatever statements of requests overlap, for each person
\* a role and an offer move as one transaction each would move them.
THEOREM MembershipRefined == Spec => MembershipSpec
<1>1. Init => Shape!Init
  <2> SUFFICES ASSUME Init PROVE Shape!Init
    OBVIOUS
  <2>1. \A m \in Pairs : PendingFor(m) = {}
    BY DEF Init, PendingFor, NoInvite
  <2>2. \A m \in Pairs : Offered(m) = "none"
    BY <2>1 DEF Offered
  <2> QED BY <2>2 DEF Init, Shape!Init
<1>2. TInv /\ TInv' /\ [Next]_vars => Shape!Next
  <2> SUFFICES ASSUME TInv, TInv', [Next]_vars PROVE Shape!Next
    OBVIOUS
  <2>1. member' \in [Pairs -> Shape!Roles]
    BY DEF TInv, Fields, Roles, Shape!Roles, Shape!Offers
  <2>2. [m \in Pairs |-> Offered(m)]' \in [Pairs -> Shape!Offers]
    BY OfferedIsNext DEF Shape!Offers, OfferedOK
  <2> QED BY <2>1, <2>2, NextMoves DEF Shape!Next, Moves
<1> QED BY <1>1, <1>2, TInvHolds, PTL DEF Spec, MembershipSpec, Shape!Spec
===============================================================================
