---------------------------- MODULE Invitations ----------------------------
(***************************************************************************)
(* How people come to take part in a project (store/testers.go,            *)
(* store/projects.go and their handlers): the creator invites a tester of  *)
(* the marketplace, or anybody by email, who accepts or declines; an       *)
(* invite code joins without an invitation; and a swap brings a tester.    *)
(*                                                                         *)
(* A marketplace invitation is four statements, an email invitation and a  *)
(* join are two each: each that reads or writes what another may change is *)
(* an action.  The answer is a transaction that holds the row.             *)
(* A restart of the server is Abandon for every request.                   *)
(***************************************************************************)
EXTENDS FiniteSets, Naturals

CONSTANTS
  Users,      \* ids of accounts, each given out once
  Projects,   \* projects
  Owner,      \* Owner[p]: the creator of p, who never changes
  InviteIds,  \* ids of tester_invitations rows, each given out once
  Requests,   \* HTTP requests that may be in flight together
  Swaps,      \* bound: the <<p, u>> for which a swap is pending at the start
  Blockers,   \* bound: the users who block others
  None

ASSUME InvitationAssumption ==
  /\ Owner \in [Projects -> Users]
  /\ None \notin Users \cup Projects \cup InviteIds
  /\ InviteIds \cap (Projects \X Users) = {}
  /\ Swaps \subseteq {m \in Projects \X Users : Owner[m[1]] # m[2]}
  /\ Blockers \subseteq Users

Pairs == Projects \X Users

VARIABLES
  users,    \* accounts that exist
  open,     \* {u : users.open_to_test of u}
  blocks,   \* user_blocks: {<<u, v>> : u blocks v}
  member,   \* member[<<p, u>>]: u's project_members row of p
  invites,  \* tester_invitations rows
  swaps,    \* the pending swaps that would make u a tester of p
  told,     \* told[w]: how often people were notified of the arrival w
  req,      \* req[r]: the request in slot r
  late      \* history: late[i]: the checks that no longer held when i was inserted

data == <<users, open, blocks, member, invites, swaps, told, late>>

vars == <<data, req>>

--------------------------------------------------------------------------
(* Tables *)

Roles == {"none", "creator", "developer", "tester"}

\* from_user_id is the project's creator.  A row that is gone keeps what a request
\* that read it before knows.
InviteRow ==
  [status  : {"unborn", "pending", "accepted", "declined", "cancelled", "gone"},
   project : Projects \cup {None},
   to      : Users \cup {None},
   role    : {"tester", "developer"}]

NoInvite == [status |-> "unborn", project |-> None, to |-> None, role |-> "tester"]

Known(i) == invites[i].status # "unborn"

Pair(i) == <<invites[i].project, invites[i].to>>

PendingFor(m) == {i \in InviteIds : invites[i].status = "pending" /\ Pair(i) = m}

\* DeleteUser takes the projects with their creator.
Exists(p) == Owner[p] \in users

Blocked(u, v) == <<u, v>> \in blocks \/ <<v, u>> \in blocks

\* An arrival is the acceptance of an invitation, or a membership by code.
Arrivals == InviteIds \cup Pairs

Request ==
  [pc      : {"idle", "open", "member", "blocked", "insert", "email", "respond",
              "welcome", "already", "join"},
   user    : Users \cup {None},     \* the invitee, or who joins
   project : Projects \cup {None},
   invite  : InviteIds \cup {None},
   arg     : {"none", "tester", "developer", "accepted", "declined"}]

Idle == [pc |-> "idle", user |-> None, project |-> None, invite |-> None, arg |-> "none"]

Init ==
  /\ users = Users
  /\ open = {}
  /\ blocks = {}
  /\ member = [m \in Pairs |-> IF Owner[m[1]] = m[2] THEN "creator" ELSE "none"]
  /\ invites = [i \in InviteIds |-> NoInvite]
  /\ swaps = Swaps
  /\ told = [w \in Arrivals |-> 0]
  /\ req = [r \in Requests |-> Idle]
  /\ late = [i \in InviteIds |-> {}]

--------------------------------------------------------------------------
(* People *)

\* UpdateTesterProfile, as far as open_to_test goes.
SetOpenToTest(u) ==
  /\ u \in users
  /\ open' = IF u \in open THEN open \ {u} ELSE open \cup {u}
  /\ UNCHANGED <<users, blocks, member, invites, swaps, told, late, req>>

\* Mutant of BlockUser: only what the blocker was invited to is cancelled.
BlockUserOneWay(u, v) ==
  /\ u \in Blockers /\ u \in users /\ v \in users /\ u # v
  /\ blocks' = blocks \cup {<<u, v>>}
  /\ invites' = [i \in InviteIds |->
                   IF /\ invites[i].status = "pending"
                      /\ Owner[invites[i].project] = v /\ invites[i].to = u
                     THEN [invites[i] EXCEPT !.status = "cancelled"]
                     ELSE invites[i]]
  /\ swaps' = {m \in swaps : {Owner[m[1]], m[2]} # {u, v}}
  /\ UNCHANGED <<users, open, member, told, late, req>>

\* Mutant of BlockUser: answered invitations are cancelled too.
BlockUserRewrites(u, v) ==
  /\ u \in Blockers /\ u \in users /\ v \in users /\ u # v
  /\ blocks' = blocks \cup {<<u, v>>}
  /\ invites' = [i \in InviteIds |->
                   IF /\ invites[i].status \notin {"unborn", "gone"}
                      /\ {Owner[invites[i].project], invites[i].to} = {u, v}
                     THEN [invites[i] EXCEPT !.status = "cancelled"]
                     ELSE invites[i]]
  /\ swaps' = {m \in swaps : {Owner[m[1]], m[2]} # {u, v}}
  /\ UNCHANGED <<users, open, member, told, late, req>>

\* BlockUser: one transaction, which cancels whether or not the block is new.  The
\* look-up of v before it decides only which error a missing account gives.
BlockUser(u, v) ==
  /\ u \in Blockers /\ u \in users /\ v \in users /\ u # v
  /\ blocks' = blocks \cup {<<u, v>>}
  /\ invites' = [i \in InviteIds |->
                   IF /\ invites[i].status = "pending"
                      /\ {Owner[invites[i].project], invites[i].to} = {u, v}
                     THEN [invites[i] EXCEPT !.status = "cancelled"]
                     ELSE invites[i]]
  /\ swaps' = {m \in swaps : {Owner[m[1]], m[2]} # {u, v}}
  /\ UNCHANGED <<users, open, member, told, late, req>>

UnblockUser(u, v) ==
  /\ <<u, v>> \in blocks
  /\ blocks' = blocks \ {<<u, v>>}
  /\ UNCHANGED <<users, open, member, invites, swaps, told, late, req>>

\* DeleteUser: u's projects, and every row that refers to u or to them.
DeleteUser(u) ==
  LET mine(m) == m[2] = u \/ Owner[m[1]] = u IN
  /\ u \in users
  /\ users' = users \ {u}
  /\ open' = open \ {u}
  /\ blocks' = {b \in blocks : u \notin {b[1], b[2]}}
  /\ member' = [m \in Pairs |-> IF mine(m) THEN "none" ELSE member[m]]
  /\ invites' = [i \in InviteIds |->
                   IF Known(i) /\ mine(Pair(i)) THEN [invites[i] EXCEPT !.status = "gone"]
                                                ELSE invites[i]]
  /\ swaps' = {m \in swaps : ~ mine(m)}
  /\ UNCHANGED <<told, late, req>>

\* AcceptTestSwap, as far as one of the two memberships goes: it overwrites the
\* role there is.
AcceptSwap(m) ==
  /\ m \in swaps
  /\ member' = [member EXCEPT ![m] = "tester"]
  /\ swaps' = swaps \ {m}
  /\ UNCHANGED <<users, open, blocks, invites, told, late, req>>

--------------------------------------------------------------------------
(* Inviting *)

Begin(r, request) ==
  /\ req[r].pc = "idle"
  /\ req' = [req EXCEPT ![r] = request]
  /\ UNCHANGED data

Finish(r) == req' = [req EXCEPT ![r] = Idle]

Reply(r) == Finish(r) /\ UNCHANGED data

\* The next statement is pc if ok, and the answer an error if not.
GoIf(r, ok, pc) ==
  /\ IF ok THEN req' = [req EXCEPT ![r].pc = pc] ELSE Finish(r)
  /\ UNCHANGED data

At(r, pc) == req[r].pc = pc

Asked(r) == <<req[r].project, req[r].user>>

\* createTesterInvite and requireMember: the creator of p asks for anybody, themselves
\* and people who are gone included.
AskTester(r, p, u) ==
  /\ Exists(p)
  /\ Begin(r, [Idle EXCEPT !.pc = "open", !.user = u, !.project = p, !.arg = "tester"])

\* "user is not open to testing"
CheckOpen(r) == At(r, "open") /\ GoIf(r, req[r].user \in open, "member")

\* "user is already a member"
CheckMember(r) == At(r, "member") /\ GoIf(r, member[Asked(r)] = "none", "blocked")

\* "this person is blocked"
CheckBlocked(r) ==
  At(r, "blocked") /\ GoIf(r, ~ Blocked(Owner[req[r].project], req[r].user), "insert")

\* INSERT INTO tester_invitations, and which of the other checks would now fail.
InsertRow(i, p, u, role) ==
  /\ invites' = [invites EXCEPT ![i] =
                   [status |-> "pending", project |-> p, to |-> u, role |-> role]]
  /\ late' = [late EXCEPT ![i] =
                {why \in {"block", "member"} :
                   IF why = "block" THEN Blocked(Owner[p], u) ELSE member[<<p, u>>] # "none"}]

\* Mutant of InsertInvite: an invitation may be pending for each role.
InsertInvitePerRole(r, i) ==
  /\ At(r, "insert")
  /\ ~ Known(i)
  /\ IF /\ Exists(req[r].project) /\ req[r].user \in users
        /\ \A j \in PendingFor(Asked(r)) : invites[j].role # req[r].arg
       THEN InsertRow(i, req[r].project, req[r].user, req[r].arg)
       ELSE UNCHANGED <<invites, late>>
  /\ Finish(r)
  /\ UNCHANGED <<users, open, blocks, member, swaps, told>>

\* The partial unique index and the foreign keys may refuse the INSERT; what the
\* reads before it saw is not looked at again.
InsertInvite(r, i) ==
  /\ At(r, "insert")
  /\ ~ Known(i)
  /\ IF Exists(req[r].project) /\ req[r].user \in users /\ PendingFor(Asked(r)) = {}
       THEN InsertRow(i, req[r].project, req[r].user, req[r].arg)
       ELSE UNCHANGED <<invites, late>>
  /\ Finish(r)
  /\ UNCHANGED <<users, open, blocks, member, swaps, told>>

\* addMember and requireMember: the creator invites an address.
AskEmail(r, p, role) ==
  /\ Exists(p)
  /\ Begin(r, [Idle EXCEPT !.pc = "email", !.project = p, !.arg = role])

\* CreateMemberInvitation up to its INSERT: the account u of the address (it is created
\* if there is none; here it is in users from the start, and nobody has used it) and
\* its membership.  Nobody asks about blocks.  The transaction does not keep others
\* from making u a member before the INSERT; it keeps u from being deleted, which an
\* INSERT that fails stands for here as well.
CheckInvitee(r, u) ==
  /\ At(r, "email")
  /\ u \in users
  /\ IF u # Owner[req[r].project] /\ member[<<req[r].project, u>>] = "none"
       THEN req' = [req EXCEPT ![r].pc = "insert", ![r].user = u]
       ELSE Finish(r)
  /\ UNCHANGED data

--------------------------------------------------------------------------
(* Answering *)

\* A caller answers an invitation, whoever it is addressed to.
AskRespond(r, u, i, answer) ==
  /\ u \in users /\ Known(i)
  /\ Begin(r, [Idle EXCEPT !.pc = "respond", !.user = u, !.invite = i, !.arg = answer])

\* Mutant of Respond: either answer makes the caller a member.
RespondAnyway(r) ==
  LET i == req[r].invite IN
  /\ At(r, "respond")
  /\ IF invites[i].status = "pending" /\ invites[i].to = req[r].user
       THEN /\ invites' = [invites EXCEPT ![i].status = req[r].arg]
            /\ member' = [member EXCEPT ![Pair(i)] = invites[i].role]
            /\ req' = [req EXCEPT ![r].pc = "welcome", ![r].project = invites[i].project]
       ELSE UNCHANGED <<invites, member>> /\ Finish(r)
  /\ UNCHANGED <<users, open, blocks, swaps, told, late>>

\* Mutant of Respond: an invitation that was declined or cancelled may still be taken.
RespondAgain(r) ==
  LET i == req[r].invite
      yes == req[r].arg = "accepted"
  IN
  /\ At(r, "respond")
  /\ IF invites[i].status \notin {"gone", "accepted"} /\ invites[i].to = req[r].user
       THEN /\ invites' = [invites EXCEPT ![i].status = req[r].arg]
            /\ member' = IF yes THEN [member EXCEPT ![Pair(i)] = invites[i].role] ELSE member
            /\ IF yes /\ invites[i].role = "tester"
                 THEN req' = [req EXCEPT ![r].pc = "welcome", ![r].project = invites[i].project]
                 ELSE Finish(r)
       ELSE UNCHANGED <<invites, member>> /\ Finish(r)
  /\ UNCHANGED <<users, open, blocks, swaps, told, late>>

\* RespondTesterInvitation: one transaction, which locks the row.  An acceptance
\* overwrites the role there is.
Respond(r) ==
  LET i == req[r].invite
      yes == req[r].arg = "accepted"
  IN
  /\ At(r, "respond")
  /\ IF invites[i].status = "pending" /\ invites[i].to = req[r].user
       THEN /\ invites' = [invites EXCEPT ![i].status = req[r].arg]
            /\ member' = IF yes THEN [member EXCEPT ![Pair(i)] = invites[i].role] ELSE member
            /\ IF yes /\ invites[i].role = "tester"
                 THEN req' = [req EXCEPT ![r].pc = "welcome", ![r].project = invites[i].project]
                 ELSE Finish(r)
       ELSE UNCHANGED <<invites, member>> /\ Finish(r)
  /\ UNCHANGED <<users, open, blocks, swaps, told, late>>

\* What brought the tester of request r.
Arrival(r) == IF req[r].invite # None THEN req[r].invite ELSE Asked(r)

\* onTesterJoined, after GetUser and GetProject: creator and tester are told.
Welcome(r) ==
  /\ At(r, "welcome")
  /\ told' = IF req[r].user \in users /\ Exists(req[r].project)
               THEN [told EXCEPT ![Arrival(r)] = @ + 1] ELSE told
  /\ Finish(r)
  /\ UNCHANGED <<users, open, blocks, member, invites, swaps, late>>

--------------------------------------------------------------------------
(* Joining by invite code *)

\* joinInvite, and the project of the code.  A token outlives its account: u need
\* not exist any more.
AskJoin(r, u, p) ==
  /\ Exists(p)
  /\ Begin(r, [Idle EXCEPT !.pc = "already", !.user = u, !.project = p])

CheckAlready(r) == At(r, "already") /\ GoIf(r, member[Asked(r)] = "none", "join")

\* Mutant of InsertMember: ON CONFLICT DO NOTHING, and joined all the same.
InsertMemberQuietly(r) ==
  LET ok == req[r].user \in users /\ Exists(req[r].project) IN
  /\ At(r, "join")
  /\ member' = IF ok /\ member[Asked(r)] = "none"
                 THEN [member EXCEPT ![Asked(r)] = "tester"] ELSE member
  /\ IF ok THEN req' = [req EXCEPT ![r].pc = "welcome"] ELSE Finish(r)
  /\ UNCHANGED <<users, open, blocks, invites, swaps, told, late>>

\* The INSERT of JoinByInviteCode.  The foreign keys and the primary key may refuse
\* it: who has become a member since the read before it gets a 500.
InsertMember(r) ==
  LET ok == req[r].user \in users /\ Exists(req[r].project) /\ member[Asked(r)] = "none" IN
  /\ At(r, "join")
  /\ member' = IF ok THEN [member EXCEPT ![Asked(r)] = "tester"] ELSE member
  /\ IF ok THEN req' = [req EXCEPT ![r].pc = "welcome"] ELSE Finish(r)
  /\ UNCHANGED <<users, open, blocks, invites, swaps, told, late>>

--------------------------------------------------------------------------
\* A statement fails, the client goes away or the server stops.
Abandon(r) == req[r].pc # "idle" /\ Reply(r)

People(u) ==
  \/ SetOpenToTest(u) \/ DeleteUser(u)
  \/ \E v \in Users : BlockUser(u, v) \/ UnblockUser(u, v)

Ask(r) ==
  \/ \E p \in Projects, u \in Users : AskTester(r, p, u) \/ AskJoin(r, u, p)
  \/ \E p \in Projects, role \in {"tester", "developer"} : AskEmail(r, p, role)
  \/ \E u \in Users, i \in InviteIds, answer \in {"accepted", "declined"} :
       AskRespond(r, u, i, answer)

Statement(r) ==
  \/ CheckOpen(r) \/ CheckMember(r) \/ CheckBlocked(r)
  \/ \E u \in Users : CheckInvitee(r, u)
  \/ \E i \in InviteIds : InsertInvite(r, i)
  \/ Respond(r) \/ Welcome(r)
  \/ CheckAlready(r) \/ InsertMember(r)

Next ==
  \/ \E u \in Users : People(u)
  \/ \E m \in Swaps : AcceptSwap(m)
  \/ \E r \in Requests : Ask(r) \/ Statement(r) \/ Abandon(r)

Spec == Init /\ [][Next]_vars

--------------------------------------------------------------------------
(* Properties *)

\* Types; the foreign keys, by which a deleted account leaves no row behind; and
\* idx_tester_invites_pending: at most one invitation is pending for a person and
\* a project, whichever of the two ways it was made.
TypeOK ==
  /\ users \subseteq Users
  /\ open \subseteq users
  /\ blocks \subseteq users \X users
  /\ member \in [Pairs -> Roles]
  /\ invites \in [InviteIds -> InviteRow]
  /\ swaps \subseteq Swaps
  /\ told \in [Arrivals -> Nat]
  /\ req \in [Requests -> Request]
  /\ late \in [InviteIds -> SUBSET {"block", "member"}]
  /\ \A i \in InviteIds : Known(i) => Pair(i) \in Pairs
  /\ \A m \in Pairs : ~ (Exists(m[1]) /\ m[2] \in users) => member[m] = "none" /\ PendingFor(m) = {}
  /\ \A i, j \in InviteIds : \A m \in Pairs : {i, j} \subseteq PendingFor(m) => i = j

\* The rows behave like one role and one offer per person: no request makes, takes
\* or drops another role than the one on offer, and creators keep theirs.
Offered(m) ==
  IF PendingFor(m) = {} THEN "none" ELSE invites[CHOOSE i \in PendingFor(m) : TRUE].role

Shape == INSTANCE Membership WITH offer <- [m \in Pairs |-> Offered(m)]

MembershipSpec == Shape!Spec

\* Nobody sees a project's bugs as a developer but by an invitation as a developer
\* that they accepted, whatever codes, swaps and other invitations come with it.
DevelopersWereInvited ==
  \A m \in Pairs :
    member[m] = "developer" =>
      \E i \in InviteIds : invites[i].status = "accepted" /\ invites[i].role = "developer" /\ Pair(i) = m

\* A block cancels every invitation between the two, in both directions.  Pending
\* across a block is only what was inserted after it: by an email invitation, which
\* does not ask, or by a request that had asked before.
BlockWithdraws ==
  \A i \in InviteIds :
    invites[i].status = "pending" /\ Blocked(Owner[invites[i].project], invites[i].to) =>
      "block" \in late[i]

\* A developer becomes a tester again only by a swap, or by an invitation that was
\* inserted although its invitee had become a member since the request asked.
DeveloperKept ==
  [][\A m \in Pairs :
       member[m] = "developer" /\ member'[m] = "tester" =>
         \/ m \in swaps
         \/ \E i \in PendingFor(m) : "member" \in late[i]
    ]_vars

\* An answer is final: of an acceptance, a decline and a block that race, one wins,
\* and the row it answers never changes again but to go with its project or people.
AnsweredOnce ==
  [][\A i \in InviteIds :
       /\ Known(i) => [invites'[i] EXCEPT !.status = "gone"] = [invites[i] EXCEPT !.status = "gone"]
       /\ invites'[i].status # invites[i].status =>
            \/ invites[i].status = "unborn" /\ invites'[i].status = "pending"
            \/ invites[i].status = "pending" /\ invites'[i].status # "unborn"
            \/ invites'[i].status = "gone"
    ]_vars

\* Taps on one invite link, answers to one invitation: however many overlap, the
\* creator is told of an arrival once.
WelcomedOnce == \A w \in Arrivals : told[w] <= 1
==========================================================================
