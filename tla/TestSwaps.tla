---------------------------- MODULE TestSwaps ----------------------------
(***************************************************************************)
(* Test-for-test swaps (api/swaps.go, store/swaps.go): the creators of two *)
(* projects agree to test each other's, and the swap is complete once each *)
(* has filed feedback.  With them the blocks that are to keep two people   *)
(* apart (store/safety.go) and the goroutine that api/feedback.go starts   *)
(* for every report to complete swaps.                                     *)
(*                                                                         *)
(* CreateTestSwap is five statements on the pool, a decline or a cancel is *)
(* two, the goroutine is three for every candidate: each one that reads or *)
(* writes what another may change is an action.  Whether the caller is on  *)
(* the Pro plan, and whether the other is open to swaps, may change at any *)
(* time: a "no" is one of the ways a request may end (Abandon).            *)
(***************************************************************************)
EXTENDS Integers, FiniteSets

CONSTANTS
  Users,       \* accounts
  Projects,    \* projects
  Owner,       \* Owner[p]: the creator of p, who never changes
  SwapIds,     \* ids of test_swaps rows, each given out once
  Requests,    \* HTTP requests that may be in flight together
  MaxPending,  \* maxPendingOutgoingSwaps
  Reports,     \* bound: the <<p, u>> for which u files reports on p
  Joins,       \* bound: the <<p, u>> for which u may join p without a swap
  Blockers,    \* bound: the users who block others
  None

ASSUME SwapAssumption ==
  /\ Owner \in [Projects -> Users]
  /\ None \notin Projects \cup SwapIds \cup Users
  /\ Reports \subseteq Projects \X Users
  /\ Joins \subseteq Projects \X Users
  /\ Blockers \subseteq Users
  /\ MaxPending \in Nat \ {0}
  /\ IsFiniteSet(SwapIds)
  /\ IsFiniteSet(Requests)

VARIABLES
  users,   \* accounts that exist
  member,  \* member[<<p, u>>]: u's project_members row of p
  filed,   \* {<<p, u>> : u has a feedback row on p}
  blocks,  \* user_blocks: {<<u, v>> : u blocks v}
  swaps,   \* test_swaps rows
  told,    \* told[s]: how often the pair was notified that s is complete
  req,     \* req[r]: the request in slot r
  fulfil   \* fulfil[<<p, u>>]: maybeFulfillSwaps for u's last report on p

vars == <<users, member, filed, blocks, swaps, told, req, fulfil>>

data == <<users, member, filed, blocks, swaps, told>>

--------------------------------------------------------------------------
(* Tables *)

\* A tester and a developer are both members here.
Roles == {"none", "creator", "member"}

Statuses ==
  {"unborn", "pending", "accepted", "declined", "cancelled", "fulfilled", "gone"}

\* from_user_id and to_user_id are the projects' creators.  A row that is gone
\* keeps its projects, for the goroutines that read it before.
SwapRow ==
  [status : Statuses, from : Projects \cup {None}, to : Projects \cup {None}]

FromUser(s) == Owner[swaps[s].from]

ToUser(s) == Owner[swaps[s].to]

Known(s) == swaps[s].status # "unborn"

\* idx_test_swaps_pending_pair: the projects of a swap, in either direction.
SamePair(s, p, q) == {swaps[s].from, swaps[s].to} = {p, q}

PendingFrom(u) == {s \in SwapIds : swaps[s].status = "pending" /\ FromUser(s) = u}

Blocked(u, v) == <<u, v>> \in blocks \/ <<v, u>> \in blocks

Pairs == Projects \X Users

Steps == {"idle", "blocked", "cap", "member", "insert", "accept", "read", "update"}

Request ==
  [pc   : Steps,
   kind : {"none", "create", "accept", "declined", "cancelled"},
   user : Users \cup {None},
   from : Projects \cup {None},
   to   : Projects \cup {None},
   swap : SwapIds \cup {None}]

Idle ==
  [pc |-> "idle", kind |-> "none", user |-> None, from |-> None, to |-> None, swap |-> None]

Goroutine ==
  [pc   : {"idle", "read", "from", "to", "update", "notify", "lost"},
   todo : SUBSET SwapIds,
   swap : SwapIds \cup {None}]

NoGoroutine(pc) == [pc |-> pc, todo |-> {}, swap |-> None]

Init ==
  /\ users = Users
  /\ member = [m \in Pairs |-> IF Owner[m[1]] = m[2] THEN "creator" ELSE "none"]
  /\ filed = {}
  /\ blocks = {}
  /\ swaps = [s \in SwapIds |-> [status |-> "unborn", from |-> None, to |-> None]]
  /\ told = [s \in SwapIds |-> 0]
  /\ req = [r \in Requests |-> Idle]
  /\ fulfil = [g \in Pairs |-> NoGoroutine("idle")]

--------------------------------------------------------------------------
(* People *)

\* An invite code or an invitation makes u a member of p.
Join(u, p) ==
  /\ <<p, u>> \in Joins
  /\ u \in users /\ Owner[p] \in users
  /\ member[<<p, u>>] = "none"
  /\ member' = [member EXCEPT ![<<p, u>>] = "member"]
  /\ UNCHANGED <<users, filed, blocks, swaps, told, req, fulfil>>

\* createFeedback commits the report, then starts the goroutine.  (Bound: one
\* goroutine at a time for the reports of one author on one project.)
File(u, p) ==
  LET g == <<p, u>> IN
  /\ g \in Reports
  /\ member[g] # "none"
  /\ fulfil[g].pc \in {"idle", "lost"}
  /\ filed' = filed \cup {g}
  /\ fulfil' = [fulfil EXCEPT ![g] = NoGoroutine("read")]
  /\ UNCHANGED <<users, member, blocks, swaps, told, req>>

\* BlockUser: one transaction, which cancels whether or not the block is new.
BlockUser(u, v) ==
  /\ u \in users \cap Blockers /\ v \in users \ {u}
  /\ blocks' = blocks \cup {<<u, v>>}
  /\ swaps' = [s \in SwapIds |->
                 IF swaps[s].status = "pending" /\ {FromUser(s), ToUser(s)} = {u, v}
                   THEN [swaps[s] EXCEPT !.status = "cancelled"]
                   ELSE swaps[s]]
  /\ UNCHANGED <<users, member, filed, told, req, fulfil>>

UnblockUser(u, v) ==
  /\ <<u, v>> \in blocks
  /\ blocks' = blocks \ {<<u, v>>}
  /\ UNCHANGED <<users, member, filed, swaps, told, req, fulfil>>

\* DeleteUser: u's projects, and every row that refers to u or to them.
DeleteUser(u) ==
  LET mine(g) == g[2] = u \/ Owner[g[1]] = u IN
  /\ u \in users
  /\ users' = users \ {u}
  /\ member' = [g \in Pairs |-> IF mine(g) THEN "none" ELSE member[g]]
  /\ filed' = {g \in filed : ~ mine(g)}
  /\ blocks' = {b \in blocks : u \notin {b[1], b[2]}}
  /\ swaps' = [s \in SwapIds |->
                 IF Known(s) /\ u \in {FromUser(s), ToUser(s)}
                   THEN [swaps[s] EXCEPT !.status = "gone"]
                   ELSE swaps[s]]
  /\ UNCHANGED <<told, req, fulfil>>

--------------------------------------------------------------------------
(* Requests *)

Begin(r, request) ==
  /\ req[r].pc = "idle"
  /\ req' = [req EXCEPT ![r] = request]
  /\ UNCHANGED <<data, fulfil>>

\* The first two reads of CreateTestSwap: who created the two projects.
AskSwap(r, u, p, q) ==
  /\ u \in users /\ Owner[p] = u
  /\ Owner[q] \in users \ {u}
  /\ Begin(r, [Idle EXCEPT !.pc = "blocked", !.kind = "create",
                           !.user = u, !.from = p, !.to = q])

\* A caller answers a swap the list showed, whoever its parties are.
AskAccept(r, u, s) ==
  /\ u \in users /\ Known(s)
  /\ Begin(r, [Idle EXCEPT !.pc = "accept", !.kind = "accept", !.user = u, !.swap = s])

AskEnd(r, u, k, s) ==
  /\ u \in users /\ Known(s)
  /\ Begin(r, [Idle EXCEPT !.pc = "read", !.kind = k, !.user = u, !.swap = s])

Finish(r) == req' = [req EXCEPT ![r] = Idle]

Reply(r) == Finish(r) /\ UNCHANGED <<data, fulfil>>

Go(r, pc) ==
  /\ req' = [req EXCEPT ![r].pc = pc]
  /\ UNCHANGED <<data, fulfil>>

CheckBlocked(r) ==
  /\ req[r].pc = "blocked"
  /\ IF Blocked(req[r].user, Owner[req[r].to]) THEN Reply(r) ELSE Go(r, "cap")

\* Mutant of CheckCap: one too many.
CheckCapOffByOne(r) ==
  /\ req[r].pc = "cap"
  /\ IF Cardinality(PendingFrom(req[r].user)) > MaxPending THEN Reply(r) ELSE Go(r, "member")

\* "too many pending swaps"
CheckCap(r) ==
  /\ req[r].pc = "cap"
  /\ IF Cardinality(PendingFrom(req[r].user)) >= MaxPending THEN Reply(r) ELSE Go(r, "member")

\* "already members of one of these projects"
CheckMember(r) ==
  /\ req[r].pc = "member"
  /\ IF \/ member[<<req[r].from, Owner[req[r].to]>>] # "none"
        \/ member[<<req[r].to, req[r].user>>] # "none"
       THEN Reply(r)
       ELSE Go(r, "insert")

\* Mutant of InsertSwap: the index knows the pair in one direction only.
InsertSwapDirected(r, s) ==
  LET p == req[r].from
      q == req[r].to
  IN
  /\ req[r].pc = "insert"
  /\ ~ Known(s)
  /\ swaps' = IF /\ {Owner[p], Owner[q]} \subseteq users
                 /\ \A t \in SwapIds : swaps[t].status = "pending" =>
                                         ~ (swaps[t].from = p /\ swaps[t].to = q)
                THEN [swaps EXCEPT ![s] = [status |-> "pending", from |-> p, to |-> q]]
                ELSE swaps
  /\ Finish(r)
  /\ UNCHANGED <<users, member, filed, blocks, told, fulfil>>

\* INSERT INTO test_swaps, which the partial unique index and the foreign keys
\* may refuse.  Nothing that the reads before it saw is looked at again.
InsertSwap(r, s) ==
  LET p == req[r].from
      q == req[r].to
  IN
  /\ req[r].pc = "insert"
  /\ ~ Known(s)
  /\ swaps' = IF /\ {Owner[p], Owner[q]} \subseteq users
                 /\ \A t \in SwapIds : swaps[t].status = "pending" => ~ SamePair(t, p, q)
                THEN [swaps EXCEPT ![s] = [status |-> "pending", from |-> p, to |-> q]]
                ELSE swaps
  /\ Finish(r)
  /\ UNCHANGED <<users, member, filed, blocks, told, fulfil>>

\* Mutant of AcceptSwap: each party joins the project that is already theirs.
AcceptSwapOwn(r) ==
  LET s == req[r].swap IN
  /\ req[r].pc = "accept"
  /\ IF swaps[s].status = "pending" /\ ToUser(s) = req[r].user
       THEN /\ swaps' = [swaps EXCEPT ![s].status = "accepted"]
            /\ member' = [member EXCEPT ![<<swaps[s].from, FromUser(s)>>] = "member",
                                        ![<<swaps[s].to, ToUser(s)>>] = "member"]
       ELSE UNCHANGED <<swaps, member>>
  /\ Finish(r)
  /\ UNCHANGED <<users, filed, blocks, told, fulfil>>

\* Mutant of AcceptSwap: only the recipient becomes a member.
AcceptSwapHalf(r) ==
  LET s == req[r].swap IN
  /\ req[r].pc = "accept"
  /\ IF swaps[s].status = "pending" /\ ToUser(s) = req[r].user
       THEN /\ swaps' = [swaps EXCEPT ![s].status = "accepted"]
            /\ member' = [member EXCEPT ![<<swaps[s].from, ToUser(s)>>] = "member"]
       ELSE UNCHANGED <<swaps, member>>
  /\ Finish(r)
  /\ UNCHANGED <<users, filed, blocks, told, fulfil>>

\* AcceptTestSwap: one transaction, which locks the row.  It asks who the caller
\* is and whether the swap still waits, and nothing else.
AcceptSwap(r) ==
  LET s == req[r].swap IN
  /\ req[r].pc = "accept"
  /\ IF swaps[s].status = "pending" /\ ToUser(s) = req[r].user
       THEN /\ swaps' = [swaps EXCEPT ![s].status = "accepted"]
            /\ member' = [member EXCEPT ![<<swaps[s].to, FromUser(s)>>] = "member",
                                        ![<<swaps[s].from, ToUser(s)>>] = "member"]
       ELSE UNCHANGED <<swaps, member>>
  /\ Finish(r)
  /\ UNCHANGED <<users, filed, blocks, told, fulfil>>

\* respondPendingSwap reads the row: the recipient may decline it, the proposer
\* cancel it ...
ReadSwap(r) ==
  LET s == req[r].swap IN
  /\ req[r].pc = "read"
  /\ IF /\ swaps[s].status = "pending"
        /\ req[r].user = IF req[r].kind = "declined" THEN ToUser(s) ELSE FromUser(s)
       THEN Go(r, "update")
       ELSE Reply(r)

\* Mutant of UpdateSwap: what the read found is taken to be so still.
UpdateSwapStale(r) ==
  LET s == req[r].swap IN
  /\ req[r].pc = "update"
  /\ swaps' = IF swaps[s].status # "gone" THEN [swaps EXCEPT ![s].status = req[r].kind]
                                          ELSE swaps
  /\ Finish(r)
  /\ UNCHANGED <<users, member, filed, blocks, told, fulfil>>

\* ... and updates it if it still waits.
UpdateSwap(r) ==
  LET s == req[r].swap IN
  /\ req[r].pc = "update"
  /\ swaps' = IF swaps[s].status = "pending" THEN [swaps EXCEPT ![s].status = req[r].kind]
                                             ELSE swaps
  /\ Finish(r)
  /\ UNCHANGED <<users, member, filed, blocks, told, fulfil>>

\* The client goes away, a statement fails, the caller is not on the Pro plan or
\* the other is not open to swaps: the request ends between two statements.
Abandon(r) ==
  /\ req[r].pc # "idle"
  /\ Reply(r)

--------------------------------------------------------------------------
(* MaybeFulfillSwapsForFeedback, in the goroutine of g = <<p, u>> *)

\* An accepted swap that u's report on p may complete.
Concerns(g, s) ==
  \/ swaps[s].from = g[1] /\ ToUser(s) = g[2]
  \/ swaps[s].to = g[1] /\ FromUser(s) = g[2]

FromDone(s) == <<swaps[s].to, FromUser(s)>> \in filed

ToDone(s) == <<swaps[s].from, ToUser(s)>> \in filed

At(g, pc) == fulfil[g].pc = pc

\* Through with swap s, successful or not: on to the next candidate.
Done(g, s) ==
  LET rest == fulfil[g].todo \ {s} IN
  fulfil' = [fulfil EXCEPT ![g] =
               IF rest = {} THEN NoGoroutine("idle")
                            ELSE [pc |-> "from", todo |-> rest, swap |-> None]]

ReadCandidates(g) ==
  LET cands == {s \in SwapIds : swaps[s].status = "accepted" /\ Concerns(g, s)} IN
  /\ At(g, "read")
  /\ fulfil' = [fulfil EXCEPT ![g] =
                  IF cands = {} THEN NoGoroutine("idle")
                                ELSE [pc |-> "from", todo |-> cands, swap |-> None]]
  /\ UNCHANGED <<data, req>>

\* Mutant of CheckFromDone: a candidate that is not complete ends the loop.
CheckFromDoneStops(g) ==
  /\ At(g, "from")
  /\ \E s \in fulfil[g].todo :
       fulfil' = IF FromDone(s) THEN [fulfil EXCEPT ![g].pc = "to", ![g].swap = s]
                                ELSE [fulfil EXCEPT ![g] = NoGoroutine("idle")]
  /\ UNCHANGED <<data, req>>

\* The candidates come in no particular order.
CheckFromDone(g) ==
  /\ At(g, "from")
  /\ \E s \in fulfil[g].todo :
       IF FromDone(s) THEN fulfil' = [fulfil EXCEPT ![g].pc = "to", ![g].swap = s]
                      ELSE Done(g, s)
  /\ UNCHANGED <<data, req>>

\* Mutant of CheckToDone: one report is enough.
CheckToDoneSkipped(g) ==
  /\ At(g, "to")
  /\ fulfil' = [fulfil EXCEPT ![g].pc = "update"]
  /\ UNCHANGED <<data, req>>

CheckToDone(g) ==
  /\ At(g, "to")
  /\ IF ToDone(fulfil[g].swap) THEN fulfil' = [fulfil EXCEPT ![g].pc = "update"]
                               ELSE Done(g, fulfil[g].swap)
  /\ UNCHANGED <<data, req>>

\* Mutant of FulfilSwap: its UPDATE does not look at the status.
FulfilSwapAgain(g) ==
  LET s == fulfil[g].swap IN
  /\ At(g, "update")
  /\ IF swaps[s].status # "gone"
       THEN /\ swaps' = [swaps EXCEPT ![s].status = "fulfilled"]
            /\ fulfil' = [fulfil EXCEPT ![g].pc = "notify"]
       ELSE UNCHANGED swaps /\ Done(g, s)
  /\ UNCHANGED <<users, member, filed, blocks, told, req>>

FulfilSwap(g) ==
  LET s == fulfil[g].swap IN
  /\ At(g, "update")
  /\ IF swaps[s].status = "accepted"
       THEN /\ swaps' = [swaps EXCEPT ![s].status = "fulfilled"]
            /\ fulfil' = [fulfil EXCEPT ![g].pc = "notify"]
       ELSE UNCHANGED swaps /\ Done(g, s)
  /\ UNCHANGED <<users, member, filed, blocks, told, req>>

\* GetTestSwap fails if the row is gone, and ends the loop; else both parties
\* are notified, by one INSERT.
NotifyPair(g) ==
  LET s == fulfil[g].swap IN
  /\ At(g, "notify")
  /\ IF swaps[s].status = "gone"
       THEN UNCHANGED told /\ fulfil' = [fulfil EXCEPT ![g] = NoGoroutine("lost")]
       ELSE told' = [told EXCEPT ![s] = @ + 1] /\ Done(g, s)
  /\ UNCHANGED <<users, member, filed, blocks, swaps, req>>

FulfilStep(g) ==
  ReadCandidates(g) \/ CheckFromDone(g) \/ CheckToDone(g) \/ FulfilSwap(g) \/ NotifyPair(g)

\* A statement fails: the loop ends, and the candidates left are not looked at.
FulfilFail(g) ==
  /\ fulfil[g].pc \notin {"idle", "lost"}
  /\ fulfil' = [fulfil EXCEPT ![g] = NoGoroutine("lost")]
  /\ UNCHANGED <<data, req>>

Restart ==
  /\ req' = [r \in Requests |-> Idle]
  /\ fulfil' = [g \in Pairs |-> IF At(g, "idle") THEN fulfil[g] ELSE NoGoroutine("lost")]
  /\ UNCHANGED data

--------------------------------------------------------------------------
People(u) ==
  \/ \E p \in Projects : Join(u, p) \/ File(u, p)
  \/ \E v \in Users : BlockUser(u, v) \/ UnblockUser(u, v)
  \/ DeleteUser(u)

Ask(r, u) ==
  \/ \E p, q \in Projects : AskSwap(r, u, p, q)
  \/ \E s \in SwapIds : AskAccept(r, u, s)
  \/ \E s \in SwapIds, k \in {"declined", "cancelled"} : AskEnd(r, u, k, s)

Statement(r) ==
  \/ CheckBlocked(r) \/ CheckCap(r) \/ CheckMember(r) \/ \E s \in SwapIds : InsertSwap(r, s)
  \/ AcceptSwap(r) \/ ReadSwap(r) \/ UpdateSwap(r)

Next ==
  \/ \E u \in Users : People(u)
  \/ \E r \in Requests : Statement(r) \/ Abandon(r) \/ \E u \in Users : Ask(r, u)
  \/ \E g \in Pairs : FulfilStep(g) \/ FulfilFail(g)
  \/ Restart

Spec == Init /\ [][Next]_vars

\* A goroutine that is ready runs; nobody need ask for, answer or file anything.
FairSpec == Spec /\ \A g \in Reports : WF_vars(FulfilStep(g))

--------------------------------------------------------------------------
(* Properties *)

\* Types, and the constraints of test_swaps: a row joins projects of two people,
\* and of two projects at most one swap is pending, whoever proposed it.
TypeOK ==
  /\ users \subseteq Users
  /\ member \in [Pairs -> Roles]
  /\ filed \subseteq Pairs
  /\ blocks \subseteq Users \X Users
  /\ swaps \in [SwapIds -> SwapRow]
  /\ told \in [SwapIds -> Nat]
  /\ req \in [Requests -> Request]
  /\ fulfil \in [Pairs -> Goroutine]
  /\ \A s \in SwapIds : Known(s) => /\ {swaps[s].from, swaps[s].to} \subseteq Projects
                                    /\ FromUser(s) # ToUser(s)
  /\ \A s, t \in SwapIds :
       /\ swaps[s].status = "pending" /\ swaps[t].status = "pending"
       /\ SamePair(s, swaps[t].from, swaps[t].to)
       => s = t

\* Who accepts a swap, or is accepted, gets what was promised: each party is a
\* member of the other's project, also after later invitations, blocks and races.
AcceptedAreMembers ==
  \A s \in SwapIds :
    swaps[s].status \in {"accepted", "fulfilled"} =>
      /\ member[<<swaps[s].to, FromUser(s)>>] # "none"
      /\ member[<<swaps[s].from, ToUser(s)>>] # "none"

\* No acceptance takes a project from its creator (the upsert overwrites roles).
CreatorsStay ==
  \A p \in Projects : Owner[p] \in users => member[<<p, Owner[p]>>] = "creator"

\* A swap is complete only if both parties have filed feedback, although the two
\* reads that find it out and the update are three statements.
FulfilledMeansFiled ==
  \A s \in SwapIds : swaps[s].status = "fulfilled" => FromDone(s) /\ ToDone(s)

\* The goroutines of the two last reports may both see the swap complete; the
\* pair is told once all the same, and only of a swap that is complete.
ToldOnce ==
  \A s \in SwapIds :
    told[s] > 0 => told[s] = 1 /\ swaps[s].status \in {"fulfilled", "gone"}

\* The cap on pending proposals is read before the INSERT, so requests may
\* overrun it, but by no more than the requests in flight.
CapOverrun ==
  \A u \in Users :
    Cardinality(PendingFrom(u))
      + Cardinality({r \in Requests : req[r].pc \in {"member", "insert"} /\ req[r].user = u})
      <= MaxPending + Cardinality(Requests) - 1

\* An answer is final: of an accept, a decline, a cancel and a block that race,
\* one wins, and nothing moves the swap again but its completion, and that only
\* after it was accepted.
AnswersAreFinal ==
  [][\A s \in SwapIds :
       swaps'[s].status \in {swaps[s].status, "gone"} \/
         CASE swaps[s].status = "unborn"   -> swaps'[s].status = "pending"
           [] swaps[s].status = "pending"  -> swaps'[s].status \in {"accepted", "declined", "cancelled"}
           [] swaps[s].status = "accepted" -> swaps'[s].status = "fulfilled"
           [] OTHER                        -> FALSE
    ]_vars

\* A report that completes a swap completes it, unless its goroutine is lost or an
\* account deleted.
ReportCompletes ==
  \A g \in Reports, s \in SwapIds :
    (At(g, "read") /\ swaps[s].status = "accepted" /\ Concerns(g, s) /\ FromDone(s) /\ ToDone(s))
      ~> (swaps[s].status \in {"fulfilled", "gone"} \/ At(g, "lost"))

--------------------------------------------------------------------------
(* What the repository says and the code does not do. *)

\* "BlockUser records a block and cancels pending invites/swaps between the pair"
\* (store/safety.go): no swap is pending between people one of whom has blocked
\* the other.
NoPendingAcrossBlock ==
  \A s \in SwapIds : swaps[s].status = "pending" => ~ Blocked(FromUser(s), ToUser(s))
==========================================================================
