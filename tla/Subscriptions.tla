------------------------- MODULE Subscriptions -------------------------
(***************************************************************************)
(* Plans (store/subscriptions.go, api/revenuecat.go) and the two perks     *)
(* that depend on them: more than FreeProjectLimit projects                *)
(* (api/projects.go) and test-for-test swaps (api/testers.go).             *)
(*                                                                         *)
(* RevenueCat, an external service, posts an event for every change of a   *)
(* customer's purchases, and posts it again until the webhook answers 200. *)
(* The webhook, the creation of a project and the change of a tester       *)
(* profile are each a chain of statements on the pool: every statement is  *)
(* an action.                                                              *)
(***************************************************************************)
EXTENDS Integers, FiniteSets, Sequences

CONSTANTS
  Users,             \* accounts
  Customers,         \* bound: the candidate ids an event may carry, in order
  Kinds,             \* bound: the types of event that are posted
  EventIds,          \* bound: the events, each posted under an id of its own
  Hooks,             \* webhook requests that may be in flight together
  Requests,          \* requests of users that may be in flight together
  FreeProjectLimit,
  MaxProjects,       \* bound: u asks for a project only with fewer than these
  MaxFailures,       \* bound: how often a webhook request fails, or the server stops
  None

EventTypes == {"grant", "billing_issue", "cancellation", "expiration"}

ASSUME SubscriptionAssumption ==
  /\ None \notin Users \cup EventIds
  /\ Customers \subseteq Seq(Users)
  /\ Kinds \subseteq EventTypes \X BOOLEAN
  /\ FreeProjectLimit \in Nat \ {0}
  /\ MaxProjects \in Nat
  /\ MaxFailures \in Nat
  /\ IsFiniteSet(Requests)
  /\ Requests # {}

VARIABLES
  users,     \* accounts that exist
  sub,       \* sub[u]: u's subscriptions row; a plan of "none": no row
  open,      \* open[u]: users.open_to_swap
  projects,  \* projects[u]: how many projects u has created
  event,     \* event[e]: the event RevenueCat posts as e
  hook,      \* hook[w]: the webhook request in slot w
  req,       \* req[r]: the request of a user in slot r
  failures,  \* counts against MaxFailures
  late       \* history: u was opened to swaps by a write that found no Pro plan

vars == <<users, sub, open, projects, event, hook, req, failures, late>>

--------------------------------------------------------------------------
(* Tables *)

SubRow ==
  [plan   : {"none", "free", "pro"},
   status : {"active", "past_due"},
   event  : EventIds \cup {None}]        \* rc_event_id

NoSub == [plan |-> "none", status |-> "active", event |-> None]

\* Without a row a user is on the free plan.  Every status there is keeps the
\* access ("past_due still has access until RevenueCat sends EXPIRATION").
UserIsPro(u) == sub[u].plan = "pro"

--------------------------------------------------------------------------
(* RevenueCat: events *)

\* An event is posted, with the ids of a customer, until it is acknowledged.
\* History: the users whose rows it was written to, and whether a look-up of one of
\* its ids failed.
Event ==
  [state  : {"unborn", "posted", "acked", "dropped"},
   ids    : Customers \cup {<<>>},
   type   : EventTypes,
   pro    : BOOLEAN,                     \* rcHasEntitlement
   to     : SUBSET Users,
   missed : BOOLEAN]

EventOf(state, ids, type, pro) ==
  [state |-> state, ids |-> ids, type |-> type, pro |-> pro, to |-> {}, missed |-> FALSE]

\* mapRCEvent.  "grant" stands for the types of its default case; a free trial
\* gives what a grant gives, under another status.
Plan(e) ==
  IF event[e].type = "expiration" \/ ~ event[e].pro THEN "free" ELSE "pro"

Status(e) ==
  IF event[e].type = "billing_issue" /\ event[e].pro THEN "past_due" ELSE "active"

Hook ==
  [pc    : {"idle", "resolve", "upsert", "close", "reply"},
   event : EventIds \cup {None},
   next  : Nat,                          \* the candidate to look up
   user  : Users \cup {None}]

NoHook == [pc |-> "idle", event |-> None, next |-> 1, user |-> None]

Request ==
  [pc   : {"idle", "limit", "count", "insert", "load", "check", "write"},
   user : Users \cup {None},
   open : {"keep", "yes", "no"}]

Idle == [pc |-> "idle", user |-> None, open |-> "keep"]

Init ==
  /\ users = Users
  /\ sub = [u \in Users |-> NoSub]
  /\ open = [u \in Users |-> FALSE]
  /\ projects = [u \in Users |-> 0]
  /\ event = [e \in EventIds |-> EventOf("unborn", <<>>, "grant", FALSE)]
  /\ hook = [w \in Hooks |-> NoHook]
  /\ req = [r \in Requests |-> Idle]
  /\ failures = 0
  /\ late = [u \in Users |-> FALSE]

--------------------------------------------------------------------------
(* The webhook *)

Post(e, ids, kind) ==
  /\ event[e].state = "unborn"
  /\ event' = [event EXCEPT ![e] = EventOf("posted", ids, kind[1], kind[2])]
  /\ UNCHANGED <<users, sub, open, projects, hook, req, failures, late>>

\* RevenueCat posts e: the first time, or again because the last try got no 200.
\* (When it gives a try up it hangs up, which ends that request: HookFail.)
Deliver(w, e) ==
  /\ hook[w].pc = "idle"
  /\ \A v \in Hooks : hook[v].event # e
  /\ event[e].state = "posted"
  /\ hook' = [hook EXCEPT ![w] = [NoHook EXCEPT !.pc = "resolve", !.event = e]]
  /\ UNCHANGED <<users, sub, open, projects, event, req, failures, late>>

At(w, pc) == hook[w].pc = pc

\* What RevenueCat makes of an answer of 200.
Ack(w, state) ==
  LET e == hook[w].event IN
  event' = [event EXCEPT ![e].state = IF @ = "posted" THEN state ELSE @]

Go(w, pc) == hook' = [hook EXCEPT ![w].pc = pc]

\* What a webhook's statement leaves alone, but for CloseToSwaps.
Others == <<users, open, projects, req, late>>

Candidates(w) == event[hook[w].event].ids

Resolving(w) == At(w, "resolve") /\ hook[w].next <= Len(Candidates(w))

\* resolveRCUserID: UserExists for the next candidate; the first that exists it is.
ResolveFound(w) ==
  LET u == Candidates(w)[hook[w].next] IN
  /\ Resolving(w)
  /\ u \in users
  /\ hook' = [hook EXCEPT ![w].pc = "upsert", ![w].user = u]
  /\ UNCHANGED <<sub, event, failures, Others>>

ResolveNext(w) ==
  /\ Resolving(w)
  /\ Candidates(w)[hook[w].next] \notin users
  /\ hook' = [hook EXCEPT ![w].next = @ + 1]
  /\ UNCHANGED <<sub, event, failures, Others>>

\* A look-up that fails is taken for a user who does not exist.
ResolveErr(w) ==
  /\ Resolving(w)
  /\ failures < MaxFailures
  /\ failures' = failures + 1
  /\ hook' = [hook EXCEPT ![w].next = @ + 1]
  /\ event' = [event EXCEPT ![hook[w].event].missed = TRUE]
  /\ UNCHANGED <<sub, Others>>

\* Mutant of ResolveNone: an event of nobody is answered with an error.
ResolveNoneErr(w) ==
  /\ At(w, "resolve") /\ hook[w].next > Len(Candidates(w))
  /\ hook' = [hook EXCEPT ![w] = NoHook]
  /\ UNCHANGED <<sub, event, failures, Others>>

\* "unknown_user", with a 200: the event is not posted again.
ResolveNone(w) ==
  /\ At(w, "resolve") /\ hook[w].next > Len(Candidates(w))
  /\ Ack(w, "dropped")
  /\ hook' = [hook EXCEPT ![w] = NoHook]
  /\ UNCHANGED <<sub, failures, Others>>

SubOf(e) == [plan |-> Plan(e), status |-> Status(e), event |-> e]

\* Mutant of Upsert: a downgrade is answered as soon as the row is written.
UpsertKeepsOpen(w) ==
  LET e == hook[w].event
      u == hook[w].user
  IN
  /\ At(w, "upsert")
  /\ IF u \in users
       THEN /\ sub' = [sub EXCEPT ![u] = SubOf(e)]
            /\ event' = [event EXCEPT ![e].to = @ \cup {u}]
            /\ Go(w, "reply")
       ELSE /\ UNCHANGED <<sub, event>>
            /\ hook' = [hook EXCEPT ![w] = NoHook]
  /\ UNCHANGED <<failures, Others>>

\* SetSubscriptionFromBilling's INSERT ... ON CONFLICT DO UPDATE: the row becomes
\* what this event says, whichever event it came from before.  The foreign key
\* refuses a user deleted since; that is a 500.
Upsert(w) ==
  LET e == hook[w].event
      u == hook[w].user
  IN
  /\ At(w, "upsert")
  /\ IF u \in users
       THEN /\ sub' = [sub EXCEPT ![u] = SubOf(e)]
            /\ event' = [event EXCEPT ![e].to = @ \cup {u}]
            /\ Go(w, IF Plan(e) = "free" THEN "close" ELSE "reply")
       ELSE /\ UNCHANGED <<sub, event>>
            /\ hook' = [hook EXCEPT ![w] = NoHook]
  /\ UNCHANGED <<failures, Others>>

\* "leave the marketplace when downgrading": a second statement.
CloseToSwaps(w) ==
  /\ At(w, "close")
  /\ open' = [open EXCEPT ![hook[w].user] = FALSE]
  /\ late' = [late EXCEPT ![hook[w].user] = FALSE]
  /\ Go(w, "reply")
  /\ UNCHANGED <<users, sub, projects, event, req, failures>>

\* 200
Reply(w) ==
  /\ At(w, "reply")
  /\ Ack(w, "acked")
  /\ hook' = [hook EXCEPT ![w] = NoHook]
  /\ UNCHANGED <<sub, failures, Others>>

\* A statement fails (500), the connection is lost, or the answer is.
HookFail(w) ==
  /\ hook[w].pc # "idle"
  /\ failures < MaxFailures
  /\ failures' = failures + 1
  /\ hook' = [hook EXCEPT ![w] = NoHook]
  /\ UNCHANGED <<sub, event, Others>>

--------------------------------------------------------------------------
(* createProject *)

Begin(r, u, pc, ask) ==
  /\ req[r].pc = "idle"
  /\ req' = [req EXCEPT ![r] = [pc |-> pc, user |-> u, open |-> ask]]
  /\ UNCHANGED <<users, sub, open, projects, event, hook, failures, late>>

Finish(r) == req' = [req EXCEPT ![r] = Idle]

\* The handler goes on to the statement pc, or, if ok is false, answers at once.
GoIf(r, ok, pc) ==
  /\ IF ok THEN req' = [req EXCEPT ![r].pc = pc] ELSE Finish(r)
  /\ UNCHANGED <<users, sub, open, projects, event, hook, failures, late>>

\* A token outlives its account: u need not exist any more.
AskProject(r, u) ==
  /\ projects[u] < MaxProjects
  /\ Begin(r, u, "limit", "keep")

\* CanUserCreateProject is two reads: the row of the plan (no limit on Pro) ...
ReadLimit(r) ==
  /\ req[r].pc = "limit"
  /\ GoIf(r, TRUE, IF UserIsPro(req[r].user) THEN "insert" ELSE "count")

\* Mutant of CountProjects: one too many.
CountProjectsOffByOne(r) ==
  /\ req[r].pc = "count"
  /\ GoIf(r, projects[req[r].user] <= FreeProjectLimit, "insert")

\* ... and the number of projects.
CountProjects(r) ==
  /\ req[r].pc = "count"
  /\ GoIf(r, projects[req[r].user] < FreeProjectLimit, "insert")

\* Mutant of InsertProject: projects without a foreign key to users.
InsertProjectOrphan(r) ==
  /\ req[r].pc = "insert"
  /\ projects' = [projects EXCEPT ![req[r].user] = @ + 1]
  /\ Finish(r)
  /\ UNCHANGED <<users, sub, open, event, hook, failures, late>>

\* CreateProject, if the account still exists; the limit is not looked at again.
InsertProject(r) ==
  LET u == req[r].user IN
  /\ req[r].pc = "insert"
  /\ projects' = [projects EXCEPT ![u] = IF u \in users THEN @ + 1 ELSE @]
  /\ Finish(r)
  /\ UNCHANGED <<users, sub, open, event, hook, failures, late>>

--------------------------------------------------------------------------
(* updateTesterProfile *)

\* The caller opens or closes swaps, or changes another field.
AskProfile(r, u, ask) == Begin(r, u, "load", ask)

\* GetUser: a field that the request does not name keeps the value read here.
LoadProfile(r) ==
  LET u == req[r].user
      kept == IF open[u] THEN "yes" ELSE "no"
  IN
  /\ req[r].pc = "load"
  /\ req' = [req EXCEPT ![r] =
               IF u \notin users THEN Idle
               ELSE CASE req[r].open = "yes"  -> [@ EXCEPT !.pc = "check"]
                      [] req[r].open = "no"   -> [@ EXCEPT !.pc = "write"]
                      [] req[r].open = "keep" -> [@ EXCEPT !.pc = "write", !.open = kept]]
  /\ UNCHANGED <<users, sub, open, projects, event, hook, failures, late>>

\* "test-for-test swaps are available on the Pro plan"
CheckPro(r) ==
  /\ req[r].pc = "check"
  /\ GoIf(r, UserIsPro(req[r].user), "write")

\* UpdateTesterProfile writes every field.
WriteProfile(r) ==
  LET u == req[r].user
      yes == req[r].open = "yes" /\ u \in users
  IN
  /\ req[r].pc = "write"
  /\ open' = [open EXCEPT ![u] = yes]
  /\ late' = [late EXCEPT ![u] = yes /\ ~ UserIsPro(u)]
  /\ Finish(r)
  /\ UNCHANGED <<users, sub, projects, event, hook, failures>>

\* A statement fails or the client goes away.
Abandon(r) ==
  /\ req[r].pc # "idle"
  /\ GoIf(r, FALSE, "idle")

--------------------------------------------------------------------------
\* DeleteUser, and what refers to the user.
DeleteUser(u) ==
  /\ u \in users
  /\ users' = users \ {u}
  /\ sub' = [sub EXCEPT ![u] = NoSub]
  /\ open' = [open EXCEPT ![u] = FALSE]
  /\ projects' = [projects EXCEPT ![u] = 0]
  /\ late' = [late EXCEPT ![u] = FALSE]
  /\ UNCHANGED <<event, hook, req, failures>>

\* The server stops: every request ends where it is.
Restart ==
  /\ failures < MaxFailures
  /\ failures' = failures + 1
  /\ hook' = [w \in Hooks |-> NoHook]
  /\ req' = [r \in Requests |-> Idle]
  /\ UNCHANGED <<users, sub, open, projects, event, late>>

HookStep(w) ==
  \/ ResolveFound(w) \/ ResolveNext(w) \/ ResolveNone(w)
  \/ Upsert(w) \/ CloseToSwaps(w) \/ Reply(w)

Statement(r) ==
  \/ ReadLimit(r) \/ CountProjects(r) \/ InsertProject(r)
  \/ LoadProfile(r) \/ CheckPro(r) \/ WriteProfile(r)

Ask(r, u) == AskProject(r, u) \/ \E ask \in {"keep", "yes", "no"} : AskProfile(r, u, ask)

Next ==
  \/ \E e \in EventIds, ids \in Customers, kind \in Kinds : Post(e, ids, kind)
  \/ \E w \in Hooks : \/ HookStep(w) \/ ResolveErr(w) \/ HookFail(w)
                      \/ \E e \in EventIds : Deliver(w, e)
  \/ \E r \in Requests : Statement(r) \/ Abandon(r) \/ \E u \in Users : Ask(r, u)
  \/ \E u \in Users : DeleteUser(u)
  \/ Restart

Spec == Init /\ [][Next]_vars

\* A handler that has a statement to run runs it, and RevenueCat posts an event
\* until it is acknowledged (the webhook's answers rely on that).  SF: an event
\* does not wait for ever for a slot of Hooks that others take in turn.
FairSpec ==
  /\ Spec
  /\ \A w \in Hooks : WF_vars(HookStep(w))
  /\ \A e \in EventIds : SF_vars(\E w \in Hooks : Deliver(w, e))

--------------------------------------------------------------------------
(* Properties *)

\* Types, and the foreign keys: no row of an account that does not exist.
TypeOK ==
  /\ users \subseteq Users
  /\ sub \in [Users -> SubRow]
  /\ open \in [Users -> BOOLEAN]
  /\ projects \in [Users -> Nat]
  /\ event \in [EventIds -> Event]
  /\ hook \in [Hooks -> Hook]
  /\ req \in [Requests -> Request]
  /\ failures \in 0 .. MaxFailures
  /\ late \in [Users -> BOOLEAN]
  /\ \A u \in Users \ users : sub[u] = NoSub /\ ~ open[u] /\ projects[u] = 0

\* A downgrade was written for u and will be posted again, unless a failed look-up
\* had it taken for somebody else's.
Downgrading(u) ==
  \E e \in EventIds :
    u \in event[e].to /\ Plan(e) = "free" /\ (event[e].state = "posted" \/ event[e].missed)

\* The plan and the marketplace flag are written by two statements, and either may
\* be the last that runs: a retry makes up for it.  Who is on the free plan and yet
\* open to swaps has a downgrade on its way, or opened while it passed.
FreeLeavesMarketplace ==
  \A u \in Users : open[u] /\ ~ UserIsPro(u) => late[u] \/ Downgrading(u)

NeverPro(u) == \A e \in EventIds : u \in event[e].to => Plan(e) = "free"

\* Requests of u that have passed the check and will insert a project.
Inserting(u) == {r \in Requests : req[r].pc = "insert" /\ req[r].user = u}

\* The project limit is read before the INSERT, so requests may overrun it, but by
\* no more than the requests in flight.
LimitOverrun ==
  \A u \in Users :
    NeverPro(u) =>
      projects[u] + Cardinality(Inserting(u)) < FreeProjectLimit + Cardinality(Requests)

\* An event is written to a row and acknowledged, or dropped; it does not come back
\* for ever, whatever fails on the way and whoever is deleted.
EventSettles ==
  \A e \in EventIds :
    event[e].state = "posted" ~>
      event[e].state = "dropped" \/ (event[e].state = "acked" /\ event[e].to # {})

--------------------------------------------------------------------------
(* What the repository says and the code does not do. *)

\* "Track last RevenueCat event applied for a user (idempotency / debugging)"
\* (0010_revenuecat.sql): an event that was applied before and comes again does not
\* change the plan.
Idempotent ==
  [][\A e \in EventIds, u \in Users :
       u \in event[e].to /\ sub[u].event # e /\ sub'[u].event = e => sub'[u].plan = sub[u].plan
    ]_vars
==========================================================================
