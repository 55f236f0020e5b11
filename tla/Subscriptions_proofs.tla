---------------------- MODULE Subscriptions_proofs ----------------------
(***************************************************************************)
(* What holds of Subscriptions for every set of users, customers, events   *)
(* and requests.                                                           *)
(*                                                                         *)
(* FreeLeavesMarketplace is not inductive: a retry finishes what a failed  *)
(* webhook request began only if it finds the same user.  It does, because *)
(* accounts are deleted and never come back: of the candidates that an     *)
(* event names, those before the one that was found are gone for good.     *)
(***************************************************************************)
EXTENDS Subscriptions, FiniteSetTheorems, TLAPS

\* The webhook requests in flight: each has an event of its own, which is posted
\* still, and from the look-up on the user whom the look-up found.
Hooked ==
  /\ \A w \in Hooks : hook[w].pc # "idle" =>
       /\ hook[w].event \in EventIds
       /\ event[hook[w].event].state = "posted"
       /\ hook[w].next \in Nat \ {0}
       /\ hook[w].pc # "resolve" =>
            /\ hook[w].next <= Len(Candidates(w))
            /\ hook[w].user = Candidates(w)[hook[w].next]
       /\ hook[w].pc \in {"close", "reply"} => hook[w].user \in event[hook[w].event].to
  /\ \A w \in Hooks : hook[w].pc = "idle" => hook[w].event = None
  /\ \A v, w \in Hooks : v # w /\ hook[v].event # None => hook[v].event # hook[w].event

\* None of the first n candidates of e exists.
NoneOf(e, n) == \A i \in 1 .. n : i <= Len(event[e].ids) => event[e].ids[i] \notin users

\* Without a failed look-up, an event is written for the first of its candidates
\* that exists.
Tried ==
  /\ \A e \in EventIds : event[e].state = "unborn" => event[e].to = {}
  /\ \A e \in EventIds : ~ event[e].missed =>
       \A u \in event[e].to :
         \E i \in 1 .. Len(event[e].ids) : event[e].ids[i] = u /\ NoneOf(e, i - 1)
  /\ \A w \in Hooks : hook[w].pc # "idle" /\ ~ event[hook[w].event].missed =>
       /\ NoneOf(hook[w].event, hook[w].next - 1)
       /\ hook[w].pc # "resolve" => event[hook[w].event].to \cap users \subseteq {hook[w].user}

\* The requests in flight have a user.
Asked == \A r \in Requests : req[r].pc # "idle" => req[r].user \in Users

\* A downgrade was written for u whose second statement has not run.
Unclosed(u) ==
  \E e \in EventIds :
    /\ u \in event[e].to
    /\ Plan(e) = "free"
    /\ \/ event[e].missed
       \/ /\ event[e].state = "posted"
          /\ \A w \in Hooks : hook[w].event = e => ~ At(w, "reply")

OpenInv == \A u \in Users : open[u] /\ ~ UserIsPro(u) => late[u] \/ Unclosed(u)

ProKnown == \A u \in Users : UserIsPro(u) => ~ NeverPro(u)

\* The inductive invariant.
IInv == TypeOK /\ Hooked /\ Tried /\ Asked /\ OpenInv /\ ProKnown /\ LimitOverrun

--------------------------------------------------------------------------
(* Types *)

LEMMA Constants ==
  /\ None \notin Users /\ None \notin EventIds
  /\ \A ids \in Customers \cup {<<>>} : ids \in Seq(Users)
  /\ FreeProjectLimit \in Nat \ {0} /\ MaxProjects \in Nat /\ MaxFailures \in Nat
  /\ IsFiniteSet(Requests) /\ Requests # {}
<1>1. <<>> \in Seq(Users) /\ Customers \subseteq Seq(Users)
  BY SubscriptionAssumption DEF SubscriptionAssumption
<1> QED BY <1>1, SubscriptionAssumption DEF SubscriptionAssumption

LEMMA EventTyped ==
  ASSUME TypeOK, NEW e \in EventIds
  PROVE  /\ event[e].ids \in Seq(Users)
         /\ event[e].state \in {"unborn", "posted", "acked", "dropped"}
         /\ event[e].to \subseteq Users
         /\ event[e].missed \in BOOLEAN
         /\ Plan(e) \in {"free", "pro"}
         /\ Status(e) \in {"active", "past_due"}
         /\ SubOf(e) \in SubRow
<1>1. event[e] \in Event
  BY DEF TypeOK
<1>2. event[e].ids \in Seq(Users)
  BY <1>1, Constants DEF Event
<1>3. Plan(e) \in {"free", "pro"} /\ Status(e) \in {"active", "past_due"}
  BY DEF Plan, Status
<1> QED BY <1>1, <1>2, <1>3 DEF Event, SubOf, SubRow

LEMMA HookTyped ==
  ASSUME TypeOK, Hooked, NEW w \in Hooks, hook[w].pc # "idle"
  PROVE  /\ hook[w] \in Hook
         /\ hook[w].event \in EventIds
         /\ event[hook[w].event].state = "posted"
         /\ Candidates(w) \in Seq(Users)
         /\ hook[w].next \in Nat \ {0}
         /\ hook[w].pc # "resolve" => hook[w].user \in Users
<1>1. hook[w] \in Hook
  BY DEF TypeOK
<1>2. /\ hook[w].event \in EventIds
      /\ event[hook[w].event].state = "posted"
      /\ hook[w].next \in Nat \ {0}
  BY DEF Hooked
<1>3. Candidates(w) \in Seq(Users)
  BY <1>2, EventTyped DEF Candidates
<1>4. hook[w].pc # "resolve" => hook[w].user \in Users
  BY <1>2, <1>3 DEF Hooked
<1> QED BY <1>1, <1>2, <1>3, <1>4

LEMMA NoHookTyped == NoHook \in Hook /\ NoHook.pc = "idle" /\ NoHook.event = None
BY DEF NoHook, Hook

LEMMA IdleTyped == Idle \in Request /\ Idle.pc = "idle"
BY DEF Idle, Request

LEMMA InitInv == Init => IInv
<1> SUFFICES ASSUME Init PROVE IInv
  OBVIOUS
<1>1. TypeOK
  <2>0. failures \in 0 .. MaxFailures
    BY Constants DEF Init
  <2>1. \A e \in EventIds : EventOf("unborn", <<>>, "grant", FALSE) \in Event
    BY DEF EventOf, Event, EventTypes
  <2>2. NoSub \in SubRow
    BY DEF NoSub, SubRow
  <2> QED BY <2>0, <2>1, <2>2, NoHookTyped, IdleTyped DEF Init, TypeOK
<1>2. Hooked
  BY NoHookTyped DEF Init, Hooked
<1>3. Tried
  BY NoHookTyped DEF Init, Tried, EventOf
<1>4. Asked
  BY IdleTyped DEF Init, Asked
<1>5. OpenInv
  BY DEF Init, OpenInv
<1>6. ProKnown
  BY DEF Init, ProKnown, UserIsPro, NoSub
<1>7. LimitOverrun
  <2> SUFFICES ASSUME NEW u \in Users
               PROVE  projects[u] + Cardinality(Inserting(u))
                        < FreeProjectLimit + Cardinality(Requests)
    BY DEF LimitOverrun
  <2>1. Inserting(u) = {}
    BY IdleTyped DEF Init, Inserting
  <2>2. Cardinality(Inserting(u)) = 0 /\ Cardinality(Requests) \in Nat
    BY <2>1, FS_EmptySet, FS_CardinalityType, Constants
  <2>3. projects[u] = 0
    BY DEF Init
  <2> QED BY <2>2, <2>3, Constants
<1> QED BY <1>1, <1>2, <1>3, <1>4, <1>5, <1>6, <1>7 DEF IInv

--------------------------------------------------------------------------
(* Requests of users: they leave the events and the webhook alone. *)

LEMMA InsertingCard ==
  ASSUME NEW S \in SUBSET Requests
  PROVE  IsFiniteSet(S) /\ Cardinality(S) \in Nat /\ Cardinality(S) <= Cardinality(Requests)
BY Constants, FS_Subset, FS_CardinalityType

\* The limit holds on if no request passes the check and no project is made.
LEMMA LimitKept ==
  ASSUME LimitOverrun, projects' = projects, req' = req,
         \A u \in Users : NeverPro(u)' => NeverPro(u)
  PROVE  LimitOverrun'
<1>1. \A u \in Users : Inserting(u)' = Inserting(u)
  BY DEF Inserting
<1> QED BY <1>1 DEF LimitOverrun

\* A step that changes requests only.
LEMMA RequestStep ==
  ASSUME IInv, UNCHANGED <<users, sub, open, projects, event, hook, failures, late>>,
         req' \in [Requests -> Request], Asked',
         \A u \in Users : NeverPro(u) =>
           \/ Inserting(u)' \subseteq Inserting(u)
           \/ Inserting(u)' \subseteq Requests /\ projects[u] < FreeProjectLimit
  PROVE  IInv'
<1> USE DEF IInv
<1>1. TypeOK'
  BY DEF TypeOK
<1>2. Hooked'
  BY DEF Hooked, Candidates
<1>3. Tried'
  BY DEF Tried, NoneOf
<1>4. OpenInv'
  BY DEF OpenInv, Unclosed, UserIsPro, Plan, At
<1>5. ProKnown'
  BY DEF ProKnown, UserIsPro, NeverPro, Plan
<1>6. LimitOverrun'
  <2> SUFFICES ASSUME NEW u \in Users, NeverPro(u)'
               PROVE  projects'[u] + Cardinality(Inserting(u)')
                        < FreeProjectLimit + Cardinality(Requests)
    BY DEF LimitOverrun
  <2>1. NeverPro(u) /\ projects[u] \in Nat /\ projects' = projects
    BY DEF NeverPro, Plan, TypeOK
  <2>2. CASE Inserting(u)' \subseteq Inserting(u)
    <3>1. projects[u] + Cardinality(Inserting(u)) < FreeProjectLimit + Cardinality(Requests)
      BY <2>1 DEF LimitOverrun
    <3>2. Inserting(u) \in SUBSET Requests /\ Inserting(u)' \in SUBSET Requests
      BY DEF Inserting
    <3>3. IsFiniteSet(Inserting(u)) /\ Cardinality(Inserting(u)) \in Nat
      BY <3>2, InsertingCard
    <3>4. Cardinality(Inserting(u)') \in Nat /\ Cardinality(Requests) \in Nat
      BY <3>2, InsertingCard
    <3>5. Cardinality(Inserting(u)') <= Cardinality(Inserting(u))
      BY <2>2, <3>3, FS_Subset
    <3> QED BY <2>1, <3>1, <3>3, <3>4, <3>5, Constants
  <2>3. CASE Inserting(u)' \subseteq Requests /\ projects[u] < FreeProjectLimit
    <3>1. Cardinality(Inserting(u)') \in Nat /\ Cardinality(Requests) \in Nat
          /\ Cardinality(Inserting(u)') <= Cardinality(Requests)
      BY <2>3, InsertingCard
    <3> QED BY <2>1, <2>3, <3>1, Constants
  <2> QED BY <2>1, <2>2, <2>3
<1> QED BY <1>1, <1>2, <1>3, <1>4, <1>5, <1>6

LEMMA BeginStep ==
  ASSUME IInv, NEW r \in Requests, NEW u \in Users, NEW pc, NEW ask \in {"keep", "yes", "no"},
         pc \in {"limit", "load"}, Begin(r, u, pc, ask)
  PROVE  IInv'
<1>1. req' \in [Requests -> Request]
  BY DEF Begin, IInv, TypeOK, Request
<1>2. Asked'
  BY DEF Begin, IInv, TypeOK, Asked
<1>3. \A v \in Users : Inserting(v)' \subseteq Inserting(v)
  BY DEF Begin, Inserting, IInv, TypeOK
<1> QED BY <1>1, <1>2, <1>3, RequestStep DEF Begin

LEMMA FinishReq ==
  ASSUME IInv, NEW r \in Requests, Finish(r)
  PROVE  /\ req' \in [Requests -> Request]
         /\ Asked'
         /\ \A v \in Users : Inserting(v)' \subseteq Inserting(v)
BY IdleTyped DEF Finish, Inserting, IInv, TypeOK, Asked

LEMMA AskStep ==
  ASSUME IInv, NEW r \in Requests, NEW u \in Users, Ask(r, u)
  PROVE  IInv'
<1>1. CASE AskProject(r, u)
  BY <1>1, BeginStep DEF AskProject
<1>2. ASSUME NEW ask \in {"keep", "yes", "no"}, AskProfile(r, u, ask)
      PROVE  IInv'
  BY <1>2, BeginStep DEF AskProfile
<1> QED BY <1>1, <1>2 DEF Ask

\* A request goes on to another statement.
LEMMA GoReq ==
  ASSUME IInv, NEW r \in Requests, req[r].pc # "idle", NEW pc \in {"limit", "count", "insert", "load", "check", "write"},
         req' = [req EXCEPT ![r].pc = pc],
         UNCHANGED <<users, sub, open, projects, event, hook, failures, late>>,
         pc = "insert" =>
           ~ NeverPro(req[r].user) \/ projects[req[r].user] < FreeProjectLimit
  PROVE  IInv'
<1>1. req' \in [Requests -> Request]
  BY DEF IInv, TypeOK, Request
<1>2. Asked'
  BY DEF IInv, TypeOK, Request, Asked
<1>3. ASSUME NEW u \in Users, NeverPro(u)
      PROVE  \/ Inserting(u)' \subseteq Inserting(u)
             \/ Inserting(u)' \subseteq Requests /\ projects[u] < FreeProjectLimit
  BY <1>3 DEF Inserting, IInv, TypeOK
<1> QED BY <1>1, <1>2, <1>3, RequestStep

LEMMA AbandonStep ==
  ASSUME IInv, NEW r \in Requests, Abandon(r)
  PROVE  IInv'
BY FinishReq, RequestStep DEF Abandon, GoIf

LEMMA ReadLimitStep ==
  ASSUME IInv, NEW r \in Requests, ReadLimit(r)
  PROVE  IInv'
<1>1. req[r].user \in Users
  BY DEF ReadLimit, IInv, Asked
<1>2. UserIsPro(req[r].user) => ~ NeverPro(req[r].user)
  BY <1>1 DEF IInv, ProKnown
<1> QED BY <1>2, GoReq DEF ReadLimit, GoIf

LEMMA CountProjectsStep ==
  ASSUME IInv, NEW r \in Requests, CountProjects(r)
  PROVE  IInv'
<1>1. CASE projects[req[r].user] < FreeProjectLimit
  BY <1>1, GoReq DEF CountProjects, GoIf
<1>2. CASE ~ (projects[req[r].user] < FreeProjectLimit)
  BY <1>2, FinishReq, RequestStep DEF CountProjects, GoIf
<1> QED BY <1>1, <1>2

LEMMA CheckProStep ==
  ASSUME IInv, NEW r \in Requests, CheckPro(r)
  PROVE  IInv'
<1>1. CASE UserIsPro(req[r].user)
  BY <1>1, GoReq DEF CheckPro, GoIf
<1>2. CASE ~ UserIsPro(req[r].user)
  BY <1>2, FinishReq, RequestStep DEF CheckPro, GoIf
<1> QED BY <1>1, <1>2

LEMMA LoadProfileStep ==
  ASSUME IInv, NEW r \in Requests, LoadProfile(r)
  PROVE  IInv'
<1>0. req[r] \in Request
  BY DEF IInv, TypeOK
<1>1. req' \in [Requests -> Request]
  BY <1>0, IdleTyped DEF LoadProfile, IInv, TypeOK, Request
<1>2. Asked'
  BY <1>0, IdleTyped DEF LoadProfile, IInv, TypeOK, Request, Asked
<1>3. \A v \in Users : Inserting(v)' \subseteq Inserting(v)
  BY <1>0, IdleTyped DEF LoadProfile, IInv, TypeOK, Request, Inserting
<1> QED BY <1>1, <1>2, <1>3, RequestStep DEF LoadProfile

LEMMA InsertProjectStep ==
  ASSUME IInv, NEW r \in Requests, InsertProject(r)
  PROVE  IInv'
<1> USE DEF IInv
<1> DEFINE u == req[r].user
<1>0. u \in Users
  BY DEF InsertProject, Asked
<1>1. TypeOK'
  <2>1. projects' \in [Users -> Nat]
    BY <1>0 DEF InsertProject, TypeOK
  <2>2. \A v \in Users \ users : projects'[v] = projects[v]
    BY <1>0 DEF InsertProject, TypeOK
  <2> QED BY <2>1, <2>2, FinishReq DEF InsertProject, TypeOK
<1>2. Hooked'
  BY DEF InsertProject, Hooked, Candidates
<1>3. Tried'
  BY DEF InsertProject, Tried, NoneOf
<1>4. Asked'
  BY FinishReq DEF InsertProject
<1>5. OpenInv'
  BY DEF InsertProject, OpenInv, Unclosed, UserIsPro, Plan, At
<1>6. ProKnown'
  BY DEF InsertProject, ProKnown, UserIsPro, NeverPro, Plan
<1>7. LimitOverrun'
  <2> SUFFICES ASSUME NEW v \in Users, NeverPro(v)'
               PROVE  projects'[v] + Cardinality(Inserting(v)')
                        < FreeProjectLimit + Cardinality(Requests)
    BY DEF LimitOverrun
  <2>1. /\ NeverPro(v)
        /\ Inserting(v) \in SUBSET Requests
        /\ projects[v] \in Nat
        /\ IsFiniteSet(Inserting(v)) /\ Cardinality(Inserting(v)) \in Nat
        /\ Cardinality(Requests) \in Nat
    BY InsertingCard DEF InsertProject, NeverPro, Plan, Inserting, TypeOK
  <2>2. projects[v] + Cardinality(Inserting(v)) < FreeProjectLimit + Cardinality(Requests)
    BY <2>1 DEF LimitOverrun
  <2>3. CASE v # u
    <3>1. Inserting(v)' = Inserting(v) /\ projects'[v] = projects[v]
      BY <1>0, <2>3, IdleTyped DEF InsertProject, Finish, Inserting, TypeOK
    <3> QED BY <2>2, <3>1
  <2>4. CASE v = u
    <3>1. r \in Inserting(v) /\ Inserting(v)' = Inserting(v) \ {r}
      BY <2>4, IdleTyped DEF InsertProject, Finish, Inserting, TypeOK
    <3>2. Cardinality(Inserting(v)') = Cardinality(Inserting(v)) - 1
      BY <2>1, <3>1, FS_RemoveElement
    <3>3. projects'[v] = projects[v] \/ projects'[v] = projects[v] + 1
      BY <1>0, <2>4 DEF InsertProject, TypeOK
    <3> QED BY <2>1, <2>2, <3>2, <3>3, Constants
  <2> QED BY <2>3, <2>4
<1> QED BY <1>1, <1>2, <1>3, <1>4, <1>5, <1>6, <1>7

LEMMA WriteProfileStep ==
  ASSUME IInv, NEW r \in Requests, WriteProfile(r)
  PROVE  IInv'
<1> USE DEF IInv
<1> DEFINE u == req[r].user
<1>0. u \in Users
  BY DEF WriteProfile, Asked
<1>1. TypeOK'
  <2>1. open' \in [Users -> BOOLEAN] /\ late' \in [Users -> BOOLEAN]
    BY <1>0 DEF WriteProfile, TypeOK
  <2>2. \A v \in Users \ users : ~ open'[v]
    BY <1>0 DEF WriteProfile, TypeOK
  <2> QED BY <2>1, <2>2, FinishReq DEF WriteProfile, TypeOK
<1>2. Hooked'
  BY DEF WriteProfile, Hooked, Candidates
<1>3. Tried'
  BY DEF WriteProfile, Tried, NoneOf
<1>4. Asked'
  BY FinishReq DEF WriteProfile
<1>5. OpenInv'
  <2> SUFFICES ASSUME NEW v \in Users, open'[v], ~ UserIsPro(v)'
               PROVE  late'[v] \/ Unclosed(v)'
    BY DEF OpenInv
  <2>1. CASE v = u
    BY <1>0, <2>1 DEF WriteProfile, UserIsPro, TypeOK
  <2>2. CASE v # u
    <3>1. open[v] /\ late'[v] = late[v] /\ ~ UserIsPro(v)
      BY <1>0, <2>2 DEF WriteProfile, UserIsPro, TypeOK
    <3>2. Unclosed(v) => Unclosed(v)'
      BY DEF WriteProfile, Unclosed, Plan, At
    <3> QED BY <3>1, <3>2 DEF OpenInv
  <2> QED BY <2>1, <2>2
<1>6. ProKnown'
  BY DEF WriteProfile, ProKnown, UserIsPro, NeverPro, Plan
<1>7. LimitOverrun'
  <2> SUFFICES ASSUME NEW v \in Users, NeverPro(v)'
               PROVE  projects'[v] + Cardinality(Inserting(v)')
                        < FreeProjectLimit + Cardinality(Requests)
    BY DEF LimitOverrun
  <2>1. NeverPro(v) /\ projects' = projects
    BY DEF WriteProfile, NeverPro, Plan
  <2>2. Inserting(v)' = Inserting(v)
    BY IdleTyped DEF WriteProfile, Finish, Inserting, TypeOK
  <2> QED BY <2>1, <2>2 DEF LimitOverrun
<1> QED BY <1>1, <1>2, <1>3, <1>4, <1>5, <1>6, <1>7

LEMMA StatementStep ==
  ASSUME IInv, NEW r \in Requests, Statement(r)
  PROVE  IInv'
BY ReadLimitStep, CountProjectsStep, InsertProjectStep, LoadProfileStep, CheckProStep,
   WriteProfileStep DEF Statement

--------------------------------------------------------------------------
(* Deletions and restarts *)

LEMMA DeleteUserStep ==
  ASSUME IInv, NEW u \in Users, DeleteUser(u)
  PROVE  IInv'
<1> USE DEF IInv
<1>1. TypeOK'
  <2>1. NoSub \in SubRow
    BY DEF NoSub, SubRow
  <2> QED BY <2>1 DEF DeleteUser, TypeOK
<1>2. Hooked'
  BY DEF DeleteUser, Hooked, Candidates
<1>3. Tried'
  <2>1. users' \subseteq users
    BY DEF DeleteUser
  <2>2. \A e \in EventIds : \A n : NoneOf(e, n) => NoneOf(e, n)'
    BY <2>1 DEF DeleteUser, NoneOf
  <2> QED BY <2>1, <2>2 DEF DeleteUser, Tried, Hooked
<1>4. Asked'
  BY DEF DeleteUser, Asked
<1>5. OpenInv'
  <2> SUFFICES ASSUME NEW v \in Users, open'[v], ~ UserIsPro(v)'
               PROVE  late'[v] \/ Unclosed(v)'
    BY DEF OpenInv
  <2>1. v # u /\ open[v] /\ late'[v] = late[v] /\ ~ UserIsPro(v)
    BY DEF DeleteUser, UserIsPro, TypeOK
  <2>2. Unclosed(v) => Unclosed(v)'
    BY DEF DeleteUser, Unclosed, Plan, At
  <2> QED BY <2>1, <2>2 DEF OpenInv
<1>6. ProKnown'
  <2> SUFFICES ASSUME NEW v \in Users, UserIsPro(v)' PROVE ~ NeverPro(v)'
    BY DEF ProKnown
  <2>1. UserIsPro(v)
    BY DEF DeleteUser, UserIsPro, NoSub, TypeOK
  <2> QED BY <2>1 DEF DeleteUser, ProKnown, NeverPro, Plan
<1>7. LimitOverrun'
  <2> SUFFICES ASSUME NEW v \in Users, NeverPro(v)'
               PROVE  projects'[v] + Cardinality(Inserting(v)')
                        < FreeProjectLimit + Cardinality(Requests)
    BY DEF LimitOverrun
  <2>1. NeverPro(v) /\ Inserting(v)' = Inserting(v)
    BY DEF DeleteUser, NeverPro, Plan, Inserting
  <2>2. CASE v # u
    BY <2>1, <2>2 DEF LimitOverrun, DeleteUser, TypeOK
  <2>3. CASE v = u
    <3>1. projects'[v] = 0
      BY <2>3 DEF DeleteUser, TypeOK
    <3>2. /\ Cardinality(Inserting(v)) \in Nat /\ Cardinality(Requests) \in Nat
          /\ Cardinality(Inserting(v)) <= Cardinality(Requests)
      BY InsertingCard DEF Inserting
    <3> QED BY <2>1, <3>1, <3>2, Constants
  <2> QED BY <2>2, <2>3
<1> QED BY <1>1, <1>2, <1>3, <1>4, <1>5, <1>6, <1>7

LEMMA RestartStep ==
  ASSUME IInv, Restart
  PROVE  IInv'
<1> USE DEF IInv
<1>1. TypeOK'
  BY NoHookTyped, IdleTyped, Constants DEF Restart, TypeOK
<1>2. Hooked'
  BY NoHookTyped DEF Restart, Hooked
<1>3. Tried'
  BY NoHookTyped DEF Restart, Tried, NoneOf
<1>4. Asked'
  BY IdleTyped DEF Restart, Asked
<1>5. OpenInv'
  BY NoHookTyped DEF Restart, OpenInv, Unclosed, UserIsPro, Plan, At
<1>6. ProKnown'
  BY DEF Restart, ProKnown, UserIsPro, NeverPro, Plan
<1>7. LimitOverrun'
  <2> SUFFICES ASSUME NEW v \in Users, NeverPro(v)'
               PROVE  projects'[v] + Cardinality(Inserting(v)')
                        < FreeProjectLimit + Cardinality(Requests)
    BY DEF LimitOverrun
  <2>1. NeverPro(v) /\ projects' = projects /\ projects[v] \in Nat
    BY DEF Restart, NeverPro, Plan, TypeOK
  <2>2. Inserting(v)' = {}
    BY IdleTyped DEF Restart, Inserting
  <2>3. Cardinality(Inserting(v)') = 0
    BY <2>2, FS_EmptySet
  <2>4. Cardinality(Inserting(v)) \in Nat /\ Cardinality(Requests) \in Nat
    BY InsertingCard DEF Inserting
  <2>5. projects[v] + Cardinality(Inserting(v)) < FreeProjectLimit + Cardinality(Requests)
    BY <2>1 DEF LimitOverrun
  <2> QED BY <2>1, <2>3, <2>4, <2>5, Constants
<1> QED BY <1>1, <1>2, <1>3, <1>4, <1>5, <1>6, <1>7

--------------------------------------------------------------------------
(* The webhook: its steps leave the requests of users alone. *)

LEMMA PostStep ==
  ASSUME IInv, NEW e \in EventIds, NEW ids \in Customers, NEW kind \in Kinds, Post(e, ids, kind)
  PROVE  IInv'
<1> USE DEF IInv
<1>1. EventOf("posted", ids, kind[1], kind[2]) \in Event
  <2>1. kind[1] \in EventTypes /\ kind[2] \in BOOLEAN
    BY SubscriptionAssumption DEF SubscriptionAssumption
  <2> QED BY <2>1 DEF EventOf, Event
<1>2. /\ event[e].state = "unborn" /\ event[e].to = {}
      /\ event'[e].to = {} /\ ~ event'[e].missed
      /\ \A d \in EventIds \ {e} : event'[d] = event[d] /\ (Plan(d))' = Plan(d)
      /\ UNCHANGED <<users, sub, open, projects, hook, req, failures, late>>
  BY DEF Post, EventOf, Tried, TypeOK, Plan
<1>3. TypeOK'
  BY <1>1 DEF Post, TypeOK
<1>4. \A w \in Hooks : hook[w].pc # "idle" => hook[w].event \in EventIds \ {e}
  BY <1>2 DEF Hooked
<1>5. Hooked'
  BY <1>2, <1>4 DEF Hooked, Candidates
<1>6. Tried'
  <2>1. \A d \in EventIds \ {e} : \A n : NoneOf(d, n)' <=> NoneOf(d, n)
    BY <1>2 DEF NoneOf
  <2>2. event'[e].state = "posted"
    BY DEF Post, EventOf, TypeOK
  <2> QED BY <1>2, <1>4, <2>1, <2>2 DEF Tried
<1>7. Asked'
  BY <1>2 DEF Asked
<1>8. OpenInv'
  <2>1. \A u \in Users : Unclosed(u) => Unclosed(u)'
    BY <1>2 DEF Unclosed, At
  <2> QED BY <1>2, <2>1 DEF OpenInv, UserIsPro
<1>9. \A u \in Users : NeverPro(u)' => NeverPro(u)
  BY <1>2 DEF NeverPro
<1>10. ProKnown'
  BY <1>2, <1>9 DEF ProKnown, UserIsPro
<1>11. LimitOverrun'
  BY <1>2, <1>9, LimitKept
<1> QED BY <1>3, <1>5, <1>6, <1>7, <1>8, <1>10, <1>11

\* A request in the webhook's slots ends, begins, or looks up another candidate; no
\* row is written.
LEMMA SlotStep ==
  ASSUME IInv, UNCHANGED <<users, sub, open, projects, event, req, late>>,
         TypeOK', Hooked',
         NEW w \in Hooks, NEW h, hook' = [hook EXCEPT ![w] = h],
         h.pc # "idle" /\ ~ event[h.event].missed =>
           /\ NoneOf(h.event, h.next - 1)
           /\ h.pc # "resolve" => event[h.event].to \cap users \subseteq {h.user},
         h.pc # "reply"
  PROVE  IInv'
<1> USE DEF IInv
<1>0. \A v \in Hooks : hook'[v] = IF v = w THEN h ELSE hook[v]
  BY DEF TypeOK
<1>1. Tried'
  BY <1>0 DEF Tried, NoneOf
<1>2. Asked'
  BY DEF Asked
<1>3. OpenInv'
  <2>1. \A u \in Users : Unclosed(u) => Unclosed(u)'
    BY <1>0 DEF Unclosed, At, Plan
  <2> QED BY <2>1 DEF OpenInv, UserIsPro
<1>4. \A u \in Users : NeverPro(u)' => NeverPro(u)
  BY DEF NeverPro, Plan
<1>5. ProKnown'
  BY <1>4 DEF ProKnown, UserIsPro
<1>6. LimitOverrun'
  BY <1>4, LimitKept
<1> QED BY <1>1, <1>2, <1>3, <1>5, <1>6

LEMMA DeliverStep ==
  ASSUME IInv, NEW w \in Hooks, NEW e \in EventIds, Deliver(w, e)
  PROVE  IInv'
<1> USE DEF IInv
<1> DEFINE h == [NoHook EXCEPT !.pc = "resolve", !.event = e]
<1>1. h \in Hook /\ h.pc = "resolve" /\ h.event = e /\ h.next = 1
  BY DEF Hook, NoHook
<1>2. hook' = [hook EXCEPT ![w] = h] /\ UNCHANGED <<users, sub, open, projects, event, req, failures, late>>
  BY DEF Deliver
<1>3. TypeOK'
  BY <1>1, <1>2 DEF TypeOK
<1>4. Hooked'
  <2>1. \A v \in Hooks : hook'[v] = IF v = w THEN h ELSE hook[v]
    BY <1>2 DEF TypeOK
  <2>2. event[e].state = "posted" /\ \A v \in Hooks : hook[v].event # e
    BY DEF Deliver
  <2>3. e # None
    BY Constants
  <2> HIDE DEF h
  <2> QED BY <1>1, <1>2, <2>1, <2>2, <2>3 DEF Hooked, Candidates
<1> HIDE DEF h
<1>5. NoneOf(h.event, h.next - 1)
  BY <1>1 DEF NoneOf
<1> QED BY <1>1, <1>2, <1>3, <1>4, <1>5, SlotStep

LEMMA EmptySlot ==
  ASSUME IInv, NEW w \in Hooks, hook' = [hook EXCEPT ![w] = NoHook],
         UNCHANGED <<users, sub, open, projects, event, req, late>>, failures' \in 0 .. MaxFailures
  PROVE  IInv'
<1> USE DEF IInv
<1>1. TypeOK'
  BY NoHookTyped DEF TypeOK
<1>2. Hooked'
  <2>1. \A v \in Hooks : hook'[v] = IF v = w THEN NoHook ELSE hook[v]
    BY DEF TypeOK
  <2> QED BY <2>1, NoHookTyped DEF Hooked, Candidates
<1> QED BY <1>1, <1>2, NoHookTyped, SlotStep

LEMMA HookFailStep ==
  ASSUME IInv, NEW w \in Hooks, HookFail(w)
  PROVE  IInv'
<1>1. failures' \in 0 .. MaxFailures
  BY Constants DEF HookFail, IInv, TypeOK
<1> QED BY <1>1, EmptySlot DEF HookFail, Others

LEMMA ResolveFoundStep ==
  ASSUME IInv, NEW w \in Hooks, ResolveFound(w)
  PROVE  IInv'
<1> USE DEF IInv
<1> DEFINE e == hook[w].event
           u == Candidates(w)[hook[w].next]
           h == [hook[w] EXCEPT !.pc = "upsert", !.user = u]
<1>1. /\ hook[w].pc = "resolve" /\ hook[w].next <= Len(Candidates(w)) /\ u \in users
      /\ UNCHANGED <<users, sub, open, projects, event, req, failures, late>>
  BY DEF ResolveFound, Resolving, At, Others
<1>2. /\ hook[w] \in Hook /\ e \in EventIds /\ event[e].state = "posted"
      /\ Candidates(w) = event[e].ids /\ Candidates(w) \in Seq(Users)
      /\ hook[w].next \in Nat \ {0}
  BY <1>1, HookTyped DEF Candidates
<1>3. u \in Users
  BY <1>1, <1>2
<1>4. /\ h \in Hook /\ h.pc = "upsert" /\ h.user = u /\ h.event = e /\ h.next = hook[w].next
      /\ hook' = [hook EXCEPT ![w] = h]
  BY <1>2, <1>3 DEF Hook, ResolveFound, TypeOK
<1> HIDE DEF h
<1>5. \A v \in Hooks : hook'[v] = IF v = w THEN h ELSE hook[v]
  BY <1>4 DEF TypeOK
<1>6. TypeOK'
  BY <1>1, <1>4 DEF TypeOK
<1>7. Hooked'
  BY <1>1, <1>2, <1>4, <1>5 DEF Hooked, Candidates
<1>8. ~ event[e].missed => NoneOf(e, h.next - 1)
  BY <1>1, <1>4 DEF Tried
<1>9. ASSUME ~ event[e].missed, NEW x \in event[e].to \cap users
      PROVE  x = u
  <2>1. PICK i \in 1 .. Len(event[e].ids) : event[e].ids[i] = x /\ NoneOf(e, i - 1)
    BY <1>2, <1>9 DEF Tried
  <2>2. i \in Nat \ {0} /\ hook[w].next \in Nat \ {0}
        /\ i <= Len(event[e].ids) /\ hook[w].next <= Len(event[e].ids)
    BY <1>1, <1>2, <2>1
  <2>3. ~ (i < hook[w].next)
    BY <1>8, <1>4, <1>9, <2>1, <2>2 DEF NoneOf
  <2>4. ~ (hook[w].next < i)
    BY <1>1, <1>2, <2>1, <2>2 DEF NoneOf
  <2>5. i = hook[w].next
    BY <2>2, <2>3, <2>4
  <2> QED BY <1>2, <2>1, <2>5
<1> QED BY <1>1, <1>4, <1>6, <1>7, <1>8, <1>9, SlotStep

LEMMA ResolveNextStep ==
  ASSUME IInv, NEW w \in Hooks, ResolveNext(w)
  PROVE  IInv'
<1> USE DEF IInv
<1> DEFINE e == hook[w].event
           h == [hook[w] EXCEPT !.next = hook[w].next + 1]
<1>1. /\ hook[w].pc = "resolve" /\ hook[w].next <= Len(Candidates(w))
      /\ Candidates(w)[hook[w].next] \notin users
      /\ UNCHANGED <<users, sub, open, projects, event, req, failures, late>>
  BY DEF ResolveNext, Resolving, At, Others
<1>2. /\ hook[w] \in Hook /\ e \in EventIds /\ event[e].state = "posted"
      /\ Candidates(w) = event[e].ids /\ Candidates(w) \in Seq(Users)
      /\ hook[w].next \in Nat \ {0}
  BY <1>1, HookTyped DEF Candidates
<1>3. /\ h \in Hook /\ h.pc = "resolve" /\ h.event = e /\ h.next = hook[w].next + 1
      /\ hook' = [hook EXCEPT ![w] = h]
  <2>1. hook[w].next + 1 \in Nat
    BY <1>2
  <2>2. h \in Hook /\ h.pc = "resolve" /\ h.event = e /\ h.next = hook[w].next + 1
    BY <1>1, <1>2, <2>1 DEF Hook
  <2>3. hook' = [hook EXCEPT ![w] = h]
    BY DEF ResolveNext, TypeOK
  <2> QED BY <2>2, <2>3
<1> HIDE DEF h
<1>4. \A v \in Hooks : hook'[v] = IF v = w THEN h ELSE hook[v]
  BY <1>3 DEF TypeOK
<1>5. TypeOK'
  BY <1>1, <1>3 DEF TypeOK
<1>6. Hooked'
  BY <1>1, <1>2, <1>3, <1>4 DEF Hooked, Candidates
<1>7. ~ event[e].missed => NoneOf(e, h.next - 1)
  <2>1. ~ event[e].missed => NoneOf(e, hook[w].next - 1)
    BY <1>1 DEF Tried
  <2> QED BY <1>1, <1>2, <1>3, <2>1 DEF NoneOf
<1> QED BY <1>1, <1>3, <1>5, <1>6, <1>7, SlotStep

\* The event of a failed look-up is marked; nothing asks more of it from then on.
LEMMA ResolveErrStep ==
  ASSUME IInv, NEW w \in Hooks, ResolveErr(w)
  PROVE  IInv'
<1> USE DEF IInv
<1> DEFINE e == hook[w].event
           h == [hook[w] EXCEPT !.next = hook[w].next + 1]
<1>1. /\ hook[w].pc = "resolve"
      /\ failures < MaxFailures /\ failures' = failures + 1
      /\ event' = [event EXCEPT ![e].missed = TRUE]
      /\ UNCHANGED <<users, sub, open, projects, req, late>>
  BY DEF ResolveErr, Resolving, At, Others
<1>2. /\ hook[w] \in Hook /\ e \in EventIds /\ event[e].state = "posted"
      /\ hook[w].next \in Nat \ {0}
  BY <1>1, HookTyped
<1>3. /\ h \in Hook /\ h.pc = "resolve" /\ h.event = e /\ h.next \in Nat \ {0}
      /\ hook' = [hook EXCEPT ![w] = h]
  <2>1. hook[w].next + 1 \in Nat \ {0}
    BY <1>2
  <2>2. h \in Hook /\ h.pc = "resolve" /\ h.event = e /\ h.next = hook[w].next + 1
    BY <1>1, <1>2, <2>1 DEF Hook
  <2>3. hook' = [hook EXCEPT ![w] = h]
    BY DEF ResolveErr, TypeOK
  <2> QED BY <2>1, <2>2, <2>3
<1> HIDE DEF h
<1>4. \A v \in Hooks : hook'[v] = IF v = w THEN h ELSE hook[v]
  BY <1>3 DEF TypeOK
<1>5. event[e] \in Event /\ event'[e] = [event[e] EXCEPT !.missed = TRUE]
  BY <1>1, <1>2 DEF TypeOK
<1>5a. \A d \in EventIds : d # e => event'[d] = event[d]
  BY <1>1 DEF TypeOK
<1>6. \A d \in EventIds : /\ event'[d].ids = event[d].ids /\ event'[d].to = event[d].to
                           /\ event'[d].state = event[d].state
                           /\ event'[d].type = event[d].type /\ event'[d].pro = event[d].pro
  BY <1>5, <1>5a DEF Event
<1>6a. event'[e].missed = TRUE /\ \A d \in EventIds : d # e => event'[d].missed = event[d].missed
  BY <1>5, <1>5a DEF Event
<1>7. /\ \A d \in EventIds : (Plan(d))' = Plan(d)
      /\ \A d \in EventIds : \A n : NoneOf(d, n)' <=> NoneOf(d, n)
  BY <1>1, <1>6 DEF Plan, NoneOf
<1>8. TypeOK'
  <2>1. [event[e] EXCEPT !.missed = TRUE] \in Event
    BY <1>5 DEF Event
  <2>2. event' \in [EventIds -> Event]
    BY <1>1, <1>2, <1>5, <2>1 DEF TypeOK
  <2>3. failures' \in 0 .. MaxFailures
    BY <1>1, Constants DEF TypeOK
  <2> QED BY <1>1, <1>3, <2>2, <2>3 DEF TypeOK
<1>9. Hooked'
  <2>1. /\ hook'[w].pc = "resolve" /\ hook'[w].event = e /\ hook'[w].next \in Nat \ {0}
        /\ hook[w].pc = "resolve"
    BY <1>1, <1>3, <1>4
  <2>2. \A v \in Hooks : v # w => hook'[v] = hook[v]
    BY <1>4
  <2> QED BY <1>2, <1>6, <2>1, <2>2 DEF Hooked, Candidates
<1>10. Tried'
  <2>1. \A v \in Hooks : v # w /\ hook[v].pc # "idle" => hook[v].event \in EventIds \ {e}
    BY <1>2, Constants DEF Hooked
  <2>2. \A v \in Hooks : hook'[v].pc # "idle" /\ ~ event'[hook'[v].event].missed => v # w
    BY <1>3, <1>4, <1>6a
  <2> QED BY <1>1, <1>4, <1>6, <1>7, <1>6a, <2>1, <2>2 DEF Tried
<1>11. Asked'
  BY <1>1 DEF Asked
<1>12. OpenInv'
  <2>1. ASSUME NEW u \in Users, Unclosed(u) PROVE Unclosed(u)'
    <3>1. PICK d \in EventIds :
            /\ u \in event[d].to
            /\ Plan(d) = "free"
            /\ \/ event[d].missed
               \/ /\ event[d].state = "posted"
                  /\ \A v \in Hooks : hook[v].event = d => ~ At(v, "reply")
      BY <2>1 DEF Unclosed
    <3>2. u \in event'[d].to /\ (Plan(d))' = "free"
      BY <1>6, <1>7, <3>1
    <3>3. event[d].missed => event'[d].missed
      BY <1>6a
    <3>4. event'[d].state = event[d].state
      BY <1>6
    <3>5. \A v \in Hooks : At(v, "reply")' /\ hook'[v].event = d => At(v, "reply") /\ hook[v].event = d
      BY <1>3, <1>4 DEF At
    <3> QED BY <3>1, <3>2, <3>3, <3>4, <3>5 DEF Unclosed
  <2> QED BY <1>1, <2>1 DEF OpenInv, UserIsPro
<1>13. \A u \in Users : NeverPro(u)' => NeverPro(u)
  BY <1>6, <1>7 DEF NeverPro
<1>14. ProKnown'
  BY <1>1, <1>13 DEF ProKnown, UserIsPro
<1>15. LimitOverrun'
  BY <1>1, <1>13, LimitKept
<1> QED BY <1>8, <1>9, <1>10, <1>11, <1>12, <1>14, <1>15

\* An answer of 200.  It may not leave a user open whom the event downgrades, unless
\* the second statement has run.
LEMMA AckStep ==
  ASSUME IInv, NEW w \in Hooks, hook[w].pc # "idle",
         NEW state \in {"acked", "dropped"}, Ack(w, state),
         hook' = [hook EXCEPT ![w] = NoHook],
         UNCHANGED <<users, sub, open, projects, req, failures, late>>,
         \A u \in event[hook[w].event].to :
            open[u] => event[hook[w].event].missed \/ At(w, "reply")
  PROVE  IInv'
<1> USE DEF IInv
<1> DEFINE e == hook[w].event
<1>1. e \in EventIds /\ event[e].state = "posted"
  BY HookTyped
<1>2. event[e] \in Event /\ event'[e] = [event[e] EXCEPT !.state = state]
  BY <1>1 DEF TypeOK, Ack
<1>3. \A d \in EventIds : d # e => event'[d] = event[d]
  BY <1>1 DEF TypeOK, Ack
<1>4. /\ \A d \in EventIds : /\ event'[d].ids = event[d].ids /\ event'[d].to = event[d].to
                              /\ event'[d].type = event[d].type /\ event'[d].pro = event[d].pro
                              /\ event'[d].missed = event[d].missed
      /\ event'[e].state = state
  BY <1>2, <1>3 DEF Event
<1>5. /\ \A d \in EventIds : (Plan(d))' = Plan(d)
      /\ \A d \in EventIds : \A n : NoneOf(d, n)' <=> NoneOf(d, n)
  BY <1>4 DEF Plan, NoneOf
<1>6. \A v \in Hooks : hook'[v] = IF v = w THEN NoHook ELSE hook[v]
  BY DEF TypeOK
<1>7. \A v \in Hooks : v # w /\ hook[v].pc # "idle" => hook[v].event \in EventIds \ {e}
  BY <1>1, Constants DEF Hooked
<1>8. TypeOK'
  <2>1. event'[e] \in Event
    BY <1>2 DEF Event
  <2>2. event' \in [EventIds -> Event]
    BY <1>1, <1>3, <2>1 DEF TypeOK, Ack
  <2> QED BY <2>2, NoHookTyped DEF TypeOK
<1>9. Hooked'
  BY <1>3, <1>6, <1>7, NoHookTyped DEF Hooked, Candidates
<1>10. Tried'
  <2>1. \A d \in EventIds : event'[d].state = "unborn" => event[d].state = "unborn"
    BY <1>3, <1>4
  <2>2. \A v \in Hooks : hook'[v].pc # "idle" => v # w /\ hook'[v] = hook[v]
    BY <1>6, NoHookTyped
  <2> QED BY <1>4, <1>5, <1>7, <2>1, <2>2 DEF Tried
<1>11. Asked'
  BY DEF Asked
<1>12. ASSUME NEW u \in Users, open[u], Unclosed(u)
       PROVE  Unclosed(u)'
  <2>1. PICK d \in EventIds :
          /\ u \in event[d].to
          /\ Plan(d) = "free"
          /\ \/ event[d].missed
             \/ /\ event[d].state = "posted"
                /\ \A v \in Hooks : hook[v].event = d => ~ At(v, "reply")
    BY <1>12 DEF Unclosed
  <2>2. u \in event'[d].to /\ (Plan(d))' = "free"
    BY <1>4, <1>5, <2>1
  <2>3. CASE event[d].missed
    BY <1>4, <2>2, <2>3 DEF Unclosed
  <2>4. CASE ~ event[d].missed
    <3>1. d # e
      BY <1>12, <2>1, <2>4
    <3>2. event'[d].state = "posted"
      BY <1>3, <2>1, <2>4, <3>1
    <3>3. \A v \in Hooks : hook'[v].event = d => ~ At(v, "reply")'
      BY <1>6, <2>1, <2>4, NoHookTyped DEF At
    <3> QED BY <2>2, <3>2, <3>3 DEF Unclosed
  <2> QED BY <2>3, <2>4
<1>13. OpenInv'
  BY <1>12 DEF OpenInv, UserIsPro
<1>14. \A u \in Users : NeverPro(u)' => NeverPro(u)
  BY <1>4, <1>5 DEF NeverPro
<1>15. ProKnown'
  BY <1>14 DEF ProKnown, UserIsPro
<1>16. LimitOverrun'
  BY <1>14, LimitKept
<1> QED BY <1>8, <1>9, <1>10, <1>11, <1>13, <1>15, <1>16

LEMMA ResolveNoneStep ==
  ASSUME IInv, NEW w \in Hooks, ResolveNone(w)
  PROVE  IInv'
<1> USE DEF IInv
<1> DEFINE e == hook[w].event
<1>1. hook[w].pc = "resolve" /\ hook[w].next > Len(Candidates(w))
  BY DEF ResolveNone, At
<1>2. e \in EventIds /\ Candidates(w) = event[e].ids /\ Candidates(w) \in Seq(Users)
      /\ hook[w].next \in Nat \ {0}
  BY <1>1, HookTyped DEF Candidates
<1>3. ASSUME NEW u \in event[e].to, open[u]
      PROVE  event[e].missed
  <2> SUFFICES ASSUME ~ event[e].missed PROVE FALSE
    OBVIOUS
  <2>1. NoneOf(e, hook[w].next - 1)
    BY <1>1 DEF Tried
  <2>2. PICK i \in 1 .. Len(event[e].ids) : event[e].ids[i] = u
    BY <1>2 DEF Tried
  <2>3. i \in 1 .. hook[w].next - 1 /\ i <= Len(event[e].ids)
    BY <1>1, <1>2, <2>2
  <2>4. u \notin users
    BY <2>1, <2>2, <2>3 DEF NoneOf
  <2>5. u \in Users
    BY <1>2, EventTyped
  <2> QED BY <1>3, <2>4, <2>5 DEF TypeOK
<1> QED BY <1>1, <1>3, AckStep DEF ResolveNone, Others

LEMMA ReplyStep ==
  ASSUME IInv, NEW w \in Hooks, Reply(w)
  PROVE  IInv'
<1>1. At(w, "reply") /\ hook[w].pc # "idle"
  BY DEF Reply, At
<1> QED BY <1>1, AckStep DEF Reply, Others

LEMMA UpsertStep ==
  ASSUME IInv, NEW w \in Hooks, Upsert(w)
  PROVE  IInv'
<1> USE DEF IInv
<1> SUFFICES ASSUME NEW e, NEW u, e = hook[w].event, u = hook[w].user
             PROVE  IInv'
  OBVIOUS
<1> DEFINE h == [hook[w] EXCEPT !.pc = IF Plan(e) = "free" THEN "close" ELSE "reply"]
<1>1. hook[w].pc = "upsert" /\ UNCHANGED <<users, open, projects, req, failures, late>>
  BY DEF Upsert, At, Others
<1>2. /\ hook[w] \in Hook /\ e \in EventIds /\ event[e].state = "posted"
      /\ event[e].ids \in Seq(Users) /\ hook[w].next \in Nat \ {0}
      /\ u \in Users
  BY <1>1, HookTyped DEF Candidates
<1>3. CASE u \notin users
  BY <1>1, <1>3, EmptySlot DEF Upsert, TypeOK
<1>4. CASE u \in users
  <2>1. /\ sub' = [sub EXCEPT ![u] = SubOf(e)]
        /\ event' = [event EXCEPT ![e].to = @ \cup {u}]
        /\ hook' = [hook EXCEPT ![w] = h]
    BY <1>4 DEF Upsert, Go, TypeOK
  <2>2. /\ h \in Hook /\ h.event = e /\ h.user = u /\ h.next = hook[w].next
        /\ h.pc = (IF Plan(e) = "free" THEN "close" ELSE "reply")
    BY <1>2 DEF Hook
  <2> HIDE DEF h
  <2>3. \A v \in Hooks : hook'[v] = IF v = w THEN h ELSE hook[v]
    BY <2>1 DEF TypeOK
  <2>4. \A d \in EventIds : d # e => event'[d] = event[d]
    BY <2>1 DEF TypeOK
  <2>5. event[e] \in Event /\ event'[e] = [event[e] EXCEPT !.to = event[e].to \cup {u}]
    BY <1>2, <2>1 DEF TypeOK
  <2>6. /\ \A d \in EventIds : /\ event'[d].ids = event[d].ids /\ event'[d].state = event[d].state
                                /\ event'[d].type = event[d].type /\ event'[d].pro = event[d].pro
                                /\ event'[d].missed = event[d].missed
        /\ event'[e].to = event[e].to \cup {u}
    BY <2>4, <2>5 DEF Event
  <2>7. /\ \A d \in EventIds : (Plan(d))' = Plan(d)
        /\ \A d \in EventIds : \A n : NoneOf(d, n)' <=> NoneOf(d, n)
    BY <1>1, <2>6 DEF Plan, NoneOf
  <2>8. \A v \in Hooks : v # w /\ hook[v].pc # "idle" => hook[v].event \in EventIds \ {e}
    BY <1>2, Constants DEF Hooked
  <2>9. hook[w].next <= Len(event[e].ids) /\ u = event[e].ids[hook[w].next]
    BY <1>1 DEF Hooked, Candidates
  <2>10. ~ event[e].missed => NoneOf(e, hook[w].next - 1) /\ event[e].to \cap users \subseteq {u}
    BY <1>1 DEF Tried
  <2>11. TypeOK'
    <3>1. event'[e] \in Event
      BY <1>2, <2>5 DEF Event
    <3>2. event' \in [EventIds -> Event]
      BY <1>2, <2>1, <2>4, <3>1 DEF TypeOK
    <3>3. SubOf(e) \in SubRow
      BY <1>2, EventTyped
    <3>4. sub' \in [Users -> SubRow]
      BY <1>2, <2>1, <3>3 DEF TypeOK
    <3>5. hook' \in [Hooks -> Hook]
      BY <2>1, <2>2 DEF TypeOK
    <3>6. \A x \in Users \ users' : sub'[x] = NoSub /\ ~ open'[x] /\ projects'[x] = 0
      BY <1>1, <1>4, <2>1 DEF TypeOK
    <3> QED BY <1>1, <3>2, <3>4, <3>5, <3>6 DEF TypeOK
  <2>12. Hooked'
    <3>1. \A v \in Hooks : v # w => hook'[v] = hook[v]
      BY <2>3
    <3>2. /\ hook'[w].pc \in {"close", "reply"} /\ hook'[w].event = e
          /\ hook'[w].user = u /\ hook'[w].next = hook[w].next
      BY <2>2, <2>3
    <3>3. ASSUME NEW v \in Hooks, hook'[v].pc # "idle"
          PROVE  /\ hook'[v].event \in EventIds
                 /\ event'[hook'[v].event].state = "posted"
                 /\ hook'[v].next \in Nat \ {0}
                 /\ hook'[v].pc # "resolve" =>
                      /\ hook'[v].next <= Len(event'[hook'[v].event].ids)
                      /\ hook'[v].user = event'[hook'[v].event].ids[hook'[v].next]
                 /\ hook'[v].pc \in {"close", "reply"} => hook'[v].user \in event'[hook'[v].event].to
      <4>1. CASE v = w
        BY <1>2, <2>6, <2>9, <3>2, <4>1
      <4>2. CASE v # w
        <5>1. hook'[v] = hook[v] /\ hook[v].event \in EventIds \ {e}
          BY <2>8, <3>1, <3>3, <4>2
        <5>2. event'[hook[v].event] = event[hook[v].event]
          BY <2>4, <5>1
        <5> QED BY <3>3, <5>1, <5>2 DEF Hooked, Candidates
      <4> QED BY <4>1, <4>2
    <3>4. \A v \in Hooks : hook'[v].pc = "idle" => hook'[v].event = None
      BY <3>1, <3>2 DEF Hooked
    <3>5. \A v \in Hooks : hook'[v].event = hook[v].event
      BY <3>1, <3>2
    <3>6. \A v, x \in Hooks : v # x /\ hook'[v].event # None => hook'[v].event # hook'[x].event
      BY <3>5 DEF Hooked
    <3> QED BY <3>3, <3>4, <3>6 DEF Hooked, Candidates
  <2>13. Tried'
    <3>1. \A d \in EventIds : event'[d].state = "unborn" => event'[d].to = {}
      BY <1>2, <2>4, <2>6 DEF Tried
    <3>2. ASSUME NEW d \in EventIds, ~ event'[d].missed, NEW x \in event'[d].to
          PROVE  \E i \in 1 .. Len(event'[d].ids) : event'[d].ids[i] = x /\ NoneOf(d, i - 1)'
      <4>1. CASE x \in event[d].to
        BY <2>6, <2>7, <3>2, <4>1 DEF Tried
      <4>2. CASE x \notin event[d].to
        <5>1. d = e /\ x = u
          BY <2>4, <2>6, <3>2, <4>2
        <5>2. hook[w].next \in 1 .. Len(event[e].ids)
          BY <1>2, <2>9
        <5> QED BY <2>6, <2>7, <2>9, <2>10, <3>2, <5>1, <5>2
      <4> QED BY <4>1, <4>2
    <3>3. ASSUME NEW v \in Hooks, hook'[v].pc # "idle", ~ event'[hook'[v].event].missed
          PROVE  /\ NoneOf(hook[v].event, hook[v].next - 1)'
                 /\ hook'[v].pc # "resolve" =>
                      event'[hook'[v].event].to \cap users' \subseteq {hook'[v].user}
      <4>1. CASE v = w
        <5>1. hook'[w].event = e /\ hook'[w].user = u /\ hook'[w].next = hook[w].next
          BY <2>2, <2>3
        <5> QED BY <1>1, <1>2, <2>6, <2>7, <2>10, <3>3, <4>1, <5>1
      <4>2. CASE v # w
        <5>1. hook'[v] = hook[v] /\ hook[v].event \in EventIds \ {e}
          BY <2>3, <2>8, <3>3, <4>2
        <5> QED BY <1>1, <2>4, <2>7, <3>3, <5>1 DEF Tried
      <4> QED BY <4>1, <4>2
    <3> QED BY <3>1, <3>2, <3>3 DEF Tried
  <2>14. Asked'
    BY <1>1 DEF Asked
  <2>15. ASSUME NEW x \in Users \ {u}, open[x], Unclosed(x)
         PROVE  Unclosed(x)'
    <3>1. PICK d \in EventIds :
            /\ x \in event[d].to
            /\ Plan(d) = "free"
            /\ \/ event[d].missed
               \/ /\ event[d].state = "posted"
                  /\ \A v \in Hooks : hook[v].event = d => ~ At(v, "reply")
      BY <2>15 DEF Unclosed
    <3>2. x \in users
      BY <2>15 DEF TypeOK
    <3>3. x \in event'[d].to /\ (Plan(d))' = "free"
      BY <2>4, <2>6, <2>7, <3>1
    <3>4. CASE event[d].missed
      BY <2>6, <3>3, <3>4 DEF Unclosed
    <3>5. CASE ~ event[d].missed
      <4>1. d # e
        BY <2>10, <2>15, <3>1, <3>2, <3>5
      <4>2. event'[d].state = "posted"
        BY <2>4, <3>1, <3>5, <4>1
      <4>3. \A v \in Hooks : hook'[v].event = d => ~ At(v, "reply")'
        BY <2>2, <2>3, <3>1, <3>5, <4>1 DEF At
      <4> QED BY <3>3, <4>2, <4>3 DEF Unclosed
    <3> QED BY <3>4, <3>5
  <2>16. sub'[u].plan = Plan(e) /\ \A x \in Users \ {u} : sub'[x] = sub[x]
    BY <1>2, <2>1 DEF TypeOK, SubOf
  <2>17. ASSUME Plan(e) = "free"
         PROVE  Unclosed(u)'
    <3>1. u \in event'[e].to /\ (Plan(e))' = "free" /\ event'[e].state = "posted"
      BY <1>2, <2>6, <2>7, <2>17
    <3>2. \A v \in Hooks : hook'[v].event = e => ~ At(v, "reply")'
      BY <1>1, <1>2, <2>2, <2>3, <2>17, Constants DEF At, Hooked
    <3> QED BY <1>2, <3>1, <3>2 DEF Unclosed
  <2>18. OpenInv'
    <3>1. Plan(e) \in {"free", "pro"}
      BY <1>2, EventTyped
    <3> QED BY <1>1, <2>15, <2>16, <2>17, <3>1 DEF OpenInv, UserIsPro
  <2>19. \A d \in EventIds : event[d].to \subseteq event'[d].to
    BY <2>4, <2>6
  <2>20. \A x \in Users : NeverPro(x)' => NeverPro(x)
    BY <2>7, <2>19 DEF NeverPro
  <2>21. ProKnown'
    <3>1. NeverPro(u)' => Plan(e) = "free"
      BY <1>2, <2>6, <2>7 DEF NeverPro
    <3> QED BY <2>16, <2>20, <3>1 DEF ProKnown, UserIsPro
  <2>22. LimitOverrun'
    BY <1>1, <2>20, LimitKept
  <2> QED BY <2>11, <2>12, <2>13, <2>14, <2>18, <2>21, <2>22
<1> QED BY <1>3, <1>4

LEMMA CloseToSwapsStep ==
  ASSUME IInv, NEW w \in Hooks, CloseToSwaps(w)
  PROVE  IInv'
<1> USE DEF IInv
<1> SUFFICES ASSUME NEW e, NEW u, e = hook[w].event, u = hook[w].user
             PROVE  IInv'
  OBVIOUS
<1> DEFINE h == [hook[w] EXCEPT !.pc = "reply"]
<1>1. /\ hook[w].pc = "close"
      /\ open' = [open EXCEPT ![u] = FALSE] /\ late' = [late EXCEPT ![u] = FALSE]
      /\ UNCHANGED <<users, sub, projects, event, req, failures>>
  BY DEF CloseToSwaps, At
<1>2. hook[w] \in Hook /\ e \in EventIds /\ u \in Users /\ u \in event[e].to
  BY <1>1, HookTyped DEF Hooked
<1>3. /\ h \in Hook /\ h.event = e /\ h.user = u /\ h.next = hook[w].next /\ h.pc = "reply"
      /\ hook' = [hook EXCEPT ![w] = h]
  BY <1>2 DEF Hook, CloseToSwaps, Go, TypeOK
<1> HIDE DEF h
<1>4. \A v \in Hooks : hook'[v] = IF v = w THEN h ELSE hook[v]
  BY <1>3 DEF TypeOK
<1>5. \A x \in Users : /\ x # u => open'[x] = open[x] /\ late'[x] = late[x]
                       /\ x = u => open'[x] = FALSE
  BY <1>1 DEF TypeOK
<1>6. TypeOK'
  <2>1. \A x \in Users \ users' : sub'[x] = NoSub /\ ~ open'[x] /\ projects'[x] = 0
    BY <1>1, <1>5 DEF TypeOK
  <2> QED BY <1>1, <1>3, <2>1 DEF TypeOK
<1>7. Hooked'
  BY <1>1, <1>2, <1>3, <1>4 DEF Hooked, Candidates
<1>8. Tried'
  BY <1>1, <1>3, <1>4 DEF Tried, NoneOf
<1>9. Asked'
  BY <1>1 DEF Asked
<1>10. ASSUME NEW x \in Users \ {u}, open[x], Unclosed(x)
       PROVE  Unclosed(x)'
  <2>1. PICK d \in EventIds :
          /\ x \in event[d].to
          /\ Plan(d) = "free"
          /\ \/ event[d].missed
             \/ /\ event[d].state = "posted"
                /\ \A v \in Hooks : hook[v].event = d => ~ At(v, "reply")
    BY <1>10 DEF Unclosed
  <2>2. x \in users
    BY <1>10 DEF TypeOK
  <2>3. x \in event'[d].to /\ (Plan(d))' = "free"
    BY <1>1, <2>1 DEF Plan
  <2>4. CASE event[d].missed
    BY <1>1, <2>3, <2>4 DEF Unclosed
  <2>5. CASE ~ event[d].missed
    <3>1. d # e
      BY <1>1, <1>10, <2>1, <2>2, <2>5 DEF Tried
    <3>2. \A v \in Hooks : hook'[v].event = d => ~ At(v, "reply")'
      BY <1>3, <1>4, <2>1, <2>5, <3>1 DEF At
    <3> QED BY <1>1, <2>1, <2>3, <2>5, <3>2 DEF Unclosed
  <2> QED BY <2>4, <2>5
<1>11. OpenInv'
  BY <1>1, <1>5, <1>10 DEF OpenInv, UserIsPro
<1>12. \A x \in Users : NeverPro(x)' => NeverPro(x)
  BY <1>1 DEF NeverPro, Plan
<1>13. ProKnown'
  BY <1>1, <1>12 DEF ProKnown, UserIsPro
<1>14. LimitOverrun'
  BY <1>1, <1>12, LimitKept
<1> QED BY <1>6, <1>7, <1>8, <1>9, <1>11, <1>13, <1>14

LEMMA HookSteps ==
  ASSUME IInv, NEW w \in Hooks, HookStep(w)
  PROVE  IInv'
BY ResolveFoundStep, ResolveNextStep, ResolveNoneStep, UpsertStep, CloseToSwapsStep, ReplyStep
   DEF HookStep

--------------------------------------------------------------------------
(* The theorems *)

LEMMA Stutter ==
  ASSUME IInv, UNCHANGED vars
  PROVE  IInv'
<1> USE DEF IInv, vars
<1>1. TypeOK'
  BY DEF TypeOK
<1>2. Hooked' /\ Tried' /\ Asked'
  BY DEF Hooked, Tried, Asked, Candidates, NoneOf
<1>3. OpenInv' /\ ProKnown'
  BY DEF OpenInv, ProKnown, Unclosed, NeverPro, UserIsPro, Plan, At
<1>4. LimitOverrun'
  BY LimitKept DEF NeverPro, Plan
<1> QED BY <1>1, <1>2, <1>3, <1>4

LEMMA NextInv ==
  ASSUME IInv, [Next]_vars
  PROVE  IInv'
<1>1. ASSUME NEW e \in EventIds, NEW ids \in Customers, NEW kind \in Kinds, Post(e, ids, kind)
      PROVE  IInv'
  BY <1>1, PostStep
<1>2. ASSUME NEW w \in Hooks, HookStep(w) \/ ResolveErr(w) \/ HookFail(w)
      PROVE  IInv'
  BY <1>2, HookSteps, ResolveErrStep, HookFailStep
<1>3. ASSUME NEW w \in Hooks, NEW e \in EventIds, Deliver(w, e)
      PROVE  IInv'
  BY <1>3, DeliverStep
<1>4. ASSUME NEW r \in Requests, Statement(r) \/ Abandon(r)
      PROVE  IInv'
  BY <1>4, StatementStep, AbandonStep
<1>5. ASSUME NEW r \in Requests, NEW u \in Users, Ask(r, u)
      PROVE  IInv'
  BY <1>5, AskStep
<1>6. ASSUME NEW u \in Users, DeleteUser(u)
      PROVE  IInv'
  BY <1>6, DeleteUserStep
<1>7. CASE Restart
  BY <1>7, RestartStep
<1>8. CASE UNCHANGED vars
  BY <1>8, Stutter
<1> QED BY <1>1, <1>2, <1>3, <1>4, <1>5, <1>6, <1>7, <1>8 DEF Next

\* The inductive invariant: what a webhook request in flight and the candidates of
\* its event say of the rows it has written and will write.
THEOREM Inductive == Spec => []IInv
<1>1. Init => IInv
  BY InitInv
<1>2. IInv /\ [Next]_vars => IInv'
  BY NextInv
<1> QED BY <1>1, <1>2, PTL DEF Spec

\* TypeOK: every reachable state is well typed, and a deleted account leaves no row.
THEOREM Typed == Spec => []TypeOK
<1>1. IInv => TypeOK
  BY DEF IInv
<1> QED BY <1>1, Inductive, PTL

\* FreeLeavesMarketplace: whoever is on the free plan leaves the swap marketplace,
\* although the plan and the flag are written by two statements (SetSubscriptionFromBilling)
\* and either request may die between them.
THEOREM FreeLeavesHolds == Spec => []FreeLeavesMarketplace
<1>1. \A u : Unclosed(u) => Downgrading(u)
  BY DEF Unclosed, Downgrading
<1>2. IInv => FreeLeavesMarketplace
  BY <1>1 DEF IInv, OpenInv, FreeLeavesMarketplace
<1> QED BY <1>2, Inductive, PTL

\* LimitOverrun: the free plan's limit on projects (CanUserCreateProject) is overrun
\* by no more than the requests in flight.
THEOREM LimitHolds == Spec => []LimitOverrun
<1>1. IInv => LimitOverrun
  BY DEF IInv
<1> QED BY <1>1, Inductive, PTL
==========================================================================
