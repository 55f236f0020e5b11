-------------------------- MODULE TestSwaps_proofs --------------------------
(***************************************************************************)
(* What holds of TestSwaps for every set of users, projects, swaps and     *)
(* requests.                                                               *)
(*                                                                         *)
(* Two facts carry the rest.  A row of test_swaps moves forward only, and  *)
(* keeps its projects (RowMove).  And what a goroutine has seen filed stays *)
(* filed as long as the swap is there: reports are deleted only with an    *)
(* account, and the account's deletion takes the swap too.                 *)
(***************************************************************************)
EXTENDS TestSwaps, FiniteSetTheorems, TLAPS

Creating == {"blocked", "cap", "member", "insert"}

Answering == {"accept", "read", "update"}

\* A request that creates a swap is the creator's of one project and is about
\* somebody else's; one that answers is about a row.
Asked ==
  \A r \in Requests :
    /\ req[r].pc \in Creating =>
         /\ req[r].from \in Projects /\ req[r].to \in Projects
         /\ Owner[req[r].from] = req[r].user /\ Owner[req[r].to] # req[r].user
    /\ req[r].pc \in Answering => req[r].swap \in SwapIds /\ Known(req[r].swap)
    /\ req[r].pc \in {"read", "update"} => req[r].kind \in {"declined", "cancelled"}

\* A goroutine works on rows, one at a time.
Working ==
  \A g \in Pairs :
    /\ \A s \in fulfil[g].todo : Known(s)
    /\ fulfil[g].pc \in {"to", "update", "notify"} =>
         fulfil[g].swap \in SwapIds /\ Known(fulfil[g].swap)

\* Types, and what requests and goroutines name.
TypeInv == TypeOK /\ Asked /\ Working

LEMMA Constants ==
  /\ Owner \in [Projects -> Users]
  /\ None \notin Projects /\ None \notin SwapIds /\ None \notin Users
  /\ MaxPending \in Nat \ {0}
  /\ IsFiniteSet(SwapIds) /\ IsFiniteSet(Requests)
BY SwapAssumption DEF SwapAssumption

LEMMA IdleTyped == Idle \in Request /\ Idle.pc = "idle"
BY DEF Idle, Request, Steps

LEMMA NoGoroutineTyped ==
  ASSUME NEW pc \in {"idle", "read", "lost"}
  PROVE  NoGoroutine(pc) \in Goroutine /\ NoGoroutine(pc).pc = pc /\ NoGoroutine(pc).todo = {}
BY DEF NoGoroutine, Goroutine

--------------------------------------------------------------------------
(* Rows move forward, and keep their projects. *)

RowMove(s) ==
  \/ swaps'[s] = swaps[s]
  \/ ~ Known(s) /\ swaps'[s].status = "pending"
  \/ /\ Known(s)
     /\ swaps'[s].from = swaps[s].from /\ swaps'[s].to = swaps[s].to
     /\ \/ swaps'[s].status = "gone"
        \/ swaps[s].status = "pending" /\ swaps'[s].status \in {"accepted", "declined", "cancelled"}
        \/ swaps[s].status = "accepted" /\ swaps'[s].status = "fulfilled"

\* Every row moves so, and none is born: the constraints of the table are kept.
NoInsert == \A s \in SwapIds : RowMove(s) /\ (~ Known(s) => swaps'[s] = swaps[s])

\* The conjuncts of TypeOK that are about test_swaps.
RowsOK ==
  /\ swaps \in [SwapIds -> SwapRow]
  /\ \A s \in SwapIds : Known(s) => /\ {swaps[s].from, swaps[s].to} \subseteq Projects
                                    /\ FromUser(s) # ToUser(s)
  /\ \A s, t \in SwapIds :
       /\ swaps[s].status = "pending" /\ swaps[t].status = "pending"
       /\ SamePair(s, swaps[t].from, swaps[t].to)
       => s = t

LEMMA NoInsertKeepsRows ==
  ASSUME TypeOK, NoInsert, swaps' \in [SwapIds -> SwapRow]
  PROVE  RowsOK'
<1>1. \A s \in SwapIds : swaps'[s].from = swaps[s].from /\ swaps'[s].to = swaps[s].to
  BY DEF NoInsert, RowMove
<1>2. \A s \in SwapIds : Known(s)' => Known(s)
  BY DEF NoInsert, Known
<1>3. \A s \in SwapIds : swaps'[s].status = "pending" => swaps[s].status = "pending"
  BY DEF NoInsert, RowMove, Known
<1>4. \A s \in SwapIds : Known(s)' => /\ {swaps'[s].from, swaps'[s].to} \subseteq Projects
                                      /\ (FromUser(s))' # (ToUser(s))'
  BY <1>1, <1>2 DEF TypeOK, FromUser, ToUser
<1>5. \A s, t \in SwapIds :
        /\ swaps'[s].status = "pending" /\ swaps'[t].status = "pending"
        /\ {swaps'[s].from, swaps'[s].to} = {swaps'[t].from, swaps'[t].to}
        => s = t
  BY <1>1, <1>3 DEF TypeOK, SamePair
<1> QED BY <1>4, <1>5 DEF RowsOK, SamePair

\* Rows that were known stay known.
LEMMA KnownStays ==
  ASSUME NEW s \in SwapIds, RowMove(s), Known(s)
  PROVE  Known(s)'
BY DEF RowMove, Known

\* One row moves.
LEMMA OneRow ==
  ASSUME TypeOK, NEW s \in SwapIds, Known(s), NEW status \in Statuses \ {"unborn", "pending"},
         swaps' = [swaps EXCEPT ![s].status = status],
         \/ status = "gone"
         \/ swaps[s].status = "pending" /\ status \in {"accepted", "declined", "cancelled"}
         \/ swaps[s].status = "accepted" /\ status = "fulfilled"
  PROVE  NoInsert /\ swaps' \in [SwapIds -> SwapRow]
<1>1. swaps[s] \in SwapRow /\ swaps'[s] = [swaps[s] EXCEPT !.status = status]
  BY DEF TypeOK
<1>2. swaps'[s] \in SwapRow
  BY <1>1 DEF SwapRow
<1>3. RowMove(s)
  BY <1>1 DEF RowMove, SwapRow
<1>4. \A t \in SwapIds \ {s} : swaps'[t] = swaps[t]
  BY DEF TypeOK
<1>5. NoInsert
  BY <1>3, <1>4 DEF NoInsert, RowMove
<1>6. swaps' \in [SwapIds -> SwapRow]
  BY <1>2, <1>4 DEF TypeOK
<1> QED BY <1>5, <1>6

LEMMA SameRows ==
  ASSUME TypeOK, swaps' = swaps
  PROVE  NoInsert /\ swaps' \in [SwapIds -> SwapRow]
BY DEF NoInsert, RowMove, TypeOK

\* Rows that move leave what requests and goroutines name in place.
LEMMA NamesStay ==
  ASSUME TypeOK, \A s \in SwapIds : RowMove(s)
  PROVE  /\ Asked /\ UNCHANGED req => Asked'
         /\ Working /\ UNCHANGED fulfil => Working'
<1>1. \A s \in SwapIds : Known(s) => Known(s)'
  BY KnownStays
<1>2. \A g \in Pairs : fulfil[g].todo \subseteq SwapIds
  BY DEF TypeOK, Goroutine
<1> QED BY <1>1, <1>2 DEF Asked, Working

--------------------------------------------------------------------------
(* Types.  A step keeps the invariant and moves rows forward. *)

Moves == \A s \in SwapIds : RowMove(s)

LEMMA PeopleTyped ==
  ASSUME TypeInv, NEW u \in Users, People(u)
  PROVE  TypeInv' /\ Moves
<1> USE DEF TypeInv
<1>1. ASSUME NEW p \in Projects, Join(u, p)
      PROVE  TypeInv' /\ Moves
  <2>1. member' \in [Pairs -> Roles]
    BY <1>1 DEF Join, TypeOK, Roles
  <2>2. RowsOK' /\ Moves
    BY <1>1, SameRows, NoInsertKeepsRows DEF Join, NoInsert, Moves
  <2>3. TypeOK'
    BY <1>1, <2>1, <2>2 DEF Join, TypeOK, RowsOK
  <2> QED BY <1>1, <2>2, <2>3, NamesStay DEF Join, Moves
<1>2. ASSUME NEW p \in Projects, File(u, p)
      PROVE  TypeInv' /\ Moves
  <2>1. fulfil' \in [Pairs -> Goroutine] /\ filed' \subseteq Pairs
    BY <1>2, NoGoroutineTyped DEF File, TypeOK, Pairs
  <2>2. RowsOK' /\ Moves
    BY <1>2, SameRows, NoInsertKeepsRows DEF File, NoInsert, Moves
  <2>3. TypeOK'
    BY <1>2, <2>1, <2>2 DEF File, TypeOK, RowsOK
  <2>4. Asked'
    BY <1>2, <2>2, NamesStay DEF File, Moves
  <2>5. \A g \in Pairs : fulfil'[g] = fulfil[g] \/ fulfil'[g] = NoGoroutine("read")
    BY <1>2 DEF File, TypeOK
  <2>6. Working'
    BY <1>2, <2>5, NoGoroutineTyped DEF File, Working, Known
  <2> QED BY <2>2, <2>3, <2>4, <2>6
<1>3. ASSUME NEW v \in Users, BlockUser(u, v)
      PROVE  TypeInv' /\ Moves
  <2>1. blocks' \subseteq Users \X Users
    BY <1>3 DEF BlockUser, TypeOK
  <2>2. swaps' \in [SwapIds -> SwapRow] /\ NoInsert
    BY <1>3 DEF BlockUser, TypeOK, NoInsert, RowMove, SwapRow, Statuses, Known
  <2>3. RowsOK' /\ Moves
    BY <2>2, NoInsertKeepsRows DEF NoInsert, Moves
  <2>4. TypeOK'
    BY <1>3, <2>1, <2>3 DEF BlockUser, TypeOK, RowsOK
  <2> QED BY <1>3, <2>3, <2>4, NamesStay DEF BlockUser, Moves
<1>4. ASSUME NEW v \in Users, UnblockUser(u, v)
      PROVE  TypeInv' /\ Moves
  <2>1. RowsOK' /\ Moves
    BY <1>4, SameRows, NoInsertKeepsRows DEF UnblockUser, NoInsert, Moves
  <2>2. TypeOK'
    BY <1>4, <2>1 DEF UnblockUser, TypeOK, RowsOK
  <2> QED BY <1>4, <2>1, <2>2, NamesStay DEF UnblockUser, Moves
<1>5. CASE DeleteUser(u)
  <2>1. member' \in [Pairs -> Roles] /\ users' \subseteq Users
        /\ filed' \subseteq Pairs /\ blocks' \subseteq Users \X Users
    BY <1>5 DEF DeleteUser, TypeOK, Roles
  <2>2. swaps' \in [SwapIds -> SwapRow] /\ NoInsert
    BY <1>5 DEF DeleteUser, TypeOK, NoInsert, RowMove, SwapRow, Statuses, Known
  <2>3. RowsOK' /\ Moves
    BY <2>2, NoInsertKeepsRows DEF NoInsert, Moves
  <2>4. TypeOK'
    BY <1>5, <2>1, <2>3 DEF DeleteUser, TypeOK, RowsOK
  <2> QED BY <1>5, <2>3, <2>4, NamesStay DEF DeleteUser, Moves
<1> QED BY <1>1, <1>2, <1>3, <1>4, <1>5 DEF People

\* A step that changes one request only.
LEMMA RequestTyped ==
  ASSUME TypeInv, UNCHANGED <<data, fulfil>>, req' \in [Requests -> Request], Asked'
  PROVE  TypeInv' /\ Moves
<1> USE DEF TypeInv
<1>1. RowsOK' /\ Moves
  BY SameRows, NoInsertKeepsRows DEF data, NoInsert, Moves
<1>2. TypeOK'
  BY <1>1 DEF data, TypeOK, RowsOK
<1>3. Working'
  BY <1>1, NamesStay DEF Moves
<1> QED BY <1>1, <1>2, <1>3

LEMMA AskTyped ==
  ASSUME TypeInv, NEW r \in Requests, NEW u \in Users, Ask(r, u)
  PROVE  TypeInv' /\ Moves
<1> USE DEF TypeInv
<1>1. ASSUME NEW p \in Projects, NEW q \in Projects, AskSwap(r, u, p, q)
      PROVE  TypeInv' /\ Moves
  <2> DEFINE new == [Idle EXCEPT !.pc = "blocked", !.kind = "create",
                                 !.user = u, !.from = p, !.to = q]
  <2>1. new \in Request /\ new.pc = "blocked" /\ new.user = u /\ new.from = p /\ new.to = q
    BY DEF Idle, Request, Steps
  <2>2. req' = [req EXCEPT ![r] = new] /\ UNCHANGED <<data, fulfil>>
        /\ Owner[p] = u /\ Owner[q] # u
    BY <1>1 DEF AskSwap, Begin
  <2> HIDE DEF new
  <2>3. req' \in [Requests -> Request]
    BY <2>1, <2>2 DEF TypeOK
  <2>4. Asked'
    BY <2>1, <2>2 DEF TypeOK, Asked, Creating, Answering, data, Known
  <2> QED BY <2>2, <2>3, <2>4, RequestTyped
<1>2. ASSUME NEW s \in SwapIds, AskAccept(r, u, s)
      PROVE  TypeInv' /\ Moves
  <2> DEFINE new == [Idle EXCEPT !.pc = "accept", !.kind = "accept", !.user = u, !.swap = s]
  <2>1. new \in Request /\ new.pc = "accept" /\ new.swap = s
    BY DEF Idle, Request, Steps
  <2>2. req' = [req EXCEPT ![r] = new] /\ UNCHANGED <<data, fulfil>> /\ Known(s)
    BY <1>2 DEF AskAccept, Begin
  <2> HIDE DEF new
  <2>3. req' \in [Requests -> Request]
    BY <2>1, <2>2 DEF TypeOK
  <2>4. Asked'
    BY <2>1, <2>2 DEF TypeOK, Asked, Creating, Answering, data, Known
  <2> QED BY <2>2, <2>3, <2>4, RequestTyped
<1>3. ASSUME NEW s \in SwapIds, NEW k \in {"declined", "cancelled"}, AskEnd(r, u, k, s)
      PROVE  TypeInv' /\ Moves
  <2> DEFINE new == [Idle EXCEPT !.pc = "read", !.kind = k, !.user = u, !.swap = s]
  <2>1. new \in Request /\ new.pc = "read" /\ new.swap = s /\ new.kind = k
    BY DEF Idle, Request, Steps
  <2>2. req' = [req EXCEPT ![r] = new] /\ UNCHANGED <<data, fulfil>> /\ Known(s)
    BY <1>3 DEF AskEnd, Begin
  <2> HIDE DEF new
  <2>3. req' \in [Requests -> Request]
    BY <2>1, <2>2 DEF TypeOK
  <2>4. Asked'
    BY <2>1, <2>2 DEF TypeOK, Asked, Creating, Answering, data, Known
  <2> QED BY <2>2, <2>3, <2>4, RequestTyped
<1> QED BY <1>1, <1>2, <1>3 DEF Ask

LEMMA FinishTyped ==
  ASSUME TypeInv, NEW r \in Requests, Finish(r), Moves
  PROVE  req' \in [Requests -> Request] /\ Asked'
<1>1. req' \in [Requests -> Request] /\ \A q \in Requests : req'[q] = IF q = r THEN Idle ELSE req[q]
  BY IdleTyped DEF Finish, TypeInv, TypeOK
<1>2. \A s \in SwapIds : Known(s) => Known(s)'
  BY KnownStays DEF Moves
<1> QED BY <1>1, <1>2, IdleTyped DEF Asked, Creating, Answering, TypeInv

LEMMA ReplyTyped ==
  ASSUME TypeInv, NEW r \in Requests, Reply(r)
  PROVE  TypeInv' /\ Moves
<1>1. Moves
  BY DEF Reply, data, Moves, RowMove
<1> QED BY <1>1, FinishTyped, RequestTyped DEF Reply

\* A creating request goes on to another of its reads, an answer from its read to its
\* update.
LEMMA GoTyped ==
  ASSUME TypeInv, NEW r \in Requests, NEW pc, Go(r, pc),
         \/ req[r].pc \in Creating /\ pc \in Creating
         \/ req[r].pc = "read" /\ pc = "update"
  PROVE  TypeInv' /\ Moves
<1>1. pc \in Steps
  BY DEF Creating, Steps
<1>2. req' \in [Requests -> Request]
  BY <1>1 DEF Go, TypeInv, TypeOK, Request
<1>3. \A q \in Requests : /\ q # r => req'[q] = req[q]
                          /\ req'[r].pc = pc /\ req'[r].kind = req[r].kind
                          /\ req'[r].user = req[r].user /\ req'[r].from = req[r].from
                          /\ req'[r].to = req[r].to /\ req'[r].swap = req[r].swap
  BY DEF Go, TypeInv, TypeOK, Request
<1>4. Asked'
  BY <1>3 DEF Go, data, TypeInv, Asked, Creating, Answering, Known
<1> QED BY <1>2, <1>4, RequestTyped DEF Go

\* A request that ends with the move of a row.
LEMMA AnswerTyped ==
  ASSUME TypeInv, NEW r \in Requests, NEW s \in SwapIds, Known(s),
         NEW ok \in BOOLEAN, NEW status \in Statuses \ {"unborn", "pending"},
         swaps' = IF ok THEN [swaps EXCEPT ![s].status = status] ELSE swaps,
         ok => swaps[s].status = "pending" /\ status \in {"accepted", "declined", "cancelled"},
         Finish(r), UNCHANGED <<users, filed, blocks, told, fulfil>>,
         member' \in [Pairs -> Roles]
  PROVE  TypeInv' /\ Moves
<1>1. NoInsert /\ swaps' \in [SwapIds -> SwapRow]
  BY OneRow, SameRows DEF TypeInv
<1>2. RowsOK' /\ Moves
  BY <1>1, NoInsertKeepsRows DEF TypeInv, NoInsert, Moves
<1>3. req' \in [Requests -> Request] /\ Asked'
  BY <1>2, FinishTyped
<1>4. TypeOK'
  BY <1>2, <1>3 DEF TypeInv, TypeOK, RowsOK
<1>5. Working'
  BY <1>2, NamesStay DEF TypeInv, Moves
<1> QED BY <1>2, <1>3, <1>4, <1>5 DEF TypeInv

LEMMA InsertTyped ==
  ASSUME TypeInv, NEW r \in Requests, NEW s \in SwapIds, InsertSwap(r, s)
  PROVE  TypeInv' /\ Moves
<1> USE DEF TypeInv
<1> DEFINE p == req[r].from
           q == req[r].to
           new == [status |-> "pending", from |-> p, to |-> q]
<1>1. p \in Projects /\ q \in Projects /\ Owner[p] # Owner[q] /\ ~ Known(s) /\ new \in SwapRow
  BY DEF InsertSwap, Asked, Creating, SwapRow, Statuses
<1>2. CASE swaps' = swaps
  <2>1. RowsOK' /\ Moves
    BY <1>2, SameRows, NoInsertKeepsRows DEF NoInsert, Moves
  <2>2. req' \in [Requests -> Request] /\ Asked'
    BY <2>1, FinishTyped DEF InsertSwap
  <2>3. TypeOK'
    BY <2>1, <2>2 DEF InsertSwap, TypeOK, RowsOK
  <2>4. Working'
    BY <2>1, NamesStay DEF InsertSwap, Moves
  <2> QED BY <2>1, <2>2, <2>3, <2>4
<1>3. CASE swaps' # swaps
  <2>1. /\ swaps' = [swaps EXCEPT ![s] = new]
        /\ \A t \in SwapIds : swaps[t].status = "pending" => ~ SamePair(t, p, q)
    BY <1>3 DEF InsertSwap
  <2>2. swaps'[s] = new /\ \A t \in SwapIds \ {s} : swaps'[t] = swaps[t]
    BY <2>1 DEF TypeOK
  <2>3. new.status = "pending" /\ new.from = p /\ new.to = q
    OBVIOUS
  <2> HIDE DEF new
  <2>4. swaps' \in [SwapIds -> SwapRow]
    BY <1>1, <2>1 DEF TypeOK
  <2>5. Moves
    BY <1>1, <2>2, <2>3 DEF Moves, RowMove
  <2>6. \A t \in SwapIds : Known(t)' =>
          /\ {swaps'[t].from, swaps'[t].to} \subseteq Projects
          /\ Owner[swaps'[t].from] # Owner[swaps'[t].to]
    BY <1>1, <2>2, <2>3 DEF TypeOK, Known, FromUser, ToUser
  <2>7. \A t, x \in SwapIds :
          /\ swaps'[t].status = "pending" /\ swaps'[x].status = "pending"
          /\ {swaps'[t].from, swaps'[t].to} = {swaps'[x].from, swaps'[x].to}
          => t = x
    BY <2>1, <2>2, <2>3 DEF TypeOK, SamePair
  <2>8. RowsOK'
    BY <2>4, <2>6, <2>7 DEF RowsOK, FromUser, ToUser, SamePair
  <2>9. req' \in [Requests -> Request] /\ Asked'
    BY <2>5, FinishTyped DEF InsertSwap
  <2>10. TypeOK'
    BY <2>8, <2>9 DEF InsertSwap, TypeOK, RowsOK
  <2>11. Working'
    BY <2>5, NamesStay DEF InsertSwap, Moves
  <2> QED BY <2>5, <2>9, <2>10, <2>11
<1> QED BY <1>2, <1>3

LEMMA StatementTyped ==
  ASSUME TypeInv, NEW r \in Requests, Statement(r)
  PROVE  TypeInv' /\ Moves
<1>1. CASE CheckBlocked(r)
  BY <1>1, ReplyTyped, GoTyped DEF CheckBlocked, Creating
<1>2. CASE CheckCap(r)
  BY <1>2, ReplyTyped, GoTyped DEF CheckCap, Creating
<1>3. CASE CheckMember(r)
  BY <1>3, ReplyTyped, GoTyped DEF CheckMember, Creating
<1>4. ASSUME NEW s \in SwapIds, InsertSwap(r, s)
      PROVE  TypeInv' /\ Moves
  BY <1>4, InsertTyped
<1>5. CASE AcceptSwap(r)
  <2> DEFINE s == req[r].swap
             ok == swaps[s].status = "pending" /\ ToUser(s) = req[r].user
  <2>1. s \in SwapIds /\ Known(s)
    BY <1>5 DEF AcceptSwap, TypeInv, Asked, Answering
  <2>2. swaps' = IF ok THEN [swaps EXCEPT ![s].status = "accepted"] ELSE swaps
    BY <1>5 DEF AcceptSwap
  <2>3. member' \in [Pairs -> Roles]
    BY <1>5 DEF AcceptSwap, TypeInv, TypeOK, Roles
  <2>4. Finish(r) /\ UNCHANGED <<users, filed, blocks, told, fulfil>>
    BY <1>5 DEF AcceptSwap
  <2>5. "accepted" \in Statuses \ {"unborn", "pending"} /\ ok \in BOOLEAN
    BY DEF Statuses
  <2> QED BY <2>1, <2>2, <2>3, <2>4, <2>5, AnswerTyped
<1>6. CASE ReadSwap(r)
  BY <1>6, ReplyTyped, GoTyped DEF ReadSwap
<1>7. CASE UpdateSwap(r)
  <2> DEFINE s == req[r].swap
             ok == swaps[s].status = "pending"
             k == req[r].kind
  <2>1. s \in SwapIds /\ Known(s) /\ k \in {"declined", "cancelled"}
    BY <1>7 DEF UpdateSwap, TypeInv, Asked, Answering
  <2>2. swaps' = IF ok THEN [swaps EXCEPT ![s].status = k] ELSE swaps
    BY <1>7 DEF UpdateSwap
  <2>3. member' \in [Pairs -> Roles]
    BY <1>7 DEF UpdateSwap, TypeInv, TypeOK
  <2>4. Finish(r) /\ UNCHANGED <<users, filed, blocks, told, fulfil>>
    BY <1>7 DEF UpdateSwap
  <2>5. k \in Statuses \ {"unborn", "pending"} /\ ok \in BOOLEAN
    BY <2>1 DEF Statuses
  <2> QED BY <2>1, <2>2, <2>3, <2>4, <2>5, AnswerTyped
<1> QED BY <1>1, <1>2, <1>3, <1>4, <1>5, <1>6, <1>7 DEF Statement

\* A step that changes goroutines only.
LEMMA FulfilTyped ==
  ASSUME TypeInv, UNCHANGED <<users, member, filed, blocks, req>>, told' \in [SwapIds -> Nat],
         NoInsert, swaps' \in [SwapIds -> SwapRow],
         NEW g \in Pairs, NEW new \in Goroutine, fulfil' = [fulfil EXCEPT ![g] = new],
         \A s \in new.todo : Known(s),
         new.pc \in {"to", "update", "notify"} => new.swap \in SwapIds /\ Known(new.swap)
  PROVE  TypeInv' /\ Moves
<1> USE DEF TypeInv
<1>1. RowsOK' /\ Moves
  BY NoInsertKeepsRows DEF NoInsert, Moves
<1>2. TypeOK'
  BY <1>1 DEF TypeOK, RowsOK
<1>3. Asked'
  BY <1>1, NamesStay DEF Moves
<1>4. Working'
  <2>1. \A s \in SwapIds : Known(s) => Known(s)'
    BY <1>1, KnownStays DEF Moves
  <2>2. \A h \in Pairs : fulfil'[h] = IF h = g THEN new ELSE fulfil[h]
    BY DEF TypeOK
  <2>3. \A h \in Pairs : fulfil'[h].todo \subseteq SwapIds
    BY <1>2 DEF TypeOK, Goroutine
  <2> QED BY <2>1, <2>2, <2>3 DEF Working
<1> QED BY <1>1, <1>2, <1>3, <1>4

\* The goroutine of g goes on to its next candidate, or is through.
LEMMA DoneTyped ==
  ASSUME TypeInv, NEW g \in Pairs, NEW s, Done(g, s)
  PROVE  \E new \in Goroutine :
           /\ fulfil' = [fulfil EXCEPT ![g] = new]
           /\ \A t \in new.todo : Known(t)
           /\ new.pc \in {"idle", "from"}
<1> DEFINE rest == fulfil[g].todo \ {s}
           next == [pc |-> "from", todo |-> rest, swap |-> None]
<1>1. rest \subseteq SwapIds /\ \A t \in rest : Known(t)
  BY DEF TypeInv, TypeOK, Goroutine, Working
<1>2. next \in Goroutine /\ next.pc = "from" /\ next.todo = rest
  BY <1>1 DEF Goroutine
<1>3. CASE rest = {}
  BY <1>3, NoGoroutineTyped DEF Done
<1>4. CASE rest # {}
  BY <1>1, <1>2, <1>4 DEF Done
<1> QED BY <1>3, <1>4

LEMMA FulfilStepTyped ==
  ASSUME TypeInv, NEW g \in Pairs, FulfilStep(g) \/ FulfilFail(g)
  PROVE  TypeInv' /\ Moves
<1> USE DEF TypeInv
<1>0. fulfil[g] \in Goroutine /\ fulfil[g].todo \subseteq SwapIds
      /\ \A s \in fulfil[g].todo : Known(s)
  BY DEF TypeOK, Goroutine, Working
<1>1. CASE ReadCandidates(g) \/ CheckFromDone(g) \/ CheckToDone(g) \/ FulfilFail(g)
  <2>0. NoInsert /\ swaps' \in [SwapIds -> SwapRow]
        /\ UNCHANGED <<users, member, filed, blocks>> /\ told' \in [SwapIds -> Nat]
    BY <1>1, SameRows DEF ReadCandidates, CheckFromDone, CheckToDone, FulfilFail, data, TypeOK
  <2>1. CASE ReadCandidates(g)
    <3> DEFINE cands == {s \in SwapIds : swaps[s].status = "accepted" /\ Concerns(g, s)}
               next == [pc |-> "from", todo |-> cands, swap |-> None]
    <3>1. next \in Goroutine /\ next.pc = "from" /\ \A t \in next.todo : Known(t)
      BY DEF Goroutine, Known
    <3>2. CASE cands = {}
      BY <2>0, <2>1, <3>2, NoGoroutineTyped, FulfilTyped DEF ReadCandidates
    <3>3. CASE cands # {}
      <4>1. fulfil' = [fulfil EXCEPT ![g] = next] /\ UNCHANGED req
        BY <2>1, <3>3 DEF ReadCandidates
      <4> HIDE DEF next
      <4> QED BY <2>0, <3>1, <4>1, FulfilTyped
    <3> QED BY <3>2, <3>3
  <2>2. CASE CheckFromDone(g)
    <3>1. PICK s \in fulfil[g].todo :
            IF FromDone(s) THEN fulfil' = [fulfil EXCEPT ![g].pc = "to", ![g].swap = s]
                           ELSE Done(g, s)
      BY <2>2 DEF CheckFromDone
    <3>2. UNCHANGED req
      BY <2>2 DEF CheckFromDone
    <3>3. CASE FromDone(s)
      <4> DEFINE next == [fulfil[g] EXCEPT !.pc = "to", !.swap = s]
      <4>1. fulfil' = [fulfil EXCEPT ![g] = next]
        BY <3>1, <3>3 DEF TypeOK
      <4>2. next \in Goroutine /\ next.todo = fulfil[g].todo /\ next.swap = s
        BY <1>0 DEF Goroutine
      <4> HIDE DEF next
      <4> QED BY <1>0, <2>0, <3>2, <4>1, <4>2, FulfilTyped
    <3>4. CASE ~ FromDone(s)
      BY <2>0, <3>1, <3>2, <3>4, DoneTyped, FulfilTyped
    <3> QED BY <3>3, <3>4
  <2>3. CASE CheckToDone(g)
    <3>1. UNCHANGED req
      BY <2>3 DEF CheckToDone
    <3>2. CASE ToDone(fulfil[g].swap)
      <4> DEFINE next == [fulfil[g] EXCEPT !.pc = "update"]
      <4>1. fulfil' = [fulfil EXCEPT ![g] = next]
        BY <2>3, <3>2 DEF CheckToDone, TypeOK
      <4>2. next \in Goroutine /\ next.todo = fulfil[g].todo /\ next.swap = fulfil[g].swap
        BY <1>0 DEF Goroutine
      <4>3. fulfil[g].swap \in SwapIds /\ Known(fulfil[g].swap)
        BY <2>3 DEF CheckToDone, At, Working
      <4> HIDE DEF next
      <4> QED BY <1>0, <2>0, <3>1, <4>1, <4>2, <4>3, FulfilTyped
    <3>3. CASE ~ ToDone(fulfil[g].swap)
      BY <2>0, <2>3, <3>1, <3>3, DoneTyped, FulfilTyped DEF CheckToDone
    <3> QED BY <3>2, <3>3
  <2>4. CASE FulfilFail(g)
    BY <2>0, <2>4, NoGoroutineTyped, FulfilTyped DEF FulfilFail
  <2> QED BY <1>1, <2>1, <2>2, <2>3, <2>4
<1>2. CASE FulfilSwap(g)
  <2> DEFINE s == fulfil[g].swap
             next == [fulfil[g] EXCEPT !.pc = "notify"]
  <2>1. s \in SwapIds /\ Known(s)
    BY <1>2 DEF FulfilSwap, At, Working
  <2>2. UNCHANGED <<users, member, filed, blocks, req>> /\ told' \in [SwapIds -> Nat]
    BY <1>2 DEF FulfilSwap, TypeOK
  <2>3. CASE swaps[s].status = "accepted"
    <3>1. swaps' = [swaps EXCEPT ![s].status = "fulfilled"] /\ fulfil' = [fulfil EXCEPT ![g] = next]
      BY <1>2, <2>3 DEF FulfilSwap, TypeOK
    <3>2. NoInsert /\ swaps' \in [SwapIds -> SwapRow]
      BY <2>1, <2>3, <3>1, OneRow DEF Statuses
    <3>3. next \in Goroutine /\ next.todo = fulfil[g].todo /\ next.swap = s
      BY <1>0 DEF Goroutine
    <3> HIDE DEF next
    <3> QED BY <1>0, <2>1, <2>2, <3>1, <3>2, <3>3, FulfilTyped
  <2>4. CASE swaps[s].status # "accepted"
    BY <1>2, <2>2, <2>4, SameRows, DoneTyped, FulfilTyped DEF FulfilSwap
  <2> QED BY <2>3, <2>4
<1>3. CASE NotifyPair(g)
  <2> DEFINE s == fulfil[g].swap
  <2>1. s \in SwapIds /\ Known(s)
    BY <1>3 DEF NotifyPair, At, Working
  <2>2. UNCHANGED <<users, member, filed, blocks, req>> /\ NoInsert /\ swaps' \in [SwapIds -> SwapRow]
    BY <1>3, SameRows DEF NotifyPair
  <2>3. told' \in [SwapIds -> Nat]
    BY <1>3 DEF NotifyPair, TypeOK
  <2>4. CASE swaps[s].status = "gone"
    BY <1>3, <2>2, <2>3, <2>4, NoGoroutineTyped, FulfilTyped DEF NotifyPair
  <2>5. CASE swaps[s].status # "gone"
    BY <1>3, <2>2, <2>3, <2>5, DoneTyped, FulfilTyped DEF NotifyPair
  <2> QED BY <2>4, <2>5
<1> QED BY <1>1, <1>2, <1>3 DEF FulfilStep

LEMMA AbandonTyped ==
  ASSUME TypeInv, NEW r \in Requests, Abandon(r)
  PROVE  TypeInv' /\ Moves
BY ReplyTyped DEF Abandon

LEMMA RestartTyped ==
  ASSUME TypeInv, Restart
  PROVE  TypeInv' /\ Moves
<1> USE DEF TypeInv
<1>1. RowsOK' /\ Moves
  BY SameRows, NoInsertKeepsRows DEF Restart, data, NoInsert, Moves
<1>2. req' \in [Requests -> Request] /\ Asked'
  BY IdleTyped DEF Restart, Asked, Creating, Answering
<1>3. \A g \in Pairs : fulfil'[g] \in {fulfil[g], NoGoroutine("lost")}
  BY DEF Restart
<1>4. fulfil' \in [Pairs -> Goroutine]
  BY NoGoroutineTyped DEF Restart, TypeOK
<1>5. Working'
  <2>1. \A s \in SwapIds : Known(s)' = Known(s)
    BY DEF Restart, data, Known
  <2> QED BY <1>3, <2>1, NoGoroutineTyped DEF Restart, data, Working, Known
<1>6. TypeOK'
  BY <1>1, <1>2, <1>4 DEF Restart, data, TypeOK, RowsOK
<1> QED BY <1>1, <1>2, <1>5, <1>6

LEMMA InitTyped == Init => TypeInv
<1> SUFFICES ASSUME Init PROVE TypeInv
  OBVIOUS
<1>1. TypeOK
  <2>1. swaps \in [SwapIds -> SwapRow] /\ \A s \in SwapIds : ~ Known(s) /\ swaps[s].status # "pending"
    BY DEF Init, SwapRow, Statuses, Known
  <2>2. req \in [Requests -> Request] /\ fulfil \in [Pairs -> Goroutine]
    BY IdleTyped, NoGoroutineTyped DEF Init
  <2> QED BY <2>1, <2>2 DEF Init, TypeOK, Roles
<1>2. Asked
  BY IdleTyped DEF Init, Asked, Creating, Answering
<1>3. Working
  BY NoGoroutineTyped DEF Init, Working
<1> QED BY <1>1, <1>2, <1>3 DEF TypeInv

LEMMA NextTyped ==
  ASSUME TypeInv, [Next]_vars
  PROVE  TypeInv' /\ Moves
<1>1. ASSUME NEW u \in Users, People(u)
      PROVE  TypeInv' /\ Moves
  BY <1>1, PeopleTyped
<1>2. ASSUME NEW r \in Requests, Statement(r) \/ Abandon(r)
      PROVE  TypeInv' /\ Moves
  BY <1>2, StatementTyped, AbandonTyped
<1>3. ASSUME NEW r \in Requests, NEW u \in Users, Ask(r, u)
      PROVE  TypeInv' /\ Moves
  BY <1>3, AskTyped
<1>4. ASSUME NEW g \in Pairs, FulfilStep(g) \/ FulfilFail(g)
      PROVE  TypeInv' /\ Moves
  BY <1>4, FulfilStepTyped
<1>5. CASE Restart
  BY <1>5, RestartTyped
<1>6. CASE UNCHANGED vars
  <2>1. UNCHANGED <<data, fulfil>> /\ req' \in [Requests -> Request] /\ Asked'
    BY <1>6 DEF vars, data, TypeInv, TypeOK, Asked, Known
  <2> QED BY <2>1, RequestTyped
<1> QED BY <1>1, <1>2, <1>3, <1>4, <1>5, <1>6 DEF Next

THEOREM TypeInvHolds == Spec => []TypeInv
<1> QED BY InitTyped, NextTyped, PTL DEF Spec

\* TypeOK: every reachable state is well typed, a swap joins two people's projects,
\* and no two projects have two swaps pending.
THEOREM Typed == Spec => []TypeOK
<1>1. TypeInv => TypeOK
  BY DEF TypeInv
<1> QED BY <1>1, TypeInvHolds, PTL

\* AnswersAreFinal: of an accept, a decline, a cancel and a block that race, one wins.
THEOREM AnswersAreFinalHolds == Spec => AnswersAreFinal
<1>1. ASSUME TypeInv, [Next]_vars
      PROVE  [\A s \in SwapIds :
                swaps'[s].status \in {swaps[s].status, "gone"} \/
                  CASE swaps[s].status = "unborn"   -> swaps'[s].status = "pending"
                    [] swaps[s].status = "pending"  -> swaps'[s].status \in {"accepted", "declined", "cancelled"}
                    [] swaps[s].status = "accepted" -> swaps'[s].status = "fulfilled"
                    [] OTHER                        -> FALSE
             ]_vars
  BY <1>1, NextTyped DEF Moves, RowMove, Known
<1> QED BY <1>1, TypeInvHolds, PTL DEF Spec, AnswersAreFinal

--------------------------------------------------------------------------
(* Memberships *)

MemberInv == AcceptedAreMembers /\ CreatorsStay

\* A step that takes no membership away accepts a swap only with both memberships.
LEMMA MembersKept ==
  ASSUME TypeInv, Moves, MemberInv, users' = users,
         \A m \in Pairs : /\ member[m] # "none" => member'[m] # "none"
                          /\ member[m] = "creator" => member'[m] = "creator",
         \A s \in SwapIds : swaps'[s].status = "accepted" /\ swaps[s].status # "accepted" =>
           /\ member'[<<swaps[s].to, FromUser(s)>>] # "none"
           /\ member'[<<swaps[s].from, ToUser(s)>>] # "none"
  PROVE  MemberInv'
<1>1. CreatorsStay'
  BY Constants DEF MemberInv, CreatorsStay, Pairs
<1>2. ASSUME NEW s \in SwapIds, swaps'[s].status \in {"accepted", "fulfilled"}
      PROVE  /\ member'[<<swaps'[s].to, Owner[swaps'[s].from]>>] # "none"
             /\ member'[<<swaps'[s].from, Owner[swaps'[s].to]>>] # "none"
  <2>1. Known(s) /\ swaps'[s].from = swaps[s].from /\ swaps'[s].to = swaps[s].to
    BY <1>2 DEF Moves, RowMove, Known
  <2>2. /\ <<swaps[s].to, FromUser(s)>> \in Pairs /\ <<swaps[s].from, ToUser(s)>> \in Pairs
    BY <2>1, Constants DEF TypeInv, TypeOK, Pairs, FromUser, ToUser
  <2>3. CASE swaps[s].status \in {"accepted", "fulfilled"}
    BY <2>1, <2>2, <2>3 DEF MemberInv, AcceptedAreMembers, FromUser, ToUser
  <2>4. CASE swaps[s].status \notin {"accepted", "fulfilled"}
    BY <1>2, <2>1, <2>4 DEF Moves, RowMove, FromUser, ToUser
  <2> QED BY <2>3, <2>4
<1>3. AcceptedAreMembers'
  BY <1>2 DEF AcceptedAreMembers, FromUser, ToUser
<1> QED BY <1>1, <1>3 DEF MemberInv

\* Most steps touch neither memberships nor acceptances.
Plain ==
  /\ UNCHANGED <<users, member>>
  /\ \A s \in SwapIds : swaps'[s].status = "accepted" => swaps[s].status = "accepted"

LEMMA PlainKeeps ==
  ASSUME TypeInv, Moves, MemberInv, Plain
  PROVE  MemberInv'
BY MembersKept DEF Plain

LEMMA DeleteUserMembers ==
  ASSUME TypeInv, Moves, MemberInv, NEW u \in Users, DeleteUser(u)
  PROVE  MemberInv'
<1>1. CreatorsStay'
  <2> SUFFICES ASSUME NEW p \in Projects, Owner[p] \in users'
               PROVE  member'[<<p, Owner[p]>>] = "creator"
    BY DEF CreatorsStay
  <2>1. Owner[p] # u /\ Owner[p] \in users /\ <<p, Owner[p]>> \in Pairs
    BY Constants DEF DeleteUser, Pairs
  <2> QED BY <2>1 DEF DeleteUser, MemberInv, CreatorsStay
<1>2. ASSUME NEW s \in SwapIds, swaps'[s].status \in {"accepted", "fulfilled"}
      PROVE  /\ member'[<<swaps'[s].to, Owner[swaps'[s].from]>>] # "none"
             /\ member'[<<swaps'[s].from, Owner[swaps'[s].to]>>] # "none"
  <2>1. Known(s) /\ u \notin {FromUser(s), ToUser(s)} /\ swaps'[s] = swaps[s]
    BY <1>2 DEF DeleteUser, TypeInv, TypeOK, SwapRow, Known
  <2>2. /\ <<swaps[s].to, FromUser(s)>> \in Pairs /\ <<swaps[s].from, ToUser(s)>> \in Pairs
    BY <2>1, Constants DEF TypeInv, TypeOK, Pairs, FromUser, ToUser
  <2> QED BY <1>2, <2>1, <2>2 DEF DeleteUser, MemberInv, AcceptedAreMembers, FromUser, ToUser
<1>3. AcceptedAreMembers'
  BY <1>2 DEF AcceptedAreMembers, FromUser, ToUser
<1> QED BY <1>1, <1>3 DEF MemberInv

LEMMA JoinMembers ==
  ASSUME TypeInv, Moves, MemberInv, NEW u \in Users, NEW p \in Projects, Join(u, p)
  PROVE  MemberInv'
<1>1. \A m \in Pairs : /\ member[m] # "none" => member'[m] # "none"
                       /\ member[m] = "creator" => member'[m] = "creator"
  BY DEF Join, TypeInv, TypeOK
<1> QED BY <1>1, MembersKept DEF Join

\* The upsert writes to the other's project only.
LEMMA AcceptMembers ==
  ASSUME TypeInv, Moves, MemberInv, NEW r \in Requests, AcceptSwap(r)
  PROVE  MemberInv'
<1> DEFINE s == req[r].swap
<1>1. CASE swaps[s].status = "pending" /\ ToUser(s) = req[r].user
  <2>1. s \in SwapIds /\ Known(s)
    BY DEF AcceptSwap, TypeInv, Asked, Answering
  <2>2. /\ swaps' = [swaps EXCEPT ![s].status = "accepted"] /\ users' = users
        /\ member' = [member EXCEPT ![<<swaps[s].to, FromUser(s)>>] = "member",
                                    ![<<swaps[s].from, ToUser(s)>>] = "member"]
    BY <1>1 DEF AcceptSwap
  <2>3. swaps[s].from \in Projects /\ swaps[s].to \in Projects /\ FromUser(s) # ToUser(s)
    BY <2>1 DEF TypeInv, TypeOK
  <2>4. FromUser(s) \in Users /\ ToUser(s) \in Users
    BY <2>3, Constants DEF FromUser, ToUser
  <2>5. \A m \in Pairs : member'[m] = IF m \in {<<swaps[s].to, FromUser(s)>>, <<swaps[s].from, ToUser(s)>>}
                                        THEN "member" ELSE member[m]
    BY <2>2, <2>3, <2>4 DEF TypeInv, TypeOK, Pairs
  <2>6. <<swaps[s].to, FromUser(s)>> \in Pairs /\ <<swaps[s].from, ToUser(s)>> \in Pairs
    BY <2>3, <2>4 DEF Pairs
  <2>7. \A x \in SwapIds : swaps'[x].status = "accepted" /\ swaps[x].status # "accepted" => x = s
    BY <2>2 DEF TypeInv, TypeOK
  <2>8. CreatorsStay'
    <3> SUFFICES ASSUME NEW p \in Projects, Owner[p] \in users'
                 PROVE  member'[<<p, Owner[p]>>] = "creator"
      BY DEF CreatorsStay
    <3>1. <<p, Owner[p]>> \in Pairs /\ member[<<p, Owner[p]>>] = "creator"
      BY <2>2, Constants DEF MemberInv, CreatorsStay, Pairs
    <3>2. <<p, Owner[p]>> # <<swaps[s].to, FromUser(s)>> /\ <<p, Owner[p]>> # <<swaps[s].from, ToUser(s)>>
      BY <2>3 DEF FromUser, ToUser
    <3> QED BY <2>5, <3>1, <3>2
  <2>9. ASSUME NEW x \in SwapIds, swaps'[x].status \in {"accepted", "fulfilled"}
        PROVE  /\ member'[<<swaps'[x].to, Owner[swaps'[x].from]>>] # "none"
               /\ member'[<<swaps'[x].from, Owner[swaps'[x].to]>>] # "none"
    <3>1. swaps'[x].from = swaps[x].from /\ swaps'[x].to = swaps[x].to
      BY <2>2 DEF TypeInv, TypeOK, SwapRow
    <3>2. CASE x = s
      BY <2>5, <2>6, <3>1, <3>2 DEF FromUser, ToUser
    <3>3. CASE x # s
      <4>1. swaps'[x] = swaps[x] /\ Known(x)
        BY <2>2, <2>9, <3>3 DEF TypeInv, TypeOK, Known
      <4>2. <<swaps[x].to, FromUser(x)>> \in Pairs /\ <<swaps[x].from, ToUser(x)>> \in Pairs
        BY <4>1, Constants DEF TypeInv, TypeOK, Pairs, FromUser, ToUser
      <4>3. member[<<swaps[x].to, FromUser(x)>>] # "none" /\ member[<<swaps[x].from, ToUser(x)>>] # "none"
        BY <2>9, <4>1 DEF MemberInv, AcceptedAreMembers
      <4> QED BY <2>5, <4>1, <4>2, <4>3 DEF FromUser, ToUser
    <3> QED BY <3>2, <3>3
  <2> QED BY <2>8, <2>9 DEF MemberInv, AcceptedAreMembers, FromUser, ToUser
<1>2. CASE ~ (swaps[s].status = "pending" /\ ToUser(s) = req[r].user)
  BY <1>2, PlainKeeps DEF AcceptSwap, Plain
<1> QED BY <1>1, <1>2

LEMMA NextMembers ==
  ASSUME TypeInv, MemberInv, [Next]_vars
  PROVE  MemberInv'
<1>0. Moves
  BY NextTyped
<1>1. ASSUME NEW u \in Users, People(u)
      PROVE  MemberInv'
  <2>1. ASSUME NEW p \in Projects, Join(u, p) \/ File(u, p)
        PROVE  MemberInv'
    BY <1>0, <2>1, JoinMembers, PlainKeeps DEF File, Plain
  <2>2. ASSUME NEW v \in Users, BlockUser(u, v) \/ UnblockUser(u, v)
        PROVE  MemberInv'
    <3>1. Plain
      BY <2>2 DEF BlockUser, UnblockUser, Plain, TypeInv, TypeOK, SwapRow
    <3> QED BY <1>0, <3>1, PlainKeeps
  <2> QED BY <1>0, <1>1, <2>1, <2>2, DeleteUserMembers DEF People
<1>2. ASSUME NEW r \in Requests, Statement(r) \/ Abandon(r)
      PROVE  MemberInv'
  <2>1. CASE AcceptSwap(r)
    BY <1>0, <2>1, AcceptMembers
  <2>2. CASE UpdateSwap(r)
    <3>1. req[r].swap \in SwapIds /\ req[r].kind # "accepted"
      BY <2>2 DEF UpdateSwap, TypeInv, Asked, Answering
    <3>2. Plain
      BY <2>2, <3>1 DEF UpdateSwap, Plain, TypeInv, TypeOK, SwapRow
    <3> QED BY <1>0, <3>2, PlainKeeps
  <2>3. ASSUME NEW s \in SwapIds, InsertSwap(r, s)
        PROVE  MemberInv'
    <3>1. Plain
      BY <2>3 DEF InsertSwap, Plain, TypeInv, TypeOK
    <3> QED BY <1>0, <3>1, PlainKeeps
  <2>4. CASE CheckBlocked(r) \/ CheckCap(r) \/ CheckMember(r) \/ ReadSwap(r) \/ Abandon(r)
    <3>1. Plain
      BY <2>4 DEF CheckBlocked, CheckCap, CheckMember, ReadSwap, Abandon, Reply, Go, data, Plain
    <3> QED BY <1>0, <3>1, PlainKeeps
  <2> QED BY <1>2, <2>1, <2>2, <2>3, <2>4 DEF Statement
<1>3. ASSUME NEW r \in Requests, NEW u \in Users, Ask(r, u)
      PROVE  MemberInv'
  <2>1. Plain
    BY <1>3 DEF Ask, AskSwap, AskAccept, AskEnd, Begin, data, Plain
  <2> QED BY <1>0, <2>1, PlainKeeps
<1>4. ASSUME NEW g \in Pairs, FulfilStep(g) \/ FulfilFail(g)
      PROVE  MemberInv'
  <2>1. CASE FulfilSwap(g)
    <3>1. fulfil[g].swap \in SwapIds
      BY <2>1 DEF FulfilSwap, At, TypeInv, Working
    <3>2. Plain
      BY <2>1, <3>1 DEF FulfilSwap, Plain, TypeInv, TypeOK, SwapRow
    <3> QED BY <1>0, <3>2, PlainKeeps
  <2>2. CASE ~ FulfilSwap(g)
    <3>1. Plain
      BY <1>4, <2>2 DEF FulfilStep, ReadCandidates, CheckFromDone, CheckToDone, NotifyPair, FulfilFail, data, Plain
    <3> QED BY <1>0, <3>1, PlainKeeps
  <2> QED BY <2>1, <2>2
<1>5. CASE Restart \/ UNCHANGED vars
  BY <1>0, <1>5, PlainKeeps DEF Restart, data, vars, Plain
<1> QED BY <1>1, <1>2, <1>3, <1>4, <1>5 DEF Next

LEMMA InitMembers == Init => MemberInv
BY Constants DEF Init, MemberInv, AcceptedAreMembers, CreatorsStay, Pairs

\* AcceptedAreMembers: who accepts a swap, or is accepted, is a member of the other's
\* project from then on.
THEOREM AcceptedAreMembersHolds == Spec => []AcceptedAreMembers
<1>1. MemberInv => AcceptedAreMembers
  BY DEF MemberInv
<1> QED BY <1>1, InitMembers, NextMembers, TypeInvHolds, PTL DEF Spec

\* CreatorsStay: no acceptance takes a project from its creator.
THEOREM CreatorsStayHolds == Spec => []CreatorsStay
<1>1. MemberInv => CreatorsStay
  BY DEF MemberInv
<1> QED BY <1>1, InitMembers, NextMembers, TypeInvHolds, PTL DEF Spec

--------------------------------------------------------------------------
(* Completion *)

\* A goroutine past a read has seen what it read, unless the swap is gone since.
Seen ==
  \A g \in Pairs :
    LET s == fulfil[g].swap IN
    /\ fulfil[g].pc \in {"to", "update", "notify"} => FromDone(s) \/ swaps[s].status = "gone"
    /\ fulfil[g].pc \in {"update", "notify"} => ToDone(s) \/ swaps[s].status = "gone"

\* The one goroutine that completed a swap is about to tell the pair, or has.
Telling ==
  /\ \A s \in SwapIds : told[s] # 0 => told[s] = 1 /\ swaps[s].status \in {"fulfilled", "gone"}
  /\ \A g \in Pairs : fulfil[g].pc = "notify" =>
       told[fulfil[g].swap] = 0 /\ swaps[fulfil[g].swap].status \in {"fulfilled", "gone"}
  /\ \A g, h \in Pairs :
       fulfil[g].pc = "notify" /\ fulfil[h].pc = "notify" /\ fulfil[g].swap = fulfil[h].swap => g = h

FulfilInv == FulfilledMeansFiled /\ Seen /\ Telling

\* Reports are deleted only with an account.
Kept == filed \subseteq filed' \/ \E u \in Users : DeleteUser(u)

LEMMA DoneStays ==
  ASSUME TypeInv, Moves, Kept, NEW s \in SwapIds, Known(s)
  PROVE  /\ FromDone(s) => FromDone(s)' \/ swaps'[s].status = "gone"
         /\ ToDone(s) => ToDone(s)' \/ swaps'[s].status = "gone"
         /\ swaps[s].status = "gone" => swaps'[s].status = "gone"
<1>1. swaps'[s].from = swaps[s].from /\ swaps'[s].to = swaps[s].to
      /\ (swaps[s].status = "gone" => swaps'[s].status = "gone")
  BY DEF Moves, RowMove, Known
<1>2. CASE filed \subseteq filed'
  BY <1>1, <1>2 DEF FromDone, ToDone, FromUser, ToUser
<1>3. ASSUME NEW u \in Users, DeleteUser(u)
      PROVE  /\ FromDone(s) => FromDone(s)' \/ swaps'[s].status = "gone"
             /\ ToDone(s) => ToDone(s)' \/ swaps'[s].status = "gone"
  <2>1. CASE u \in {FromUser(s), ToUser(s)}
    BY <1>3, <2>1 DEF DeleteUser, TypeInv, TypeOK, SwapRow
  <2>2. CASE u \notin {FromUser(s), ToUser(s)}
    BY <1>1, <1>3, <2>2 DEF DeleteUser, FromDone, ToDone, FromUser, ToUser
  <2> QED BY <2>1, <2>2
<1> QED BY <1>1, <1>2, <1>3 DEF Kept

\* A step that completes no swap and gives no goroutine more to be sure of.
LEMMA QuietStep ==
  ASSUME TypeInv, Moves, Kept, FulfilInv, told' = told,
         \A g \in Pairs : fulfil'[g] = fulfil[g] \/ fulfil'[g].pc \in {"idle", "read", "from", "lost"},
         \A s \in SwapIds : swaps'[s].status = "fulfilled" => swaps[s].status = "fulfilled"
  PROVE  FulfilInv'
<1>1. \A g \in Pairs : fulfil'[g].pc \in {"to", "update", "notify"} =>
        fulfil'[g] = fulfil[g] /\ fulfil[g].swap \in SwapIds /\ Known(fulfil[g].swap)
  BY DEF TypeInv, Working
<1>2. FulfilledMeansFiled'
  BY DoneStays DEF FulfilInv, FulfilledMeansFiled, Known
<1>3. Seen'
  BY <1>1, DoneStays DEF FulfilInv, Seen
<1>4. Telling'
  <2>1. \A s \in SwapIds : swaps[s].status \in {"fulfilled", "gone"} => swaps'[s].status \in {"fulfilled", "gone"}
    BY DEF Moves, RowMove, Known
  <2> QED BY <1>1, <2>1 DEF FulfilInv, Telling
<1> QED BY <1>2, <1>3, <1>4 DEF FulfilInv

LEMMA DonePc ==
  ASSUME TypeInv, NEW g \in Pairs, NEW s, Done(g, s)
  PROVE  \A h \in Pairs : IF h = g THEN fulfil'[h].pc \in {"idle", "from"} ELSE fulfil'[h] = fulfil[h]
<1>1. PICK new \in Goroutine : fulfil' = [fulfil EXCEPT ![g] = new] /\ new.pc \in {"idle", "from"}
  BY DoneTyped
<1> QED BY <1>1 DEF TypeInv, TypeOK

LEMMA ReadCandidatesFulfil ==
  ASSUME TypeInv, Moves, FulfilInv, NEW g \in Pairs, ReadCandidates(g)
  PROVE  FulfilInv'
<1>1. \A h \in Pairs : fulfil'[h] = fulfil[h] \/ fulfil'[h].pc \in {"idle", "read", "from", "lost"}
  BY NoGoroutineTyped DEF ReadCandidates, TypeInv, TypeOK
<1> QED BY <1>1, QuietStep DEF ReadCandidates, data, Kept

LEMMA CheckFromDoneFulfil ==
  ASSUME TypeInv, Moves, FulfilInv, NEW g \in Pairs, CheckFromDone(g)
  PROVE  FulfilInv'
<1>1. PICK s \in fulfil[g].todo :
        IF FromDone(s) THEN fulfil' = [fulfil EXCEPT ![g].pc = "to", ![g].swap = s]
                       ELSE Done(g, s)
  BY DEF CheckFromDone
<1>2. UNCHANGED data
  BY DEF CheckFromDone
<1>3. CASE FromDone(s)
  <2>1. \A h \in Pairs : /\ h # g => fulfil'[h] = fulfil[h]
                         /\ fulfil'[g].pc = "to" /\ fulfil'[g].swap = s
    BY <1>1, <1>3 DEF TypeInv, TypeOK, Goroutine
  <2>2. FulfilledMeansFiled'
    BY <1>2 DEF data, FulfilInv, FulfilledMeansFiled, FromDone, ToDone, FromUser, ToUser
  <2>3. Seen'
    BY <1>2, <1>3, <2>1 DEF data, FulfilInv, Seen, FromDone, ToDone, FromUser, ToUser
  <2>4. Telling'
    BY <1>2, <2>1 DEF data, FulfilInv, Telling
  <2> QED BY <2>2, <2>3, <2>4 DEF FulfilInv
<1>4. CASE ~ FromDone(s)
  BY <1>1, <1>2, <1>4, DonePc, QuietStep DEF data, Kept
<1> QED BY <1>3, <1>4

LEMMA CheckToDoneFulfil ==
  ASSUME TypeInv, Moves, FulfilInv, NEW g \in Pairs, CheckToDone(g)
  PROVE  FulfilInv'
<1>1. UNCHANGED data /\ fulfil[g].pc = "to"
  BY DEF CheckToDone, At
<1>2. CASE ToDone(fulfil[g].swap)
  <2>1. \A h \in Pairs : /\ h # g => fulfil'[h] = fulfil[h]
                         /\ fulfil'[g].pc = "update" /\ fulfil'[g].swap = fulfil[g].swap
    BY <1>2 DEF CheckToDone, TypeInv, TypeOK, Goroutine
  <2>2. FulfilledMeansFiled'
    BY <1>1 DEF data, FulfilInv, FulfilledMeansFiled, FromDone, ToDone, FromUser, ToUser
  <2>3. Seen'
    BY <1>1, <1>2, <2>1 DEF data, FulfilInv, Seen, FromDone, ToDone, FromUser, ToUser
  <2>4. Telling'
    BY <1>1, <2>1 DEF data, FulfilInv, Telling
  <2> QED BY <2>2, <2>3, <2>4 DEF FulfilInv
<1>3. CASE ~ ToDone(fulfil[g].swap)
  BY <1>1, <1>3, DonePc, QuietStep DEF CheckToDone, data, Kept
<1> QED BY <1>2, <1>3

\* The guard of the UPDATE lets one goroutine through.
LEMMA FulfilSwapFulfil ==
  ASSUME TypeInv, Moves, FulfilInv, NEW g \in Pairs, FulfilSwap(g)
  PROVE  FulfilInv'
<1> DEFINE s == fulfil[g].swap
<1>1. fulfil[g].pc = "update" /\ s \in SwapIds /\ UNCHANGED <<users, filed, told>>
  BY DEF FulfilSwap, At, TypeInv, Working
<1>2. CASE swaps[s].status = "accepted"
  <2>1. /\ \A t \in SwapIds : /\ swaps'[t].from = swaps[t].from /\ swaps'[t].to = swaps[t].to
                              /\ t # s => swaps'[t] = swaps[t]
        /\ swaps'[s].status = "fulfilled"
    BY <1>1, <1>2 DEF FulfilSwap, TypeInv, TypeOK, SwapRow
  <2>2. \A h \in Pairs : h # g => fulfil'[h] = fulfil[h]
    BY <1>2 DEF FulfilSwap, TypeInv, TypeOK
  <2>3. fulfil'[g].pc = "notify" /\ fulfil'[g].swap = s
    BY <1>2 DEF FulfilSwap, TypeInv, TypeOK, Goroutine
  <2>4. FromDone(s) /\ ToDone(s)
    BY <1>1, <1>2 DEF FulfilInv, Seen
  <2>5. \A t \in SwapIds : FromDone(t)' = FromDone(t) /\ ToDone(t)' = ToDone(t)
    BY <1>1, <2>1 DEF FromDone, ToDone, FromUser, ToUser
  <2>6. FulfilledMeansFiled'
    BY <2>1, <2>4, <2>5 DEF FulfilInv, FulfilledMeansFiled
  <2>7. \A h \in Pairs : fulfil[h].pc \in {"to", "update", "notify"} => fulfil[h].swap \in SwapIds
    BY DEF TypeInv, Working
  <2>8. \A h \in Pairs : fulfil[h].pc = "notify" => fulfil[h].swap # s
    BY <1>2 DEF FulfilInv, Telling
  <2>9. ASSUME NEW h \in Pairs
        PROVE  /\ fulfil'[h].pc \in {"to", "update", "notify"} =>
                    FromDone(fulfil[h].swap)' \/ swaps'[fulfil'[h].swap].status = "gone"
               /\ fulfil'[h].pc \in {"update", "notify"} =>
                    ToDone(fulfil[h].swap)' \/ swaps'[fulfil'[h].swap].status = "gone"
    <3>1. CASE h = g
      <4>1. FromDone(fulfil[g].swap)' /\ ToDone(fulfil[g].swap)'
        BY <1>1, <2>3, <2>4, <2>5
      <4> QED BY <2>3, <3>1, <4>1
    <3>2. CASE h # g
      <4>1. fulfil'[h] = fulfil[h]
        BY <2>2, <3>2
      <4>2. swaps[fulfil[h].swap].status = "gone" => fulfil[h].swap # s
        BY <1>2
      <4> QED BY <2>1, <2>5, <2>7, <4>1, <4>2 DEF FulfilInv, Seen
    <3> QED BY <3>1, <3>2
  <2>10. Seen'
    BY <2>9 DEF Seen
  <2>11. Telling'
    BY <1>1, <1>2, <2>1, <2>2, <2>3, <2>7, <2>8 DEF FulfilInv, Telling
  <2> QED BY <2>6, <2>10, <2>11 DEF FulfilInv
<1>3. CASE swaps[s].status # "accepted"
  BY <1>1, <1>3, DonePc, QuietStep DEF FulfilSwap, Kept
<1> QED BY <1>2, <1>3

LEMMA NotifyPairFulfil ==
  ASSUME TypeInv, Moves, FulfilInv, NEW g \in Pairs, NotifyPair(g)
  PROVE  FulfilInv'
<1> DEFINE s == fulfil[g].swap
<1>1. fulfil[g].pc = "notify" /\ s \in SwapIds /\ UNCHANGED <<users, filed, swaps>>
  BY DEF NotifyPair, At, TypeInv, Working
<1>2. CASE swaps[s].status = "gone"
  <2>1. \A h \in Pairs : fulfil'[h] = fulfil[h] \/ fulfil'[h].pc \in {"idle", "read", "from", "lost"}
    BY <1>2, NoGoroutineTyped DEF NotifyPair, TypeInv, TypeOK
  <2> QED BY <1>1, <1>2, <2>1, QuietStep DEF NotifyPair, Kept
<1>3. CASE swaps[s].status # "gone"
  <2>1. \A h \in Pairs : IF h = g THEN fulfil'[h].pc \in {"idle", "from"} ELSE fulfil'[h] = fulfil[h]
    BY <1>3, DonePc DEF NotifyPair
  <2>2. told[s] = 0 /\ swaps[s].status = "fulfilled"
    BY <1>1, <1>3 DEF FulfilInv, Telling
  <2>3. told'[s] = 1 /\ \A t \in SwapIds : t # s => told'[t] = told[t]
    BY <1>1, <1>3, <2>2 DEF NotifyPair, TypeInv, TypeOK
  <2>4. \A h \in Pairs : h # g /\ fulfil[h].pc = "notify" => fulfil[h].swap # s /\ fulfil[h].swap \in SwapIds
    BY <1>1 DEF FulfilInv, Telling, TypeInv, Working
  <2>5. FulfilledMeansFiled'
    BY <1>1 DEF FulfilInv, FulfilledMeansFiled, FromDone, ToDone, FromUser, ToUser
  <2>6. Seen'
    BY <1>1, <2>1 DEF FulfilInv, Seen, FromDone, ToDone, FromUser, ToUser
  <2>7. Telling'
    BY <1>1, <2>1, <2>2, <2>3, <2>4 DEF FulfilInv, Telling
  <2> QED BY <2>5, <2>6, <2>7 DEF FulfilInv
<1> QED BY <1>2, <1>3

\* Whatever people and requests do, a goroutine keeps what it has seen.
LEMMA PeopleFulfil ==
  ASSUME TypeInv, Moves, FulfilInv, NEW u \in Users, People(u)
  PROVE  FulfilInv'
<1>1. ASSUME NEW p \in Projects, Join(u, p)
      PROVE  FulfilInv'
  BY <1>1, QuietStep DEF Join, Kept
<1>2. ASSUME NEW p \in Projects, File(u, p)
      PROVE  FulfilInv'
  <2>1. \A h \in Pairs : fulfil'[h] = fulfil[h] \/ fulfil'[h].pc \in {"idle", "read", "from", "lost"}
    BY <1>2, NoGoroutineTyped DEF File, TypeInv, TypeOK
  <2> QED BY <1>2, <2>1, QuietStep DEF File, Kept
<1>3. ASSUME NEW v \in Users, BlockUser(u, v) \/ UnblockUser(u, v)
      PROVE  FulfilInv'
  <2>1. \A s \in SwapIds : swaps'[s].status = "fulfilled" => swaps[s].status = "fulfilled"
    BY <1>3 DEF BlockUser, UnblockUser, TypeInv, TypeOK, SwapRow
  <2> QED BY <1>3, <2>1, QuietStep DEF BlockUser, UnblockUser, Kept
<1>4. CASE DeleteUser(u)
  <2>1. \A s \in SwapIds : swaps'[s].status = "fulfilled" => swaps[s].status = "fulfilled"
    BY <1>4 DEF DeleteUser, TypeInv, TypeOK, SwapRow
  <2>2. Kept /\ fulfil' = fulfil /\ told' = told
    BY <1>4 DEF DeleteUser, Kept
  <2> QED BY <2>1, <2>2, QuietStep
<1> QED BY <1>1, <1>2, <1>3, <1>4 DEF People

LEMMA StatementFulfil ==
  ASSUME TypeInv, Moves, FulfilInv, NEW r \in Requests, Statement(r) \/ Abandon(r)
  PROVE  FulfilInv'
<1>1. ASSUME NEW s \in SwapIds, InsertSwap(r, s)
      PROVE  FulfilInv'
  <2>1. \A t \in SwapIds : swaps'[t].status = "fulfilled" => swaps[t].status = "fulfilled"
    BY <1>1 DEF InsertSwap, TypeInv, TypeOK
  <2> QED BY <1>1, <2>1, QuietStep DEF InsertSwap, Kept
<1>2. CASE AcceptSwap(r)
  <2>1. \A t \in SwapIds : swaps'[t].status = "fulfilled" => swaps[t].status = "fulfilled"
    BY <1>2 DEF AcceptSwap, TypeInv, TypeOK, SwapRow
  <2> QED BY <1>2, <2>1, QuietStep DEF AcceptSwap, Kept
<1>3. CASE UpdateSwap(r)
  <2>1. req[r].kind # "fulfilled"
    BY <1>3 DEF UpdateSwap, TypeInv, Asked
  <2>2. \A t \in SwapIds : swaps'[t].status = "fulfilled" => swaps[t].status = "fulfilled"
    BY <1>3, <2>1 DEF UpdateSwap, TypeInv, TypeOK, SwapRow
  <2> QED BY <1>3, <2>2, QuietStep DEF UpdateSwap, Kept
<1>4. CASE CheckBlocked(r) \/ CheckCap(r) \/ CheckMember(r) \/ ReadSwap(r) \/ Abandon(r)
  <2>1. UNCHANGED <<data, fulfil>>
    BY <1>4 DEF CheckBlocked, CheckCap, CheckMember, ReadSwap, Abandon, Reply, Go
  <2> QED BY <2>1, QuietStep DEF data, Kept
<1> QED BY <1>1, <1>2, <1>3, <1>4 DEF Statement

LEMMA NextFulfil ==
  ASSUME TypeInv, FulfilInv, [Next]_vars
  PROVE  FulfilInv'
<1>0. Moves
  BY NextTyped
<1>1. ASSUME NEW u \in Users, People(u)
      PROVE  FulfilInv'
  BY <1>0, <1>1, PeopleFulfil
<1>2. ASSUME NEW r \in Requests, Statement(r) \/ Abandon(r)
      PROVE  FulfilInv'
  BY <1>0, <1>2, StatementFulfil
<1>3. ASSUME NEW r \in Requests, NEW u \in Users, Ask(r, u)
      PROVE  FulfilInv'
  <2>1. UNCHANGED <<data, fulfil>>
    BY <1>3 DEF Ask, AskSwap, AskAccept, AskEnd, Begin
  <2> QED BY <1>0, <2>1, QuietStep DEF data, Kept
<1>4. ASSUME NEW g \in Pairs, FulfilStep(g)
      PROVE  FulfilInv'
  BY <1>0, <1>4, ReadCandidatesFulfil, CheckFromDoneFulfil, CheckToDoneFulfil,
     FulfilSwapFulfil, NotifyPairFulfil DEF FulfilStep
<1>5. ASSUME NEW g \in Pairs, FulfilFail(g)
      PROVE  FulfilInv'
  <2>1. \A h \in Pairs : fulfil'[h] = fulfil[h] \/ fulfil'[h].pc \in {"idle", "read", "from", "lost"}
    BY <1>5, NoGoroutineTyped DEF FulfilFail, TypeInv, TypeOK
  <2> QED BY <1>0, <1>5, <2>1, QuietStep DEF FulfilFail, data, Kept
<1>6. CASE Restart
  <2>1. \A h \in Pairs : fulfil'[h] = fulfil[h] \/ fulfil'[h].pc \in {"idle", "read", "from", "lost"}
    BY <1>6, NoGoroutineTyped DEF Restart
  <2> QED BY <1>0, <1>6, <2>1, QuietStep DEF Restart, data, Kept
<1>7. CASE UNCHANGED vars
  BY <1>0, <1>7, QuietStep DEF vars, Kept
<1> QED BY <1>1, <1>2, <1>3, <1>4, <1>5, <1>6, <1>7 DEF Next

LEMMA InitFulfil == Init => FulfilInv
BY NoGoroutineTyped DEF Init, FulfilInv, FulfilledMeansFiled, Seen, Telling

\* FulfilledMeansFiled: a swap is complete only if both parties have filed feedback,
\* although the two reads that find it out and the update are three statements.
THEOREM FulfilledMeansFiledHolds == Spec => []FulfilledMeansFiled
<1>1. FulfilInv => FulfilledMeansFiled
  BY DEF FulfilInv
<1> QED BY <1>1, InitFulfil, NextFulfil, TypeInvHolds, PTL DEF Spec

\* ToldOnce: however many goroutines see a swap complete, the pair is told once.
THEOREM ToldOnceHolds == Spec => []ToldOnce
<1>1. FulfilInv => ToldOnce
  BY DEF FulfilInv, Telling, ToldOnce
<1> QED BY <1>1, InitFulfil, NextFulfil, TypeInvHolds, PTL DEF Spec

--------------------------------------------------------------------------
(* The cap *)

\* The requests of u that have passed the cap and are yet to insert.
Passed(u) == {r \in Requests : req[r].pc \in {"member", "insert"} /\ req[r].user = u}

Within(u) ==
  Cardinality(PendingFrom(u)) + Cardinality(Passed(u)) <= MaxPending + Cardinality(Requests) - 1

LEMMA Counts ==
  ASSUME NEW u
  PROVE  /\ IsFiniteSet(PendingFrom(u)) /\ Cardinality(PendingFrom(u)) \in Nat
         /\ IsFiniteSet(Passed(u)) /\ Cardinality(Passed(u)) \in Nat
         /\ Cardinality(Passed(u)) <= Cardinality(Requests)
         /\ Cardinality(Requests) \in Nat
<1>1. PendingFrom(u) \subseteq SwapIds /\ Passed(u) \subseteq Requests
  BY DEF PendingFrom, Passed
<1> QED BY <1>1, Constants, FS_Subset, FS_CardinalityType

\* The same of the next state (the lemma's proof does not look at the state).
LEMMA CountsNext ==
  ASSUME NEW u
  PROVE  /\ IsFiniteSet(PendingFrom(u)') /\ Cardinality(PendingFrom(u)') \in Nat
         /\ IsFiniteSet(Passed(u)') /\ Cardinality(Passed(u)') \in Nat
         /\ Cardinality(Passed(u)') <= Cardinality(Requests)
<1>1. PendingFrom(u)' \subseteq SwapIds /\ Passed(u)' \subseteq Requests
  BY DEF PendingFrom, Passed
<1> QED BY <1>1, Constants, FS_Subset, FS_CardinalityType

\* Nobody proposes more, nobody passes the cap.
LEMMA FewerKeep ==
  ASSUME NEW u, Within(u), PendingFrom(u)' \subseteq PendingFrom(u), Passed(u)' \subseteq Passed(u)
  PROVE  Within(u)'
<1>1. /\ Cardinality(PendingFrom(u)') <= Cardinality(PendingFrom(u))
      /\ Cardinality(Passed(u)') <= Cardinality(Passed(u))
  BY Counts, FS_Subset
<1> QED BY <1>1, Counts, CountsNext, Constants DEF Within

\* A step that proposes nothing.
LEMMA NoneProposed ==
  ASSUME TypeInv, Moves, NEW u,
         \A s \in SwapIds : swaps'[s].status = "pending" => swaps[s].status = "pending"
  PROVE  PendingFrom(u)' \subseteq PendingFrom(u)
BY DEF Moves, RowMove, PendingFrom, FromUser, Known

\* Nobody passes the cap when no request goes on to its next read.
LEMMA QuietCap ==
  ASSUME TypeInv, Moves, CapOverrun,
         \A s \in SwapIds : swaps'[s].status = "pending" => swaps[s].status = "pending",
         \A r \in Requests : req'[r].pc \in {"member", "insert"} =>
           req[r].pc \in {"member", "insert"} /\ req'[r].user = req[r].user
  PROVE  CapOverrun'
<1>1. ASSUME NEW u \in Users
      PROVE  Within(u)'
  <2>1. Passed(u)' \subseteq Passed(u)
    BY DEF Passed
  <2>2. Within(u)
    BY DEF CapOverrun, Within, Passed
  <2> QED BY <2>1, <2>2, NoneProposed, FewerKeep
<1> QED BY <1>1 DEF CapOverrun, Within, Passed

\* The one that passes sees room: even with every request past the cap, one less than
\* the cap is pending.
LEMMA CheckCapKeeps ==
  ASSUME TypeInv, Moves, CapOverrun, NEW r \in Requests, CheckCap(r)
  PROVE  CapOverrun'
<1>0. UNCHANGED swaps
  BY DEF CheckCap, Reply, Go, data
<1>1. CASE Cardinality(PendingFrom(req[r].user)) >= MaxPending
  <2>1. \A x \in Requests : req'[x] = IF x = r THEN Idle ELSE req[x]
    BY <1>1 DEF CheckCap, Reply, Finish, TypeInv, TypeOK
  <2> QED BY <1>0, <2>1, QuietCap, IdleTyped
<1>2. CASE ~ (Cardinality(PendingFrom(req[r].user)) >= MaxPending)
  <2>1. \A x \in Requests : /\ req'[x].user = req[x].user
                            /\ x # r => req'[x].pc = req[x].pc
    BY <1>2 DEF CheckCap, Go, TypeInv, TypeOK, Request
  <2>2. ASSUME NEW u \in Users
        PROVE  Within(u)'
    <3>0. PendingFrom(u)' = PendingFrom(u)
      BY <1>0 DEF PendingFrom, FromUser
    <3>1. CASE u = req[r].user
      <4>1. Cardinality(PendingFrom(u)) + 1 <= MaxPending
        BY <1>2, <3>1, Counts, Constants
      <4>2. Cardinality(PendingFrom(u)') + 1 <= MaxPending
        BY <3>0, <4>1
      <4>3. /\ Cardinality(Passed(u)') <= Cardinality(Requests)
            /\ Cardinality(Passed(u)') \in Nat /\ Cardinality(PendingFrom(u)') \in Nat
        BY CountsNext
      <4>4. Cardinality(Requests) \in Nat /\ MaxPending \in Nat
        BY Constants, FS_CardinalityType
      <4> QED BY <4>2, <4>3, <4>4 DEF Within
    <3>2. CASE u # req[r].user
      <4>1. Passed(u)' \subseteq Passed(u)
        BY <2>1, <3>2 DEF Passed
      <4>2. Within(u)
        BY DEF CapOverrun, Within, Passed
      <4> QED BY <3>0, <4>1, <4>2, FewerKeep
    <3> QED BY <3>1, <3>2
  <2> QED BY <2>2 DEF CapOverrun, Within, Passed
<1> QED BY <1>1, <1>2

\* The INSERT takes one request from those past the cap for the one swap it adds.
LEMMA InsertSwapKeeps ==
  ASSUME TypeInv, Moves, CapOverrun, NEW r \in Requests, NEW s \in SwapIds, InsertSwap(r, s)
  PROVE  CapOverrun'
<1>1. \A x \in Requests : req'[x] = IF x = r THEN Idle ELSE req[x]
  BY DEF InsertSwap, Finish, TypeInv, TypeOK
<1>2. CASE swaps' = swaps
  BY <1>1, <1>2, QuietCap, IdleTyped
<1>3. CASE swaps' # swaps
  <2>1. swaps' = [swaps EXCEPT ![s] = [status |-> "pending", from |-> req[r].from, to |-> req[r].to]]
    BY <1>3 DEF InsertSwap
  <2>2. /\ swaps'[s].from = req[r].from /\ \A t \in SwapIds : t # s => swaps'[t] = swaps[t]
        /\ Owner[req[r].from] = req[r].user /\ req[r].pc = "insert"
    BY <2>1 DEF InsertSwap, TypeInv, TypeOK, Asked, Creating
  <2>3. ASSUME NEW u \in Users
        PROVE  Within(u)'
    <3>0. Within(u)
      BY DEF CapOverrun, Within, Passed
    <3>1. Passed(u)' = Passed(u) \ {r}
      BY <1>1, IdleTyped DEF Passed
    <3>2. CASE u = req[r].user
      <4>1. PendingFrom(u)' \subseteq PendingFrom(u) \cup {s} /\ r \in Passed(u)
        BY <2>2, <3>2 DEF PendingFrom, FromUser, Passed
      <4>2. IsFiniteSet(PendingFrom(u) \cup {s})
            /\ Cardinality(PendingFrom(u) \cup {s}) <= Cardinality(PendingFrom(u)) + 1
        <5>1. IsFiniteSet(PendingFrom(u)) /\ Cardinality(PendingFrom(u)) \in Nat
          BY Counts
        <5>2. IsFiniteSet(PendingFrom(u) \cup {s})
              /\ Cardinality(PendingFrom(u) \cup {s}) =
                   IF s \in PendingFrom(u) THEN Cardinality(PendingFrom(u)) ELSE Cardinality(PendingFrom(u)) + 1
          BY <5>1, FS_AddElement, Zenon
        <5> QED BY <5>1, <5>2
      <4>3. Cardinality(PendingFrom(u)') <= Cardinality(PendingFrom(u) \cup {s})
        BY <4>1, <4>2, FS_Subset
      <4>4. Cardinality(Passed(u)') = Cardinality(Passed(u)) - 1
        BY <3>1, <4>1, Counts, FS_RemoveElement
      <4>5. Cardinality(PendingFrom(u) \cup {s}) \in Nat
        BY <4>2, FS_CardinalityType
      <4> QED BY <3>0, <4>2, <4>3, <4>4, <4>5, Counts, CountsNext, Constants DEF Within
    <3>3. CASE u # req[r].user
      <4>1. PendingFrom(u)' \subseteq PendingFrom(u)
        BY <2>2, <3>3 DEF PendingFrom, FromUser
      <4> QED BY <3>0, <3>1, <4>1, FewerKeep
    <3> QED BY <3>2, <3>3
  <2> QED BY <2>3 DEF CapOverrun, Within, Passed
<1> QED BY <1>2, <1>3

LEMMA NextCap ==
  ASSUME TypeInv, CapOverrun, [Next]_vars
  PROVE  CapOverrun'
<1>0. Moves
  BY NextTyped
<1>1. ASSUME NEW u \in Users, People(u)
      PROVE  CapOverrun'
  <2>1. req' = req
    BY <1>1 DEF People, Join, File, BlockUser, UnblockUser, DeleteUser
  <2>2. \A s \in SwapIds : swaps'[s].status = "pending" => swaps[s].status = "pending"
    <3>1. ASSUME NEW v \in Users, BlockUser(u, v)
          PROVE  \A s \in SwapIds : swaps'[s].status = "pending" => swaps[s].status = "pending"
      BY <3>1 DEF BlockUser, TypeInv, TypeOK, SwapRow
    <3>2. CASE DeleteUser(u)
      BY <3>2 DEF DeleteUser, TypeInv, TypeOK, SwapRow
    <3>3. CASE swaps' = swaps
      BY <3>3
    <3> QED BY <1>1, <3>1, <3>2, <3>3 DEF People, Join, File, UnblockUser
  <2> QED BY <1>0, <2>1, <2>2, QuietCap
<1>2. ASSUME NEW r \in Requests, Statement(r) \/ Abandon(r)
      PROVE  CapOverrun'
  <2>1. CASE CheckCap(r)
    BY <1>0, <2>1, CheckCapKeeps
  <2>2. ASSUME NEW s \in SwapIds, InsertSwap(r, s)
        PROVE  CapOverrun'
    BY <1>0, <2>2, InsertSwapKeeps
  <2>3. CASE CheckBlocked(r) \/ CheckMember(r) \/ ReadSwap(r) \/ Abandon(r)
    <3>1. UNCHANGED swaps
      BY <2>3 DEF CheckBlocked, CheckMember, ReadSwap, Abandon, Reply, Go, data
    <3>2. \A x \in Requests : req'[x].pc \in {"member", "insert"} =>
            req[x].pc \in {"member", "insert"} /\ req'[x].user = req[x].user
      BY <2>3, IdleTyped
      DEF CheckBlocked, CheckMember, ReadSwap, Abandon, Reply, Finish, Go, TypeInv, TypeOK, Request
    <3> QED BY <1>0, <3>1, <3>2, QuietCap
  <2>4. CASE AcceptSwap(r) \/ UpdateSwap(r)
    <3>1. \A x \in Requests : req'[x] = IF x = r THEN Idle ELSE req[x]
      BY <2>4 DEF AcceptSwap, UpdateSwap, Finish, TypeInv, TypeOK
    <3>2. \A s \in SwapIds : swaps'[s].status = "pending" => swaps[s].status = "pending"
      BY <2>4 DEF AcceptSwap, UpdateSwap, TypeInv, TypeOK, Asked, Answering, SwapRow
    <3> QED BY <1>0, <3>1, <3>2, QuietCap, IdleTyped
  <2> QED BY <1>2, <2>1, <2>2, <2>3, <2>4 DEF Statement
<1>3. ASSUME NEW r \in Requests, NEW u \in Users, Ask(r, u)
      PROVE  CapOverrun'
  <2>1. UNCHANGED swaps
    BY <1>3 DEF Ask, AskSwap, AskAccept, AskEnd, Begin, data
  <2>2. \A x \in Requests : req'[x] = req[x] \/ req'[x].pc \in {"blocked", "accept", "read"}
    BY <1>3 DEF Ask, AskSwap, AskAccept, AskEnd, Begin, Idle, TypeInv, TypeOK
  <2> QED BY <1>0, <2>1, <2>2, QuietCap
<1>4. ASSUME NEW g \in Pairs, FulfilStep(g) \/ FulfilFail(g)
      PROVE  CapOverrun'
  <2>1. req' = req
    BY <1>4 DEF FulfilStep, FulfilFail, ReadCandidates, CheckFromDone, CheckToDone, FulfilSwap, NotifyPair
  <2>2. \A s \in SwapIds : swaps'[s].status = "pending" => swaps[s].status = "pending"
    <3>1. CASE FulfilSwap(g)
      BY <3>1 DEF FulfilSwap, TypeInv, TypeOK, SwapRow, Working, At
    <3>2. CASE ~ FulfilSwap(g)
      BY <1>4, <3>2 DEF FulfilStep, FulfilFail, ReadCandidates, CheckFromDone, CheckToDone, NotifyPair, data
    <3> QED BY <3>1, <3>2
  <2> QED BY <1>0, <2>1, <2>2, QuietCap
<1>5. CASE Restart
  BY <1>0, <1>5, QuietCap, IdleTyped DEF Restart, data
<1>6. CASE UNCHANGED vars
  BY <1>0, <1>6, QuietCap DEF vars
<1> QED BY <1>1, <1>2, <1>3, <1>4, <1>5, <1>6 DEF Next

LEMMA InitCap == Init => CapOverrun
<1> SUFFICES ASSUME Init, NEW u \in Users PROVE Within(u)
  BY DEF CapOverrun, Within, Passed
<1>1. PendingFrom(u) = {} /\ Passed(u) = {}
  BY IdleTyped DEF Init, PendingFrom, Passed
<1> QED BY <1>1, FS_EmptySet, Counts, Constants DEF Within

\* CapOverrun: the cap on pending proposals, read before the INSERT, is overrun by at
\* most the other requests in flight.
THEOREM CapOverrunHolds == Spec => []CapOverrun
<1> QED BY InitCap, NextCap, TypeInvHolds, PTL DEF Spec
==========================================================================
