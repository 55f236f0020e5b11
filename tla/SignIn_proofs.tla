----------------------------- MODULE SignIn_proofs -----------------------------
(***************************************************************************)
(* Proofs about SignIn, for any addresses, identities, codes and callers,  *)
(* and about the keys that Apple's tokens are checked with, AppleKeys.     *)
(***************************************************************************)
EXTENDS SignIn, AppleKeys, TLAPS

--------------------------------------------------------------------------
(* Accounts and codes. *)

\* The conjuncts of SignInTypeOK, named.
SignInFields ==
  /\ codes \in [Emails -> [code : Codes, fresh : BOOLEAN] \cup {NoCode}]
  /\ row \in [Emails -> Rows]
  /\ born \in 0..MaxAccounts
  /\ call \in [Callers -> SignInCall]
  /\ issued \in [Emails -> Codes \cup {Nil}]
  /\ home \in [Identities -> 0..MaxAccounts]

IdsOnce ==
  /\ \A e \in Emails : row[e].id <= born
  /\ \A e, f \in Emails : e # f /\ HasAccount(e) => row[e].id # row[f].id

SubsOnce == \A e, f \in Emails : row[e].sub = row[f].sub /\ row[e].sub # Nil => e = f

\* What a request names at each of its statements.
CallOK(q) ==
  /\ q.pc \in {"upsert", "link"} => q.email \in Emails
  /\ q.pc \in {"find", "link"} => q.sub \in Identities

CallsOK == \A c \in Callers : CallOK(call[c])

\* A code that is good is the last that was drawn, and has let nobody in.
CodesIssued == \A e \in Emails : codes[e].fresh => codes[e].code = issued[e]

AInv == SignInFields /\ IdsOnce /\ SubsOnce /\ CallsOK /\ CodesIssued

LEMMA InitAInv == SignInInit => AInv
<1> SUFFICES ASSUME SignInInit PROVE AInv
  OBVIOUS
<1> USE DEF SignInInit
<1>1. NoRow \in Rows /\ NoRow.id = 0 /\ NoRow.sub = Nil /\ Waiting \in SignInCall
  BY DEF NoRow, Rows, Waiting, SignInCall
<1>2. SignInFields
  BY <1>1, SignInAssumption DEF SignInFields
<1>3. IdsOnce /\ SubsOnce
  BY <1>1 DEF IdsOnce, SubsOnce, HasAccount
<1>4. CallsOK /\ CodesIssued
  BY DEF CallsOK, CallOK, Waiting, CodesIssued, NoCode
<1> QED BY <1>2, <1>3, <1>4 DEF AInv

--------------------------------------------------------------------------
(* Requests. *)

LEMMA WaitingOK == Waiting \in SignInCall /\ CallOK(Waiting)
BY DEF Waiting, SignInCall, CallOK

LEMMA DoneOK ==
  ASSUME AInv, NEW c \in Callers, SignInDone(c)
  PROVE  call' \in [Callers -> SignInCall] /\ CallsOK'
BY WaitingOK DEF AInv, SignInFields, CallsOK, CallOK, SignInDone

LEMMA GoOK ==
  ASSUME AInv, NEW c \in Callers, NEW pc \in {"upsert", "find", "link"},
         NEW e \in Emails \cup {Nil}, NEW s \in Identities \cup {Nil},
         pc \in {"upsert", "link"} => e \in Emails,
         pc \in {"find", "link"} => s \in Identities,
         SignInGo(c, pc, e, s)
  PROVE  call' \in [Callers -> SignInCall] /\ CallsOK'
<1> DEFINE q == [pc |-> pc, email |-> e, sub |-> s]
<1>1. q \in SignInCall /\ CallOK(q)
  BY DEF SignInCall, CallOK
<1>2. call' = [call EXCEPT ![c] = q]
  BY DEF SignInGo
<1> HIDE DEF q
<1> QED BY <1>1, <1>2 DEF AInv, SignInFields, CallsOK, CallOK

--------------------------------------------------------------------------
(* Steps that write no account. *)

LEMMA NoAccountAInv ==
  ASSUME AInv, UNCHANGED <<row, born, home>>,
         call' \in [Callers -> SignInCall], CallsOK',
         codes' \in [Emails -> [code : Codes, fresh : BOOLEAN] \cup {NoCode}],
         issued' \in [Emails -> Codes \cup {Nil}],
         CodesIssued'
  PROVE  AInv'
BY DEF AInv, SignInFields, IdsOnce, SubsOnce, HasAccount

LEMMA StartEmailAInv ==
  ASSUME AInv, NEW e \in Emails, StartEmail(e)
  PROVE  AInv'
<1>1. PICK code \in Codes :
        /\ codes' = [codes EXCEPT ![e] = [code |-> code, fresh |-> TRUE]]
        /\ issued' = [issued EXCEPT ![e] = code]
  BY SignInAssumption DEF StartEmail, Drawn
<1>2. UNCHANGED <<row, born, home, call>>
  BY DEF StartEmail
<1>3. codes' \in [Emails -> [code : Codes, fresh : BOOLEAN] \cup {NoCode}]
  BY <1>1 DEF AInv, SignInFields
<1>4. issued' \in [Emails -> Codes \cup {Nil}]
  BY <1>1 DEF AInv, SignInFields
<1>5. CodesIssued'
  <2> SUFFICES ASSUME NEW f \in Emails, codes'[f].fresh
               PROVE  codes'[f].code = issued'[f]
    BY DEF CodesIssued
  <2>1. CASE f = e
    BY <1>1, <2>1 DEF AInv, SignInFields
  <2>2. CASE f # e
    BY <1>1, <2>2 DEF AInv, SignInFields, CodesIssued
  <2> QED BY <2>1, <2>2
<1>6. call' \in [Callers -> SignInCall] /\ CallsOK'
  BY <1>2 DEF AInv, SignInFields, CallsOK
<1> QED BY <1>2, <1>3, <1>4, <1>5, <1>6, NoAccountAInv

\* A code that was drawn for e is good no more.
LEMMA SpentAInv ==
  ASSUME AInv, NEW e \in Emails, NEW old \in [code : Codes, fresh : BOOLEAN] \cup {NoCode},
         ~ old.fresh, codes' = [codes EXCEPT ![e] = old],
         NEW code \in Codes \cup {Nil}, issued' = [issued EXCEPT ![e] = code],
         UNCHANGED <<row, born, home>>, call' \in [Callers -> SignInCall], CallsOK'
  PROVE  AInv'
<1>1. codes' \in [Emails -> [code : Codes, fresh : BOOLEAN] \cup {NoCode}]
  BY DEF AInv, SignInFields
<1>2. issued' \in [Emails -> Codes \cup {Nil}]
  BY DEF AInv, SignInFields
<1>3. CodesIssued'
  <2> SUFFICES ASSUME NEW f \in Emails, codes'[f].fresh
               PROVE  codes'[f].code = issued'[f]
    BY DEF CodesIssued
  <2>1. f # e
    BY DEF AInv, SignInFields
  <2>2. codes'[f] = codes[f] /\ issued'[f] = issued[f]
    BY <2>1 DEF AInv, SignInFields
  <2> QED BY <2>2 DEF AInv, CodesIssued
<1> QED BY <1>1, <1>2, <1>3, NoAccountAInv

LEMMA LapseAInv ==
  ASSUME AInv, NEW e \in Emails, Lapse(e)
  PROVE  AInv'
<1> DEFINE old == [codes[e] EXCEPT !.fresh = FALSE]
<1>1. /\ codes[e].fresh /\ codes' = [codes EXCEPT ![e] = old]
      /\ UNCHANGED <<row, born, call, issued, home>>
  BY DEF Lapse
<1>2. codes[e] \in [code : Codes, fresh : BOOLEAN]
  BY <1>1 DEF AInv, SignInFields, NoCode
<1>3. old \in [code : Codes, fresh : BOOLEAN] /\ ~ old.fresh
  BY <1>2
<1>4. issued[e] \in Codes \cup {Nil} /\ issued' = [issued EXCEPT ![e] = issued[e]]
  BY <1>1 DEF AInv, SignInFields
<1>5. call' \in [Callers -> SignInCall] /\ CallsOK'
  BY <1>1 DEF AInv, SignInFields, CallsOK
<1> HIDE DEF old
<1> QED BY <1>1, <1>3, <1>4, <1>5, SpentAInv

\* A code that lets a request in is used up with it.
LEMMA VerifyAInv ==
  ASSUME AInv, NEW c \in Callers, NEW e \in Emails, NEW code \in Codes, Verify(c, e, code)
  PROVE  AInv'
<1>1. codes' = [codes EXCEPT ![e] = NoCode] /\ UNCHANGED <<row, born, home>>
  BY DEF Verify
<1>2. PICK left \in Codes \cup {Nil} : issued' = [issued EXCEPT ![e] = left]
  BY DEF Verify, AInv, SignInFields
<1>3. call' \in [Callers -> SignInCall] /\ CallsOK'
  BY GoOK DEF Verify
<1>4. ~ NoCode.fresh
  BY DEF NoCode
<1> QED BY <1>1, <1>2, <1>3, <1>4, SpentAInv

LEMMA LoseCodesAInv ==
  ASSUME AInv, LoseCodes
  PROVE  AInv'
<1>1. /\ codes' = [e \in Emails |-> NoCode] /\ call' = [c \in Callers |-> Waiting]
      /\ UNCHANGED <<row, born, issued, home>>
  BY DEF LoseCodes
<1>2. call' \in [Callers -> SignInCall] /\ CallsOK'
  BY <1>1, WaitingOK DEF CallsOK, CallOK
<1>3. CodesIssued'
  BY <1>1 DEF CodesIssued, NoCode
<1> QED BY <1>1, <1>2, <1>3, NoAccountAInv DEF AInv, SignInFields

\* A request that comes, goes on or ends, and writes nothing.
LEMMA CallAInv ==
  ASSUME AInv, UNCHANGED <<codes, row, born, issued, home>>,
         call' \in [Callers -> SignInCall], CallsOK'
  PROVE  AInv'
<1>1. CodesIssued'
  BY DEF AInv, CodesIssued
<1> QED BY <1>1, NoAccountAInv DEF AInv, SignInFields

--------------------------------------------------------------------------
(* Steps that write accounts. *)

\* The entries of codes are untouched, and the tables are as they should be.
LEMMA AccountAInv ==
  ASSUME AInv, UNCHANGED <<codes, issued>>,
         call' \in [Callers -> SignInCall], CallsOK',
         row' \in [Emails -> Rows], born' \in 0..MaxAccounts,
         home' \in [Identities -> 0..MaxAccounts],
         IdsOnce', SubsOnce'
  PROVE  AInv'
BY DEF AInv, SignInFields, CodesIssued

\* Rows and ids.
LEMMA RowFacts ==
  ASSUME AInv, NEW e \in Emails
  PROVE  /\ row[e] \in Rows /\ row[e].id \in 0..MaxAccounts /\ row[e].sub \in Identities \cup {Nil}
         /\ HasAccount(e) <=> row[e].id # 0
         /\ row[e].sub # Nil => HasAccount(e)
         /\ born \in Nat /\ MaxAccounts \in Nat
BY SignInAssumption DEF AInv, SignInFields, Rows, NoRow, HasAccount

\* An INSERT: the row has an id that was never given out.
LEMMA InsertUserFacts ==
  ASSUME AInv, NEW e \in Emails, NEW s \in Identities \cup {Nil}, ~ HasAccount(e),
         InsertUser(e, s), s # Nil => Linked(s) = {}
  PROVE  /\ row' \in [Emails -> Rows] /\ born' \in 0..MaxAccounts /\ born' = born + 1
         /\ row'[e].id = born + 1 /\ row'[e].sub = s
         /\ \A f \in Emails \ {e} : row'[f] = row[f]
         /\ IdsOnce' /\ SubsOnce'
<1> DEFINE new == [id |-> born + 1, sub |-> s]
<1>1. born < MaxAccounts /\ born' = born + 1 /\ row' = [row EXCEPT ![e] = new]
  BY DEF InsertUser
<1>2. new \in Rows /\ new.id = born + 1 /\ new.sub = s
  BY <1>1, RowFacts DEF Rows
<1> HIDE DEF new
<1>3. row' \in [Emails -> Rows] /\ row'[e] = new /\ \A f \in Emails \ {e} : row'[f] = row[f]
  BY <1>1, <1>2 DEF AInv, SignInFields
<1>4. born' \in 0..MaxAccounts
  BY <1>1, RowFacts DEF AInv, SignInFields
<1>5. \A f \in Emails \ {e} : row[f].id <= born /\ row[f].id # born + 1
  BY RowFacts DEF AInv, IdsOnce
<1>6. IdsOnce'
  <2>1. \A f \in Emails : row'[f].id <= born'
    BY <1>1, <1>2, <1>3, <1>5, RowFacts
  <2>2. ASSUME NEW f \in Emails, NEW g \in Emails, f # g, HasAccount(f)'
        PROVE  row'[f].id # row'[g].id
    <3>1. CASE f = e
      BY <1>2, <1>3, <1>5, <2>2, <3>1
    <3>2. CASE f # e /\ g = e
      BY <1>2, <1>3, <1>5, <3>2
    <3>3. CASE f # e /\ g # e
      BY <1>3, <2>2, <3>3 DEF AInv, IdsOnce, HasAccount
    <3> QED BY <3>1, <3>2, <3>3
  <2> QED BY <2>1, <2>2 DEF IdsOnce
<1>7. SubsOnce'
  BY <1>2, <1>3 DEF AInv, SubsOnce, Linked
<1> QED BY <1>1, <1>2, <1>3, <1>4, <1>6, <1>7

LEMMA UpsertUserAInv ==
  ASSUME AInv, NEW c \in Callers, UpsertUser(c)
  PROVE  AInv'
<1>1. PICK e \in Emails : e = call[c].email
  BY DEF AInv, CallsOK, CallOK, UpsertUser
<1>2. UNCHANGED <<codes, issued, home>> /\ call' \in [Callers -> SignInCall] /\ CallsOK'
  BY DoneOK DEF UpsertUser
<1>3. CASE HasAccount(e)
  BY <1>1, <1>2, <1>3, CallAInv DEF UpsertUser
<1>4. CASE ~ HasAccount(e)
  <2>1. InsertUser(e, Nil)
    BY <1>1, <1>4 DEF UpsertUser
  <2>2. /\ row' \in [Emails -> Rows] /\ born' \in 0..MaxAccounts
        /\ IdsOnce' /\ SubsOnce'
    BY <1>4, <2>1, InsertUserFacts
  <2> QED BY <1>2, <2>2, AccountAInv DEF AInv, SignInFields
<1> QED BY <1>3, <1>4

LEMMA FindIdentityAInv ==
  ASSUME AInv, NEW c \in Callers, FindIdentity(c)
  PROVE  AInv'
<1>1. PICK s \in Identities : s = call[c].sub
  BY DEF AInv, CallsOK, CallOK, FindIdentity
<1>2. UNCHANGED <<codes, row, born, issued>> /\ call[c] \in SignInCall
  BY DEF FindIdentity, AInv, SignInFields
<1>3. call' \in [Callers -> SignInCall] /\ CallsOK'
  <2>1. CASE SignInDone(c)
    BY <2>1, DoneOK
  <2>2. CASE call[c].email # Nil /\ SignInGo(c, "link", call[c].email, s)
    <3>1. PICK e \in Emails : e = call[c].email
      BY <1>2, <2>2 DEF SignInCall
    <3> QED BY <2>2, <3>1, GoOK
  <2> QED BY <1>1, <2>1, <2>2 DEF FindIdentity
<1>4. CASE Linked(s) # {}
  <2>1. PICK f \in Linked(s) : home' = [home EXCEPT ![s] = row[f].id]
    BY <1>1, <1>4 DEF FindIdentity
  <2>2. f \in Emails /\ row[f].sub = s /\ HasAccount(f) /\ row[f].id \in 0..MaxAccounts
    BY <2>1, RowFacts, SignInAssumption DEF Linked
  <2>3. home' \in [Identities -> 0..MaxAccounts]
    BY <2>1, <2>2 DEF AInv, SignInFields
  <2>4. IdsOnce' /\ SubsOnce'
    BY <1>2 DEF AInv, IdsOnce, SubsOnce, HasAccount
  <2> QED BY <1>2, <1>3, <2>3, <2>4, AccountAInv DEF AInv, SignInFields
<1>5. CASE Linked(s) = {}
  BY <1>1, <1>2, <1>3, <1>5, CallAInv DEF FindIdentity
<1> QED BY <1>4, <1>5

\* A link that takes effect: the row of e is s's from now on, and no other is.
Links(s, e) ==
  /\ row[e].sub \in {Nil, s} /\ Linked(s) \in {{}, {e}}
  /\ IF HasAccount(e)
       THEN row' = [row EXCEPT ![e].sub = s] /\ UNCHANGED born
       ELSE InsertUser(e, s)
  /\ home' = [home EXCEPT ![s] = row'[e].id]

\* The account of the address is another identity's, and s is let in to it.
LetsIn(s, e) ==
  /\ row[e].sub \notin {Nil, s}
  /\ home' = [home EXCEPT ![s] = row[e].id]
  /\ UNCHANGED <<row, born>>

LEMMA LinkKinds ==
  ASSUME AInv, NEW c \in Callers, LinkIdentity(c)
  PROVE  /\ UNCHANGED <<codes, issued>>
         /\ call' \in [Callers -> SignInCall] /\ CallsOK'
         /\ \E s \in Identities, e \in Emails :
              /\ call[c] = [pc |-> "link", email |-> e, sub |-> s]
              /\ \/ UNCHANGED <<row, born, home>>
                 \/ LetsIn(s, e)
                 \/ Links(s, e)
<1>1. PICK s \in Identities, e \in Emails : s = call[c].sub /\ e = call[c].email
  BY DEF AInv, CallsOK, CallOK, LinkIdentity
<1>2. UNCHANGED <<codes, issued>> /\ SignInDone(c)
  BY DEF LinkIdentity
<1>3. call' \in [Callers -> SignInCall] /\ CallsOK'
  BY <1>2, DoneOK
<1>4. call[c] = [pc |-> "link", email |-> e, sub |-> s]
  BY <1>1 DEF LinkIdentity, AInv, SignInFields, SignInCall
<1>5. \/ UNCHANGED <<row, born, home>>
      \/ LetsIn(s, e)
      \/ Links(s, e)
  BY <1>1 DEF LinkIdentity, LetsIn, Links
<1> QED BY <1>2, <1>3, <1>4, <1>5

LEMMA LinkFacts ==
  ASSUME AInv, NEW s \in Identities, NEW e \in Emails, Links(s, e)
  PROVE  /\ row' \in [Emails -> Rows] /\ born' \in 0..MaxAccounts /\ born <= born'
         /\ row'[e].sub = s /\ row'[e].id # 0
         /\ HasAccount(e) => row'[e].id = row[e].id
         /\ \A f \in Emails \ {e} : row'[f] = row[f] /\ row[f].sub # s
         /\ IdsOnce' /\ SubsOnce'
<1>0. s # Nil /\ \A f \in Emails \ {e} : row[f].sub # s
  BY SignInAssumption DEF Links, Linked
<1>1. CASE HasAccount(e)
  <2>1. row' = [row EXCEPT ![e].sub = s] /\ born' = born
    BY <1>1 DEF Links
  <2>2. row[e] \in [id : 1..MaxAccounts, sub : Identities \cup {Nil}]
    BY <1>1, RowFacts DEF Rows, HasAccount
  <2>3. /\ row'[e] \in [id : 1..MaxAccounts, sub : Identities \cup {Nil}]
        /\ row'[e].id = row[e].id /\ row'[e].sub = s
        /\ \A f \in Emails \ {e} : row'[f] = row[f]
    BY <2>1, <2>2 DEF AInv, SignInFields
  <2>4. row' \in [Emails -> Rows] /\ row'[e].id # 0
    BY <2>1, <2>3 DEF Rows, AInv, SignInFields
  <2>5. \A f \in Emails : row'[f].id = row[f].id /\ (HasAccount(f)' => HasAccount(f))
    BY <1>1, <2>3 DEF HasAccount
  <2>6. IdsOnce'
    BY <2>1, <2>5 DEF AInv, IdsOnce
  <2>7. SubsOnce'
    BY <1>0, <2>3 DEF AInv, SubsOnce
  <2> QED BY <1>0, <1>1, <2>1, <2>3, <2>4, <2>6, <2>7, RowFacts DEF AInv, SignInFields
<1>2. CASE ~ HasAccount(e)
  <2>1. Linked(s) = {}
    BY <1>0, <1>2, RowFacts DEF Links, Linked
  <2>2. InsertUser(e, s)
    BY <1>2 DEF Links
  <2>3. born \in Nat /\ born <= born + 1 /\ born + 1 # 0
    BY RowFacts
  <2> QED BY <1>0, <1>2, <2>1, <2>2, <2>3, InsertUserFacts
<1> QED BY <1>1, <1>2

LEMMA LinkIdentityAInv ==
  ASSUME AInv, NEW c \in Callers, LinkIdentity(c)
  PROVE  AInv'
<1>1. /\ UNCHANGED <<codes, issued>>
      /\ call' \in [Callers -> SignInCall] /\ CallsOK'
  BY LinkKinds
<1>2. CASE UNCHANGED <<row, born, home>>
  BY <1>1, <1>2, CallAInv
<1>3. ASSUME NEW s \in Identities, NEW e \in Emails, LetsIn(s, e)
      PROVE  AInv'
  <2>1. UNCHANGED <<row, born>> /\ home' \in [Identities -> 0..MaxAccounts]
    BY <1>3, RowFacts DEF LetsIn, AInv, SignInFields
  <2>2. IdsOnce' /\ SubsOnce'
    BY <2>1 DEF AInv, IdsOnce, SubsOnce, HasAccount
  <2> QED BY <1>1, <2>1, <2>2, AccountAInv DEF AInv, SignInFields
<1>4. ASSUME NEW s \in Identities, NEW e \in Emails, Links(s, e)
      PROVE  AInv'
  <2>1. /\ row' \in [Emails -> Rows] /\ born' \in 0..MaxAccounts
        /\ IdsOnce' /\ SubsOnce'
    BY <1>4, LinkFacts
  <2>2. row'[e].id \in 0..MaxAccounts
    BY <2>1, SignInAssumption DEF Rows, NoRow
  <2>3. home' \in [Identities -> 0..MaxAccounts]
    BY <1>4, <2>2 DEF Links, AInv, SignInFields
  <2> QED BY <1>1, <2>1, <2>3, AccountAInv
<1> QED BY <1>2, <1>3, <1>4, LinkKinds

LEMMA DropUserAInv ==
  ASSUME AInv, NEW e \in Emails, DropUser(e)
  PROVE  AInv'
<1>1. row' = [row EXCEPT ![e] = NoRow] /\ UNCHANGED <<codes, born, call, issued, home>>
  BY DEF DropUser
<1>2. NoRow \in Rows /\ NoRow.id = 0 /\ NoRow.sub = Nil
  BY DEF NoRow, Rows
<1>3. \A f \in Emails : row'[f] = IF f = e THEN NoRow ELSE row[f]
  BY <1>1 DEF AInv, SignInFields
<1>4. row' \in [Emails -> Rows] /\ born \in Nat
  BY <1>1, <1>2, RowFacts DEF AInv, SignInFields
<1>5. IdsOnce'
  <2>1. \A f \in Emails : row'[f].id <= born'
    BY <1>1, <1>2, <1>3, <1>4 DEF AInv, IdsOnce
  <2>2. ASSUME NEW f \in Emails, NEW g \in Emails, f # g, HasAccount(f)'
        PROVE  row'[f].id # row'[g].id
    <3>1. f # e /\ HasAccount(f)
      BY <1>3, <2>2 DEF HasAccount
    <3> QED BY <1>2, <1>3, <2>2, <3>1, RowFacts DEF AInv, IdsOnce
  <2> QED BY <2>1, <2>2 DEF IdsOnce
<1>6. SubsOnce'
  BY <1>2, <1>3 DEF AInv, SubsOnce
<1>7. call' \in [Callers -> SignInCall] /\ CallsOK'
  BY <1>1 DEF AInv, SignInFields, CallsOK
<1> QED BY <1>1, <1>4, <1>5, <1>6, <1>7, AccountAInv DEF AInv, SignInFields

LEMMA NextAInv == AInv /\ [SignInNext]_signInVars => AInv'
<1> SUFFICES ASSUME AInv, [SignInNext]_signInVars PROVE AInv'
  OBVIOUS
<1>1. CASE UNCHANGED signInVars
  <2>1. call' \in [Callers -> SignInCall] /\ CallsOK'
    BY <1>1 DEF signInVars, AInv, SignInFields, CallsOK
  <2> QED BY <1>1, <2>1, CallAInv DEF signInVars
<1>2. ASSUME NEW c \in Callers, NEW e \in Emails, GoogleSignIn(c, e)
      PROVE  AInv'
  BY <1>2, GoOK, CallAInv DEF GoogleSignIn
<1>3. ASSUME NEW c \in Callers, NEW s \in Identities, NEW e \in Emails \cup {Nil},
             AppleSignIn(c, s, e)
      PROVE  AInv'
  BY <1>3, GoOK, CallAInv DEF AppleSignIn
<1>4. ASSUME NEW c \in Callers, AbandonSignIn(c)
      PROVE  AInv'
  BY <1>4, DoneOK, CallAInv DEF AbandonSignIn
<1> QED BY <1>1, <1>2, <1>3, <1>4, StartEmailAInv, LapseAInv, VerifyAInv, LoseCodesAInv,
           UpsertUserAInv, FindIdentityAInv, LinkIdentityAInv, DropUserAInv
        DEF SignInNext

LEMMA AInvHolds == SignInSpec => []AInv
BY InitAInv, NextAInv, PTL DEF SignInSpec

\* Types; no id is given out twice, and no Apple identity is linked to two accounts,
\* however look-ups and writes of requests overlap.
THEOREM SignInTyped == SignInSpec => []SignInTypeOK
<1>1. AInv => SignInTypeOK
  BY DEF AInv, SignInTypeOK, SignInFields, IdsOnce, SubsOnce
<1> QED BY <1>1, AInvHolds, PTL

\* CodesOpenOnce: a code lets a request in only as the last that was drawn, and once; but
\* for the reviewers'.
THEOREM CodesOpenOnceHolds == SignInSpec => CodesOpenOnce
<1> DEFINE Opens(c, e, code) ==
      Verify(c, e, code) =>
        \/ e \in Reviewers /\ code = FixedCode
        \/ issued[e] = code
<1>1. ASSUME AInv, NEW c \in Callers, NEW e \in Emails, NEW code \in Codes
      PROVE  Opens(c, e, code)
  <2> SUFFICES ASSUME codes[e] = [code |-> code, fresh |-> TRUE]
               PROVE  issued[e] = code
    BY DEF Verify
  <2> QED BY <1>1 DEF AInv, CodesIssued
<1>2. AInv => [\A c \in Callers, e \in Emails, code \in Codes : Opens(c, e, code)]_signInVars
  BY <1>1
<1> QED BY <1>2, AInvHolds, PTL DEF CodesOpenOnce

\* A step keeps what is linked to s.
Keeps(s) ==
  \A e \in Linked(s) :
    /\ row'[e] \in {row[e], NoRow}
    /\ \/ home'[s] \in {home[s], row[e].id}
       \/ \E c \in Callers, f \in Emails :
            /\ call[c] = [pc |-> "link", email |-> f, sub |-> s]
            /\ row[f].sub \notin {Nil, s}
            /\ home'[s] = row[f].id

LEMMA LinkedFacts ==
  ASSUME AInv, NEW s \in Identities, NEW e \in Linked(s)
  PROVE  /\ e \in Emails /\ row[e].sub = s /\ HasAccount(e) /\ s # Nil
         /\ row[e] = [id |-> row[e].id, sub |-> s]
         /\ \A f \in Emails : row[f].sub = s => f = e
<1>1. e \in Emails /\ row[e].sub = s /\ s # Nil
  BY SignInAssumption DEF Linked
<1>2. HasAccount(e) /\ row[e] \in Rows
  BY <1>1, RowFacts
<1>3. row[e] \in [id : 1..MaxAccounts, sub : Identities \cup {Nil}]
  BY <1>2 DEF Rows, HasAccount
<1> QED BY <1>1, <1>2, <1>3 DEF AInv, SubsOnce

LEMMA LinkIdentityKeeps ==
  ASSUME AInv, NEW c \in Callers, LinkIdentity(c), NEW s \in Identities
  PROVE  Keeps(s)
<1> SUFFICES ASSUME NEW e \in Linked(s)
             PROVE  /\ row'[e] \in {row[e], NoRow}
                    /\ \/ home'[s] \in {home[s], row[e].id}
                       \/ \E d \in Callers, f \in Emails :
                            /\ call[d] = [pc |-> "link", email |-> f, sub |-> s]
                            /\ row[f].sub \notin {Nil, s}
                            /\ home'[s] = row[f].id
  BY DEF Keeps
<1>1. /\ e \in Emails /\ row[e].sub = s /\ HasAccount(e) /\ s # Nil
      /\ row[e] = [id |-> row[e].id, sub |-> s]
  BY LinkedFacts
<1>2. home \in [Identities -> 0..MaxAccounts] /\ row \in [Emails -> Rows]
  BY DEF AInv, SignInFields
<1>3. PICK t \in Identities, f \in Emails :
        /\ call[c] = [pc |-> "link", email |-> f, sub |-> t]
        /\ \/ UNCHANGED <<row, born, home>>
           \/ LetsIn(t, f)
           \/ Links(t, f)
  BY LinkKinds
<1>4. CASE UNCHANGED <<row, born, home>>
  BY <1>4
<1>5. CASE LetsIn(t, f)
  BY <1>2, <1>3, <1>5 DEF LetsIn
<1>6. CASE Links(t, f)
  <2>1. CASE t = s
    <3>1. f = e
      BY <1>6, <2>1 DEF Links
    <3>2. row' = [row EXCEPT ![e].sub = s] /\ home' = [home EXCEPT ![s] = row'[e].id]
      BY <1>1, <1>6, <2>1, <3>1 DEF Links
    <3>3. row'[e] = [row[e] EXCEPT !.sub = s]
      BY <1>1, <1>2, <3>2
    <3>4. row'[e] = row[e]
      BY <1>1, <3>3
    <3> QED BY <1>2, <3>2, <3>4
  <2>2. CASE t # s
    <3>1. f # e
      BY <1>1, <1>6, <2>2 DEF Links
    <3>2. row'[e] = row[e]
      BY <1>1, <1>2, <1>6, <3>1 DEF Links, InsertUser
    <3>3. home'[s] = home[s]
      BY <1>2, <1>6, <2>2 DEF Links
    <3> QED BY <3>2, <3>3
  <2> QED BY <2>1, <2>2
<1> QED BY <1>3, <1>4, <1>5, <1>6

\* AppleKeepsAccount: a link lasts until the account is deleted, and the identity is let
\* in to no other account by a request that looks it up meanwhile.
THEOREM AppleKeepsAccountHolds == SignInSpec => AppleKeepsAccount
<1>1. ASSUME AInv, [SignInNext]_signInVars, NEW s \in Identities
      PROVE  Keeps(s)
  <2>1. CASE UNCHANGED <<row, home>>
    BY <2>1 DEF Keeps
  <2>2. ASSUME NEW c \in Callers, FindIdentity(c)
        PROVE  Keeps(s)
    <3> SUFFICES ASSUME NEW e \in Linked(s)
                 PROVE  row'[e] = row[e] /\ home'[s] \in {home[s], row[e].id}
      BY DEF Keeps
    <3>1. row' = row /\ home \in [Identities -> 0..MaxAccounts]
      BY <1>1, <2>2 DEF FindIdentity, AInv, SignInFields
    <3>2. \/ home' = home
          \/ \E f \in Linked(call[c].sub) : home' = [home EXCEPT ![call[c].sub] = row[f].id]
      BY <2>2 DEF FindIdentity
    <3>3. \A f \in Linked(s) : f = e
      BY <1>1, LinkedFacts DEF Linked
    <3> QED BY <3>1, <3>2, <3>3
  <2>3. ASSUME NEW c \in Callers, UpsertUser(c)
        PROVE  Keeps(s)
    <3> SUFFICES ASSUME NEW e \in Linked(s)
                 PROVE  row'[e] = row[e] /\ home'[s] = home[s]
      BY DEF Keeps
    <3>1. HasAccount(e) /\ home' = home
      BY <1>1, <2>3, LinkedFacts DEF UpsertUser
    <3>2. \/ row' = row
          \/ ~ HasAccount(call[c].email) /\ InsertUser(call[c].email, Nil)
      BY <2>3 DEF UpsertUser
    <3> QED BY <1>1, <3>1, <3>2 DEF InsertUser, AInv, SignInFields, Linked
  <2>4. ASSUME NEW g \in Emails, DropUser(g)
        PROVE  Keeps(s)
    <3> SUFFICES ASSUME NEW e \in Linked(s)
                 PROVE  row'[e] \in {row[e], NoRow} /\ home'[s] = home[s]
      BY DEF Keeps
    <3> QED BY <1>1, <2>4 DEF DropUser, AInv, SignInFields, Linked
  <2>5. ASSUME NEW c \in Callers, LinkIdentity(c)
        PROVE  Keeps(s)
    BY <1>1, <2>5, LinkIdentityKeeps
  <2> QED BY <1>1, <2>1, <2>2, <2>3, <2>4, <2>5
          DEF SignInNext, signInVars, StartEmail, Lapse, GoogleSignIn, Verify, AppleSignIn,
              AbandonSignIn, LoseCodes
<1>2. AInv /\ [SignInNext]_signInVars => [\A s \in Identities : Keeps(s)]_signInVars
  BY <1>1
<1>3. (\A s \in Identities : Keeps(s)) =>
        \A s \in Identities : \A e \in Linked(s) :
          /\ row'[e] \in {row[e], NoRow}
          /\ \/ home'[s] \in {home[s], row[e].id}
             \/ \E c \in Callers, f \in Emails :
                  /\ call[c] = [pc |-> "link", email |-> f, sub |-> s]
                  /\ row[f].sub \notin {Nil, s}
                  /\ home'[s] = row[f].id
  BY DEF Keeps
<1> QED BY <1>2, <1>3, AInvHolds, PTL DEF SignInSpec, AppleKeepsAccount

--------------------------------------------------------------------------
(* Apple's keys. *)

\* A key in the cache that is published no more was withdrawn after the last fetch.
KInv ==
  /\ now \in Nat /\ fetched \in Nat
  /\ published \subseteq Kids /\ cache \subseteq Kids
  /\ withdrawn \in [Kids -> Nat]
  /\ fetched <= now
  /\ \A k \in cache \ published : fetched <= withdrawn[k]
  /\ NewKeyAccepted
  /\ OldKeyLapses

LEMMA InitKInv == AppleInit => KInv
  BY AppleKeysAssumption
     DEF AppleInit, KInv, NewKeyAccepted, OldKeyLapses, NoVerdict

\* A key that the cache has no longer, or not yet, was looked for at Apple in the same
\* check.
LEMMA KeyForKidKeeps ==
  ASSUME KInv, NEW k \in Kids, NEW first \in BOOLEAN, NEW second \in BOOLEAN,
         KeyForKid(k, first, second)
  PROVE  KInv'
<1> DEFINE cache1 == IF Aged /\ first THEN published ELSE cache
           again == k \notin cache1 /\ cache1 # {}
           fresh == (Aged /\ first) \/ (again /\ second)
<1> HIDE DEF cache1, again, fresh
<1>1. /\ cache' = IF again /\ second THEN published ELSE cache1
      /\ fetched' = IF fresh THEN now ELSE fetched
      /\ verdict' = [ok |-> k \in cache', failed |-> (Aged /\ ~ first) \/ (again /\ ~ second),
                     live |-> k \in published, recent |-> now <= withdrawn[k] + Hour]
      /\ UNCHANGED <<now, published, withdrawn>>
  BY DEF KeyForKid, Record, cache1, again, fresh
<1>2. cache' = IF fresh THEN published ELSE cache
  BY <1>1 DEF fresh, cache1
<1>3. /\ now' \in Nat /\ fetched' \in Nat /\ fetched' <= now'
      /\ published' \subseteq Kids /\ cache' \subseteq Kids
      /\ withdrawn' \in [Kids -> Nat]
      /\ \A j \in cache' \ published' : fetched' <= withdrawn'[j]
  BY <1>1, <1>2 DEF KInv
<1>4. NewKeyAccepted'
  <2> SUFFICES ASSUME k \notin cache', k \in published, ~ (Aged /\ ~ first)
               PROVE  again /\ ~ second
    BY <1>1 DEF NewKeyAccepted
  <2>1. ~ fresh
    BY <1>2
  <2>2. cache1 = cache /\ ~ Aged
    BY <2>1 DEF fresh, cache1
  <2>3. again
    BY <1>2, <2>1, <2>2 DEF again, Aged
  <2> QED BY <2>1, <2>3 DEF fresh
<1>5. OldKeyLapses'
  <2> SUFFICES ASSUME k \in cache', k \notin published, ~ (Aged /\ ~ first)
               PROVE  now <= withdrawn[k] + Hour
    BY <1>1 DEF OldKeyLapses
  <2>1. ~ fresh /\ k \in cache
    BY <1>2
  <2>2. ~ Aged
    BY <2>1 DEF fresh
  <2>3. now <= fetched + Hour
    BY <2>2, AppleKeysAssumption DEF Aged, KInv
  <2>4. fetched <= withdrawn[k] /\ withdrawn[k] \in Nat
    BY <2>1 DEF KInv
  <2> QED BY <2>3, <2>4, AppleKeysAssumption DEF KInv
<1> QED BY <1>3, <1>4, <1>5 DEF KInv

LEMMA NextKInv == KInv /\ [AppleNext]_appleVars => KInv'
<1> SUFFICES ASSUME KInv, [AppleNext]_appleVars PROVE KInv'
  OBVIOUS
<1>1. CASE UNCHANGED appleVars
  BY <1>1 DEF appleVars, KInv, NewKeyAccepted, OldKeyLapses
<1>2. CASE Tick
  BY <1>2 DEF Tick, KInv, NewKeyAccepted, OldKeyLapses
<1>3. ASSUME NEW k \in Kids, Publish(k)
      PROVE  KInv'
  BY <1>3 DEF Publish, KInv, NewKeyAccepted, OldKeyLapses
<1>4. ASSUME NEW k \in Kids, Withdraw(k)
      PROVE  KInv'
  <2>1. /\ published' = published \ {k} /\ withdrawn' = [withdrawn EXCEPT ![k] = now]
        /\ UNCHANGED <<now, cache, fetched, verdict>>
    BY <1>4 DEF Withdraw
  <2> QED BY <2>1 DEF KInv, NewKeyAccepted, OldKeyLapses
<1> QED BY <1>1, <1>2, <1>3, <1>4, KeyForKidKeeps DEF AppleNext

\* The inductive invariant behind the two theorems.
THEOREM KInductive == AppleSpec => []KInv
  BY InitKInv, NextKInv, PTL DEF AppleSpec

\* A published key is refused only if Apple could not be asked.
THEOREM NewKeyAcceptedHolds == AppleSpec => []NewKeyAccepted
<1>1. KInv => NewKeyAccepted
  BY DEF KInv
<1> QED BY <1>1, KInductive, PTL

\* A withdrawn key is accepted no longer than Hour, unless Apple could not be asked.
THEOREM OldKeyLapsesHolds == AppleSpec => []OldKeyLapses
<1>1. KInv => OldKeyLapses
  BY DEF KInv
<1> QED BY <1>1, KInductive, PTL
=============================================================================
