---------------------------- MODULE Devices_proofs ----------------------------
(***************************************************************************)
(* Proofs about Devices, for any accounts, phones, tokens and sends.       *)
(***************************************************************************)
EXTENDS Devices, TLAPS

--------------------------------------------------------------------------
(* The invariant. *)

\* The conjuncts of DeviceTypeOK, named.
Fields ==
  /\ accounts \subseteq Accounts
  /\ wants \subseteq accounts
  /\ owner \in [Tokens -> accounts \cup {None}]
  /\ send \in [Sends -> Send]
  /\ posts \subseteq Post
  /\ holder \in [Tokens -> Phones \cup {None}]
  /\ minted \subseteq Tokens
  /\ phone \in [Phones -> App]
  /\ leaked \subseteq Tokens
  /\ missed \subseteq Tokens

\* Nothing names a token before it is minted.
MintedFirst ==
  /\ \A t \in Tokens \ minted : holder[t] = None /\ owner[t] = None
  /\ \A p \in posts : p.token \in minted
  /\ \A n \in Sends : send[n].tokens \subseteq minted
  /\ \A h \in Phones : phone[h].current # None => phone[h].current \in minted

\* A phone has one token, and knows no other phone's.
OwnToken ==
  /\ \A t, k \in Tokens : holder[t] # None /\ holder[t] = holder[k] => t = k
  /\ \A h \in Phones, t \in Tokens : phone[h].current = t => holder[t] \in {h, None}

\* What a send is about to prune is gone, or FCM refused a message to it.
Pruned ==
  \A n \in Sends : \A t \in send[n].tokens :
    /\ send[n].pc = "invalid" => holder[t] = None
    /\ send[n].pc = "refused" => holder[t] = None \/ t \in missed

\* A token that outlived nothing is its phone's session's alone: in the table, in the
\* hands of a send, and in registrations on their way.
OneSession ==
  /\ \A t \in Tokens \ leaked : holder[t] # None =>
       /\ owner[t] \in {None, phone[holder[t]].user}
       /\ \A n \in Sends : send[n].pc = "listed" /\ t \in send[n].tokens =>
                             send[n].user = phone[holder[t]].user
       /\ \A p \in posts : p.kind = "register" /\ p.token = t => p.user = phone[holder[t]].user
  /\ \A t \in Tokens : holder[t] # None /\ phone[holder[t]].out = "clear" => t \in leaked
  /\ \A n \in Sends : send[n].pc = "listed" => send[n].user \in Accounts

\* A token that nothing happened to is unregistered only while its phone is at it; and
\* when it is not, nor fetching, its registration is made or on its way.
Registering ==
  \A t \in Tokens \ (leaked \cup missed) : holder[t] # None =>
    /\ \A p \in posts : p.kind = "unregister" /\ p.token = t =>
                          phone[holder[t]].out \in {"called", "forget"}
    /\ /\ phone[holder[t]].user \in accounts
       /\ phone[holder[t]].out = "no" /\ ~ phone[holder[t]].fetching
       => \/ owner[t] = phone[holder[t]].user
          \/ \E p \in posts : p.kind = "register" /\ p.token = t

DInv == Fields /\ MintedFirst /\ OwnToken /\ Pruned /\ OneSession /\ Registering

LEMMA DInvTypeOK == DInv => DeviceTypeOK
BY DeviceAssumption DEF DInv, DeviceTypeOK, Fields, MintedFirst, OwnToken, TokenOf

LEMMA StartedOK ==
  ASSUME NEW u \in Accounts \cup {None}
  PROVE  /\ Started(u) \in App /\ Started(u).user = u /\ Started(u).current = None
         /\ Started(u).out = "no" /\ (u # None => Started(u).fetching)
BY DEF Started, App

LEMMA InitDInv == DeviceInit => DInv
<1> SUFFICES ASSUME DeviceInit PROVE DInv
  OBVIOUS
<1> USE DEF DeviceInit
<1>1. NoSend \in Send /\ NoSend.tokens = {} /\ NoSend.pc = "idle"
  BY DEF NoSend, Send
<1>2. Started(None) \in App /\ Started(None).current = None
  BY StartedOK
<1>3. Fields
  BY <1>1, <1>2 DEF Fields
<1>4. MintedFirst /\ OwnToken
  BY <1>1, <1>2, DeviceAssumption DEF MintedFirst, OwnToken
<1>5. Pruned /\ OneSession /\ Registering
  BY <1>1 DEF Pruned, OneSession, Registering
<1> QED BY <1>3, <1>4, <1>5 DEF DInv

--------------------------------------------------------------------------
(* Phones: steps that leave every token where it is. *)

\* The phone h goes on as q.  Of the tokens that outlived nothing, none may be left to
\* another session or to the end of one; and of those that nothing happened to, none
\* may be unregistered unless h is at it, nor wait for a registration h does not fetch.
PhoneTo(h, q) ==
  /\ q \in App /\ phone' = [phone EXCEPT ![h] = q]
  /\ q.current \in {phone[h].current, None}
  /\ leaked \subseteq leaked' /\ leaked' \subseteq Tokens
  /\ missed \subseteq missed' /\ missed' \subseteq Tokens
  /\ \/ posts' = posts
     \/ /\ phone[h].current # None /\ phone[h].user # None /\ q.out = "called"
        /\ posts' = posts \cup {[kind |-> "unregister", user |-> phone[h].user,
                                 token |-> phone[h].current]}
  /\ \A t \in Tokens \ leaked' : holder[t] = h =>
       /\ phone[h].user \in {q.user, None} /\ q.out # "clear"
       /\ t \notin missed' =>
            /\ phone[h].out \in {"called", "forget"} => q.out \in {"called", "forget"}
            /\ q.user \notin accounts \/ q.out # "no" \/ q.fetching

LEMMA PhoneToDInv ==
  ASSUME DInv, NEW h \in Phones, NEW q, PhoneTo(h, q),
         UNCHANGED <<accounts, owner, send, fcmVars>>, wants' \subseteq accounts
  PROVE  DInv'
<1>1. /\ UNCHANGED <<accounts, owner, send, holder, minted>>
      /\ q \in App /\ \A g \in Phones : phone'[g] = IF g = h THEN q ELSE phone[g]
      /\ q.current \in {phone[h].current, None}
      /\ leaked \subseteq leaked' /\ leaked' \subseteq Tokens
      /\ missed \subseteq missed' /\ missed' \subseteq Tokens
  BY DEF PhoneTo, fcmVars, DInv, Fields
<1>2. /\ phone[h].current \in Tokens \cup {None} /\ phone[h].user \in Accounts \cup {None}
      /\ \A p \in posts : p \in Post /\ p.user \in Accounts /\ p.user # None
      /\ \A n \in Sends : send[n] \in Send
      /\ None \notin Accounts \cup Phones \cup Tokens
  BY DeviceAssumption DEF DInv, Fields, App, Post
<1>3. \A p \in posts' :
        \/ p \in posts
        \/ /\ p \in Post /\ p.kind = "unregister" /\ p.token = phone[h].current
           /\ p.token # None /\ q.out = "called"
  BY <1>2 DEF PhoneTo, Post
<1>4. \A t \in Tokens \ leaked' : holder[t] = h =>
        /\ phone[h].user \in {q.user, None} /\ q.out # "clear"
        /\ t \notin missed' =>
             /\ phone[h].out \in {"called", "forget"} => q.out \in {"called", "forget"}
             /\ q.user \notin accounts \/ q.out # "no" \/ q.fetching
  BY DEF PhoneTo
<1>5. Fields'
  <2>1. phone' \in [Phones -> App]
    BY <1>1 DEF PhoneTo, DInv, Fields
  <2>2. posts' \subseteq Post
    BY <1>2, <1>3
  <2> QED BY <1>1, <2>1, <2>2 DEF DInv, Fields
<1>6. MintedFirst'
  <2>1. \A p \in posts' : p.token \in minted'
    BY <1>1, <1>3 DEF DInv, MintedFirst
  <2>2. \A g \in Phones : phone'[g].current # None => phone'[g].current \in minted'
    BY <1>1 DEF DInv, MintedFirst
  <2> QED BY <1>1, <2>1, <2>2 DEF DInv, MintedFirst
<1>7. OwnToken'
  BY <1>1, <1>2 DEF DInv, OwnToken
<1>8. Pruned'
  BY <1>1 DEF DInv, Pruned
<1>9. OneSession'
  <2>1. ASSUME NEW t \in Tokens \ leaked', holder[t] # None
        PROVE  /\ owner[t] \in {None, phone'[holder[t]].user}
               /\ \A n \in Sends : send[n].pc = "listed" /\ t \in send[n].tokens =>
                                     send[n].user = phone'[holder[t]].user
               /\ \A p \in posts' : p.kind = "register" /\ p.token = t =>
                                     p.user = phone'[holder[t]].user
    <3>1. /\ owner[t] \in {None, phone[holder[t]].user}
          /\ \A n \in Sends : send[n].pc = "listed" /\ t \in send[n].tokens =>
                send[n].user = phone[holder[t]].user /\ send[n].user # None
          /\ \A p \in posts' : p.kind = "register" /\ p.token = t =>
                p.user = phone[holder[t]].user /\ p.user # None
      BY <1>1, <1>2, <1>3, <2>1 DEF DInv, OneSession
    <3>2. holder[t] \in Phones
      BY <2>1 DEF DInv, Fields
    <3>3. phone[holder[t]].user \in {phone'[holder[t]].user, None}
      BY <1>1, <1>4, <2>1, <3>2
    <3> QED BY <3>1, <3>3
  <2>2. ASSUME NEW t \in Tokens, holder[t] # None, phone'[holder[t]].out = "clear"
        PROVE  t \in leaked'
    <3>1. holder[t] \in Phones
      BY <2>2 DEF DInv, Fields
    <3> QED BY <1>1, <1>4, <2>2, <3>1 DEF DInv, OneSession
  <2> QED BY <1>1, <2>1, <2>2 DEF DInv, OneSession
<1>10. Registering'
  <2> SUFFICES ASSUME NEW t \in Tokens \ (leaked' \cup missed'), holder[t] # None
               PROVE  /\ \A p \in posts' : p.kind = "unregister" /\ p.token = t =>
                                             phone'[holder[t]].out \in {"called", "forget"}
                      /\ /\ phone'[holder[t]].user \in accounts
                         /\ phone'[holder[t]].out = "no" /\ ~ phone'[holder[t]].fetching
                         => \/ owner[t] = phone'[holder[t]].user
                            \/ \E p \in posts' : p.kind = "register" /\ p.token = t
    BY <1>1 DEF Registering
  <2>0. holder[t] \in Phones /\ posts \subseteq posts'
    BY DEF PhoneTo, DInv, Fields
  <2>1. CASE holder[t] = h
    <3>1. \A p \in posts' : p.kind = "unregister" /\ p.token = t => q.out \in {"called", "forget"}
      BY <1>1, <1>3, <1>4, <2>1 DEF DInv, Registering
    <3> QED BY <1>1, <1>4, <2>1, <3>1
  <2>2. CASE holder[t] # h
    <3>1. phone'[holder[t]] = phone[holder[t]]
      BY <1>1, <2>0, <2>2
    <3>2. \A p \in posts' : p.token = t => p \in posts
      BY <1>3, <2>2 DEF DInv, OwnToken
    <3> QED BY <1>1, <2>0, <3>1, <3>2 DEF DInv, Registering
  <2> QED BY <2>1, <2>2
<1> QED BY <1>5, <1>6, <1>7, <1>8, <1>9, <1>10 DEF DInv

LEMMA CallFacts ==
  ASSUME DInv, NEW h \in Phones, NEW kind \in {"register", "unregister"}, NEW t \in Tokens,
         Call(h, kind, t)
  PROVE  \/ phone[h].user = None /\ posts' = posts
         \/ /\ phone[h].user \in Accounts
            /\ posts' = posts \cup {[kind |-> kind, user |-> phone[h].user, token |-> t]}
            /\ [kind |-> kind, user |-> phone[h].user, token |-> t] \in Post
<1>1. phone[h].user \in Accounts \cup {None}
  BY DEF DInv, Fields, App
<1> QED BY <1>1 DEF Call, Post

\* The phone after a step that sets a field or two of it.
LEMMA PhoneType ==
  ASSUME DInv, NEW h \in Phones
  PROVE  /\ phone[h] \in App /\ phone \in [Phones -> App]
         /\ phone[h].user \in Accounts \cup {None} /\ phone[h].current \in Tokens \cup {None}
         /\ leaked \subseteq Tokens /\ missed \subseteq Tokens /\ wants \subseteq accounts
         /\ accounts \subseteq Accounts
         /\ None \notin Accounts \cup Phones \cup Tokens
         /\ TokenOf(h) \subseteq Tokens
         /\ \A t \in Tokens : holder[t] = h <=> t \in TokenOf(h)
BY DeviceAssumption DEF DInv, Fields, App, TokenOf

LEMMA EstablishSessionDInv ==
  ASSUME DInv, NEW h \in Phones, NEW u \in Accounts, EstablishSession(h, u)
  PROVE  DInv'
<1> DEFINE q == [phone[h] EXCEPT !.user = u, !.fetching = TRUE]
<1>0. phone[h] \in App /\ phone \in [Phones -> App]
  BY PhoneType
<1>1. /\ q \in App /\ q.user = u /\ q.fetching /\ q.out = phone[h].out
      /\ q.current = phone[h].current
  BY <1>0, PhoneType DEF App
<1>2. /\ phone' = [phone EXCEPT ![h] = q] /\ phone[h].user = None /\ phone[h].out = "no"
      /\ UNCHANGED <<serverVars, fcmVars, posts, leaked, missed>>
  BY <1>0 DEF EstablishSession
<1> HIDE DEF q
<1>3. PhoneTo(h, q)
  BY <1>1, <1>2, PhoneType DEF PhoneTo
<1> QED BY <1>2, <1>3, PhoneToDInv, PhoneType DEF serverVars

LEMMA BootstrapDInv ==
  ASSUME DInv, NEW h \in Phones, Bootstrap(h)
  PROVE  DInv'
<1> DEFINE q == Started(phone[h].user)
<1>1. /\ q \in App /\ q.user = phone[h].user /\ q.current = None /\ q.out = "no"
      /\ q.user # None => q.fetching
  BY PhoneType, StartedOK
<1>2. /\ phone' = [phone EXCEPT ![h] = q]
      /\ missed' = IF phone[h].out = "no" THEN missed ELSE missed \cup TokenOf(h)
      /\ UNCHANGED <<serverVars, fcmVars, posts, leaked>>
  BY DEF Bootstrap
<1> HIDE DEF q
<1>3. q.user \notin accounts \/ q.fetching
  BY <1>1, PhoneType
<1>4. PhoneTo(h, q)
  BY <1>1, <1>2, <1>3, PhoneType DEF PhoneTo
<1> QED BY <1>2, <1>4, PhoneToDInv, PhoneType DEF serverVars

LEMMA BootstrapFailsDInv ==
  ASSUME DInv, NEW h \in Phones, BootstrapFails(h)
  PROVE  DInv'
<1> DEFINE q == Started(None)
<1>1. q \in App /\ q.current = None /\ q.out = "no"
  BY StartedOK
<1>2. /\ phone' = [phone EXCEPT ![h] = q] /\ leaked' = leaked \cup TokenOf(h)
      /\ UNCHANGED <<serverVars, fcmVars, posts, missed>>
  BY DEF BootstrapFails
<1> HIDE DEF q
<1>3. PhoneTo(h, q)
  BY <1>1, <1>2, PhoneType DEF PhoneTo
<1> QED BY <1>2, <1>3, PhoneToDInv, PhoneType DEF serverVars

LEMMA GetTokenFailsDInv ==
  ASSUME DInv, NEW h \in Phones, GetTokenFails(h)
  PROVE  DInv'
<1> DEFINE q == [phone[h] EXCEPT !.fetching = FALSE]
<1>0. phone[h] \in App /\ phone \in [Phones -> App]
  BY PhoneType
<1>1. /\ q \in App /\ q.user = phone[h].user /\ q.out = phone[h].out
      /\ q.current = phone[h].current
  BY <1>0, PhoneType DEF App
<1>2. /\ phone' = [phone EXCEPT ![h] = q] /\ missed' = missed \cup TokenOf(h)
      /\ UNCHANGED <<serverVars, fcmVars, posts, leaked>>
  BY <1>0 DEF GetTokenFails
<1> HIDE DEF q
<1>3. \A t \in Tokens \ leaked' : holder[t] = h => q.out # "clear"
  BY <1>1, <1>2, PhoneType DEF DInv, OneSession
<1>4. PhoneTo(h, q)
  BY <1>1, <1>2, <1>3, PhoneType DEF PhoneTo
<1> QED BY <1>2, <1>4, PhoneToDInv, PhoneType DEF serverVars

LEMMA BeginUnregisterDInv ==
  ASSUME DInv, NEW h \in Phones, NEW quits \in BOOLEAN, BeginUnregister(h, quits),
         UNCHANGED <<accounts, owner, send, fcmVars, leaked, missed>>, wants' \subseteq accounts
  PROVE  DInv'
<1> DEFINE known == phone[h].current # None
           q == [phone[h] EXCEPT !.out = IF known THEN "called" ELSE "forget", !.quits = quits]
<1>0. phone[h] \in App /\ phone \in [Phones -> App]
  BY PhoneType
<1>1. /\ q \in App /\ q.user = phone[h].user /\ q.out = IF known THEN "called" ELSE "forget"
      /\ q.current = phone[h].current
  BY <1>0, PhoneType DEF App
<1>2. phone' = [phone EXCEPT ![h] = q] /\ phone[h].user # None
  BY <1>0 DEF BeginUnregister
<1>3. IF known THEN Call(h, "unregister", phone[h].current) ELSE posts' = posts
  BY DEF BeginUnregister
<1> HIDE DEF q
<1>4. \/ posts' = posts
      \/ /\ phone[h].current # None /\ phone[h].user # None /\ q.out = "called"
         /\ posts' = posts \cup {[kind |-> "unregister", user |-> phone[h].user,
                                  token |-> phone[h].current]}
  BY <1>1, <1>2, <1>3, CallFacts, PhoneType
<1>5. PhoneTo(h, q)
  BY <1>1, <1>2, <1>4, PhoneType DEF PhoneTo
<1> QED BY <1>5, PhoneToDInv

LEMMA UnregisteredDInv ==
  ASSUME DInv, NEW h \in Phones, Unregistered(h)
  PROVE  DInv'
<1> DEFINE q == [phone[h] EXCEPT !.out = "forget", !.current = None]
<1>0. phone[h] \in App /\ phone \in [Phones -> App]
  BY PhoneType
<1>1. q \in App /\ q.user = phone[h].user /\ q.out = "forget" /\ q.current = None
  BY <1>0, PhoneType DEF App
<1>2. /\ phone' = [phone EXCEPT ![h] = q]
      /\ UNCHANGED <<serverVars, fcmVars, posts, leaked, missed>>
  BY <1>0 DEF Unregistered
<1> HIDE DEF q
<1>3. PhoneTo(h, q)
  BY <1>1, <1>2, PhoneType DEF PhoneTo
<1> QED BY <1>2, <1>3, PhoneToDInv, PhoneType DEF serverVars

\* Where AfterForget leaves the phone.
Forgotten(h, q) ==
  /\ q \in App /\ phone' = [phone EXCEPT ![h] = q]
  /\ q.user = phone[h].user /\ q.current = phone[h].current /\ q.out \in {"clear", "no"}

LEMMA AfterForgetFacts ==
  ASSUME DInv, NEW h \in Phones, AfterForget(h)
  PROVE  \E q \in App : Forgotten(h, q)
<1> DEFINE q == [phone[h] EXCEPT !.out = IF phone[h].quits THEN "clear" ELSE "no",
                                 !.quits = FALSE]
<1>0. phone[h] \in App /\ phone \in [Phones -> App]
  BY PhoneType
<1>1. /\ q \in App /\ q.user = phone[h].user /\ q.current = phone[h].current
      /\ q.out \in {"clear", "no"}
  BY <1>0, PhoneType DEF App
<1>2. phone' = [phone EXCEPT ![h] = q]
  BY <1>0 DEF AfterForget
<1> QED BY <1>1, <1>2 DEF Forgotten

LEMMA ForgetFailsDInv ==
  ASSUME DInv, NEW h \in Phones, ForgetFails(h)
  PROVE  DInv'
<1>1. PICK q \in App : Forgotten(h, q)
  BY AfterForgetFacts DEF ForgetFails
<1>2. /\ leaked' = leaked \cup TokenOf(h)
      /\ UNCHANGED <<serverVars, fcmVars, posts, missed>>
  BY DEF ForgetFails, AfterForget
<1>3. PhoneTo(h, q)
  BY <1>1, <1>2, PhoneType DEF PhoneTo, Forgotten
<1> QED BY <1>2, <1>3, PhoneToDInv, PhoneType DEF serverVars

LEMMA ClearSessionDInv ==
  ASSUME DInv, NEW h \in Phones, ClearSession(h)
  PROVE  DInv'
<1> DEFINE q == [phone[h] EXCEPT !.user = None, !.out = "no"]
<1>0. phone[h] \in App /\ phone \in [Phones -> App]
  BY PhoneType
<1>1. q \in App /\ q.user = None /\ q.out = "no" /\ q.current = phone[h].current
  BY <1>0, PhoneType DEF App
<1>2. /\ phone' = [phone EXCEPT ![h] = q] /\ phone[h].out = "clear"
      /\ UNCHANGED <<serverVars, fcmVars, posts, leaked, missed>>
  BY <1>0 DEF ClearSession
<1> HIDE DEF q
<1>3. \A t \in Tokens \ leaked' : holder[t] # h
  BY <1>2, PhoneType DEF DInv, OneSession
<1>4. PhoneTo(h, q)
  BY <1>1, <1>2, <1>3, PhoneType DEF PhoneTo
<1> QED BY <1>2, <1>4, PhoneToDInv, PhoneType DEF serverVars

LEMMA OptInDInv ==
  ASSUME DInv, NEW h \in Phones, OptIn(h)
  PROVE  DInv'
<1> DEFINE q == [phone[h] EXCEPT !.fetching = TRUE]
<1>0. phone[h] \in App /\ phone \in [Phones -> App]
  BY PhoneType
<1>1. /\ q \in App /\ q.user = phone[h].user /\ q.out = phone[h].out /\ q.fetching
      /\ q.current = phone[h].current
  BY <1>0, PhoneType DEF App
<1>2. /\ phone' = [phone EXCEPT ![h] = q] /\ wants' \subseteq accounts
      /\ UNCHANGED <<accounts, owner, send, fcmVars, posts, leaked, missed>>
  BY <1>0, PhoneType DEF OptIn
<1> HIDE DEF q
<1>3. \A t \in Tokens \ leaked' : holder[t] = h => q.out # "clear"
  BY <1>1, <1>2, PhoneType DEF DInv, OneSession
<1>4. PhoneTo(h, q)
  BY <1>1, <1>2, <1>3, PhoneType DEF PhoneTo
<1> QED BY <1>2, <1>4, PhoneToDInv

--------------------------------------------------------------------------
(* Phones: tokens that die, and tokens that are minted. *)

\* The tokens dead are gone, and with them what was noted of them.
Dies(dead) ==
  /\ dead \subseteq Tokens
  /\ \A t \in Tokens : holder'[t] = IF t \in dead THEN None ELSE holder[t]
  /\ holder' \in [Tokens -> Phones \cup {None}]
  /\ leaked' = leaked \ dead /\ missed' = missed \ dead
  /\ UNCHANGED <<serverVars, posts, minted>>

LEMMA DiesDInv ==
  ASSUME DInv, NEW dead, Dies(dead),
         \/ phone' = phone
         \/ \E h \in Phones, q \in App : Forgotten(h, q) /\ TokenOf(h) \subseteq dead
  PROVE  DInv'
<1>1. /\ \A t \in Tokens : holder'[t] = IF t \in dead THEN None ELSE holder[t]
      /\ leaked' = leaked \ dead /\ missed' = missed \ dead
      /\ UNCHANGED <<accounts, wants, owner, send, posts, minted>>
  BY DEF Dies, serverVars
<1>2. /\ phone' \in [Phones -> App]
      /\ \A g \in Phones : phone'[g].current = phone[g].current /\ phone'[g].user = phone[g].user
      /\ \A t \in Tokens : holder'[t] # None =>
           holder'[t] = holder[t] /\ t \notin dead /\ phone'[holder[t]] = phone[holder[t]]
  <2>1. CASE phone' = phone
    BY <1>1, <2>1 DEF DInv, Fields
  <2>2. ASSUME NEW h \in Phones, NEW q \in App, Forgotten(h, q), TokenOf(h) \subseteq dead
        PROVE  /\ phone' \in [Phones -> App]
               /\ \A g \in Phones : phone'[g].current = phone[g].current /\ phone'[g].user = phone[g].user
               /\ \A t \in Tokens : holder'[t] # None =>
                    holder'[t] = holder[t] /\ t \notin dead /\ phone'[holder[t]] = phone[holder[t]]
    <3>1. phone \in [Phones -> App] /\ \A t \in Tokens : holder[t] \in Phones \cup {None}
      BY DEF DInv, Fields
    <3>2. \A g \in Phones : phone'[g] = IF g = h THEN q ELSE phone[g]
      BY <2>2, <3>1 DEF Forgotten
    <3>3. \A t \in Tokens : holder'[t] # None => holder'[t] = holder[t] /\ t \notin dead /\ holder[t] # h
      BY <1>1, <2>2 DEF TokenOf
    <3> QED BY <2>2, <3>1, <3>2, <3>3 DEF Forgotten
  <2> QED BY <2>1, <2>2
<1>3. Fields'
  BY <1>1, <1>2 DEF Dies, DInv, Fields
<1>4. MintedFirst'
  BY <1>1, <1>2 DEF DInv, MintedFirst
<1>5. OwnToken'
  <2>1. \A h \in Phones, t \in Tokens : phone'[h].current = t => holder'[t] \in {h, None}
    BY <1>1, <1>2 DEF DInv, OwnToken
  <2> QED BY <1>1, <2>1 DEF DInv, OwnToken
<1>6. Pruned'
  BY <1>1 DEF DInv, Pruned, Fields, Send
<1>7. OneSession'
  BY <1>1, <1>2 DEF DInv, OneSession
<1>8. Registering'
  BY <1>1, <1>2 DEF DInv, Registering
<1> QED BY <1>3, <1>4, <1>5, <1>6, <1>7, <1>8 DEF DInv

LEMMA ExpireTokenDInv ==
  ASSUME DInv, NEW t \in Tokens, ExpireToken(t)
  PROVE  DInv'
<1>1. Dies({t}) /\ phone' = phone
  BY DEF ExpireToken, Dies, DInv, Fields
<1> QED BY <1>1, DiesDInv

LEMMA ForgetTokenDInv ==
  ASSUME DInv, NEW h \in Phones, ForgetToken(h)
  PROVE  DInv'
<1>1. PICK q \in App : Forgotten(h, q)
  BY AfterForgetFacts DEF ForgetToken
<1>2. Dies(TokenOf(h))
  BY DEF ForgetToken, AfterForget, Dies, DInv, Fields, TokenOf, serverVars
<1> QED BY <1>1, <1>2, DiesDInv

\* The phone h has the token t now, and registers it if it has a session.
Holds(h, t, q) ==
  /\ q \in App /\ phone' = [phone EXCEPT ![h] = q]
  /\ q.user = phone[h].user /\ q.current = t /\ q.out = phone[h].out
  /\ \/ phone[h].user = None /\ posts' = posts
     \/ /\ phone[h].user \in Accounts
        /\ posts' = posts \cup {[kind |-> "register", user |-> phone[h].user, token |-> t]}
        /\ [kind |-> "register", user |-> phone[h].user, token |-> t] \in Post
  /\ UNCHANGED serverVars

LEMMA RegisterTokenFacts ==
  ASSUME DInv, NEW h \in Phones, NEW t \in Tokens, NEW fetching,
         fetching = FALSE \/ fetching = phone[h].fetching, RegisterToken(h, t, fetching)
  PROVE  /\ \E q \in App : Holds(h, t, q)
         /\ leaked' = (leaked \ (TokenOf(h) \ {t})) \cup Outlives(h, t)
<1> DEFINE q == [phone[h] EXCEPT !.current = t, !.fetching = fetching]
<1>0. phone[h] \in App /\ phone \in [Phones -> App]
  BY PhoneType
<1>1. /\ q \in App /\ q.user = phone[h].user /\ q.current = t /\ q.out = phone[h].out
  BY <1>0 DEF App
<1>2. phone' = [phone EXCEPT ![h] = q]
  BY <1>0 DEF RegisterToken
<1> HIDE DEF q
<1>3. Holds(h, t, q)
  BY <1>1, <1>2, CallFacts DEF RegisterToken, Holds
<1> QED BY <1>1, <1>3 DEF RegisterToken

\* The calls under way, when h has registered t.
LEMMA HoldsFacts ==
  ASSUME DInv, NEW h \in Phones, NEW t \in Tokens, NEW q \in App, Holds(h, t, q)
  PROVE  /\ \A g \in Phones : phone'[g] = IF g = h THEN q ELSE phone[g]
         /\ \A g \in Phones : phone'[g].user = phone[g].user /\ phone'[g].out = phone[g].out
         /\ phone' \in [Phones -> App] /\ posts' \subseteq Post /\ posts \subseteq posts'
         /\ \A p \in posts' :
              \/ p \in posts
              \/ p.kind = "register" /\ p.token = t /\ p.user = phone[h].user
         /\ phone[h].user \in accounts => \E p \in posts' : p.kind = "register" /\ p.token = t
         /\ UNCHANGED <<accounts, wants, owner, send>>
<1>1. /\ phone \in [Phones -> App] /\ posts \subseteq Post /\ None \notin accounts
  BY DeviceAssumption DEF DInv, Fields
<1>2. /\ \A g \in Phones : phone'[g] = IF g = h THEN q ELSE phone[g]
      /\ phone' \in [Phones -> App] /\ UNCHANGED <<accounts, wants, owner, send>>
  BY <1>1 DEF Holds, serverVars
<1>3. \A g \in Phones : phone'[g].user = phone[g].user /\ phone'[g].out = phone[g].out
  BY <1>2 DEF Holds
<1> DEFINE new == [kind |-> "register", user |-> phone[h].user, token |-> t]
<1>4. new.kind = "register" /\ new.user = phone[h].user /\ new.token = t
  OBVIOUS
<1>5. \/ phone[h].user = None /\ posts' = posts
      \/ posts' = posts \cup {new} /\ new \in Post
  BY DEF Holds
<1> HIDE DEF new
<1>6. /\ posts' \subseteq Post /\ posts \subseteq posts'
      /\ \A p \in posts' :
           \/ p \in posts
           \/ p.kind = "register" /\ p.token = t /\ p.user = phone[h].user
      /\ phone[h].user \in accounts => \E p \in posts' : p.kind = "register" /\ p.token = t
  BY <1>1, <1>4, <1>5
<1> QED BY <1>2, <1>3, <1>6

LEMMA SameTokenDInv ==
  ASSUME DInv, NEW h \in Phones, NEW t \in Tokens, NEW q \in App, Holds(h, t, q),
         holder[t] = h, UNCHANGED <<fcmVars, missed>>,
         leaked' = (leaked \ (TokenOf(h) \ {t})) \cup Outlives(h, t)
  PROVE  DInv'
<1>1. h # None /\ holder[t] # None
  BY DeviceAssumption
<1>2. UNCHANGED <<holder, minted, missed, leaked>>
  <2>1. TokenOf(h) \ {t} = {}
    BY <1>1 DEF DInv, OwnToken, TokenOf
  <2>2. Outlives(h, t) \subseteq leaked
    BY <1>1 DEF Outlives, DInv, OneSession
  <2> QED BY <2>1, <2>2 DEF fcmVars
<1>3. Fields'
  BY <1>2, HoldsFacts DEF DInv, Fields
<1>4. t \in minted
  BY <1>1 DEF DInv, MintedFirst
<1>5. MintedFirst'
  <2>1. \A p \in posts' : p.token \in minted'
    BY <1>2, <1>4, HoldsFacts DEF DInv, MintedFirst
  <2>2. \A g \in Phones : phone'[g].current # None => phone'[g].current \in minted'
    BY <1>2, <1>4, HoldsFacts DEF DInv, MintedFirst, Holds
  <2> QED BY <1>2, <2>1, <2>2, HoldsFacts DEF DInv, MintedFirst
<1>6. OwnToken'
  BY <1>2, HoldsFacts DEF DInv, OwnToken, Holds
<1>7. Pruned'
  BY <1>2, HoldsFacts DEF DInv, Pruned
<1>8. OneSession'
  BY <1>2, HoldsFacts DEF DInv, OneSession, Fields
<1>9. Registering'
  <2> SUFFICES ASSUME NEW k \in Tokens \ (leaked \cup missed), holder[k] # None
               PROVE  /\ \A p \in posts' : p.kind = "unregister" /\ p.token = k =>
                                             phone'[holder[k]].out \in {"called", "forget"}
                      /\ /\ phone'[holder[k]].user \in accounts
                         /\ phone'[holder[k]].out = "no" /\ ~ phone'[holder[k]].fetching
                         => \/ owner[k] = phone'[holder[k]].user
                            \/ \E p \in posts' : p.kind = "register" /\ p.token = k
    BY <1>2, HoldsFacts DEF Registering
  <2>1. holder[k] \in Phones
    BY DEF DInv, Fields
  <2>2. \A p \in posts' : p.kind = "unregister" => p \in posts
    BY HoldsFacts
  <2>3. CASE k = t
    BY <2>1, <2>2, <2>3, HoldsFacts DEF DInv, Registering
  <2>4. CASE k # t
    <3>1. holder[k] # h
      BY <1>1, <2>4 DEF DInv, OwnToken
    <3>2. phone'[holder[k]] = phone[holder[k]]
      BY <2>1, <3>1, HoldsFacts
    <3> QED BY <2>2, <3>2, HoldsFacts DEF DInv, Registering
  <2> QED BY <2>3, <2>4
<1> QED BY <1>3, <1>5, <1>6, <1>7, <1>8, <1>9 DEF DInv

LEMMA MintDInv ==
  ASSUME DInv, NEW h \in Phones, NEW t \in Tokens, NEW q \in App, Holds(h, t, q), Mint(h, t),
         leaked' = (leaked \ (TokenOf(h) \ {t})) \cup Outlives(h, t)
  PROVE  DInv'
<1>1. /\ t \notin minted /\ minted' = minted \cup {t} /\ holder[t] = None /\ owner[t] = None
      /\ holder' \in [Tokens -> Phones \cup {None}]
      /\ \A k \in Tokens : holder'[k] = IF k = t THEN h ELSE IF holder[k] = h THEN None ELSE holder[k]
      /\ h # None /\ missed' = missed \ TokenOf(h)
  BY DeviceAssumption DEF Mint, DInv, Fields, MintedFirst
<1>2. /\ \A p \in posts : p.token # t
      /\ \A n \in Sends : t \notin send[n].tokens
      /\ \A g \in Phones : phone[g].current # t
  BY <1>1, DeviceAssumption DEF DInv, MintedFirst
<1>3. Outlives(h, t) \subseteq {t}
  BY DEF Outlives
<1>4. \A k \in Tokens : k # t /\ holder'[k] # None =>
        /\ holder'[k] = holder[k] /\ holder[k] \in Phones /\ holder[k] # h
        /\ phone'[holder[k]] = phone[holder[k]]
        /\ k \in leaked' <=> k \in leaked
        /\ k \in missed' <=> k \in missed
  <2> SUFFICES ASSUME NEW k \in Tokens, k # t, holder'[k] # None
               PROVE  /\ holder'[k] = holder[k] /\ holder[k] \in Phones /\ holder[k] # h
                      /\ phone'[holder[k]] = phone[holder[k]]
                      /\ k \in leaked' <=> k \in leaked
                      /\ k \in missed' <=> k \in missed
    OBVIOUS
  <2>1. holder'[k] = holder[k] /\ holder[k] # h /\ holder[k] \in Phones
    BY <1>1 DEF DInv, Fields
  <2>2. k \notin TokenOf(h)
    BY <2>1 DEF TokenOf
  <2> QED BY <1>1, <1>3, <2>1, <2>2, HoldsFacts
<1>5. Fields'
  BY <1>1, <1>3, HoldsFacts DEF DInv, Fields
<1>6. MintedFirst'
  <2>1. \A p \in posts' : p.token \in minted'
    BY <1>1, HoldsFacts DEF DInv, MintedFirst
  <2>2. \A g \in Phones : phone'[g].current # None => phone'[g].current \in minted'
    BY <1>1, HoldsFacts DEF DInv, MintedFirst, Holds
  <2>3. \A k \in Tokens \ minted' : holder'[k] = None /\ owner'[k] = None
    BY <1>1, HoldsFacts, DeviceAssumption DEF DInv, MintedFirst
  <2> QED BY <1>1, <2>1, <2>2, <2>3, HoldsFacts DEF DInv, MintedFirst
<1>7. OwnToken'
  <2>1. ASSUME NEW g \in Phones, NEW k \in Tokens, phone'[g].current = k
        PROVE  holder'[k] \in {g, None}
    <3>1. CASE g = h
      BY <1>1, <2>1, <3>1, HoldsFacts DEF Holds
    <3>2. CASE g # h
      BY <1>1, <1>2, <2>1, <3>2, HoldsFacts DEF DInv, OwnToken
    <3> QED BY <3>1, <3>2
  <2>2. \A k, l \in Tokens : holder'[k] # None /\ holder'[k] = holder'[l] => k = l
    BY <1>1, <1>4 DEF DInv, OwnToken
  <2> QED BY <2>1, <2>2 DEF OwnToken
<1>8. Pruned'
  <2>1. ASSUME NEW n \in Sends, NEW k \in send[n].tokens
        PROVE  /\ send[n].pc = "invalid" => holder'[k] = None
               /\ send[n].pc = "refused" => holder'[k] = None \/ k \in missed'
    <3>1. k \in Tokens /\ k # t
      BY <1>2 DEF DInv, Fields, Send
    <3> QED BY <1>1, <1>4, <3>1 DEF DInv, Pruned
  <2> QED BY <2>1, HoldsFacts DEF Pruned
<1>9. OneSession'
  <2>1. ASSUME NEW k \in Tokens \ leaked', holder'[k] # None
        PROVE  /\ owner[k] \in {None, phone'[holder'[k]].user}
               /\ \A n \in Sends : send[n].pc = "listed" /\ k \in send[n].tokens =>
                                     send[n].user = phone'[holder'[k]].user
               /\ \A p \in posts' : p.kind = "register" /\ p.token = k =>
                                     p.user = phone'[holder'[k]].user
    <3>1. CASE k = t
      BY <1>1, <1>2, <3>1, HoldsFacts
    <3>2. CASE k # t
      BY <1>4, <2>1, <3>2, HoldsFacts DEF DInv, OneSession
    <3> QED BY <3>1, <3>2
  <2>2. ASSUME NEW k \in Tokens, holder'[k] # None, phone'[holder'[k]].out = "clear"
        PROVE  k \in leaked'
    <3>1. CASE k = t
      BY <1>1, <2>2, <3>1, HoldsFacts DEF Outlives
    <3>2. CASE k # t
      BY <1>4, <2>2, <3>2 DEF DInv, OneSession
    <3> QED BY <3>1, <3>2
  <2> QED BY <2>1, <2>2, HoldsFacts DEF DInv, OneSession
<1>10. Registering'
  <2> SUFFICES ASSUME NEW k \in Tokens \ (leaked' \cup missed'), holder'[k] # None
               PROVE  /\ \A p \in posts' : p.kind = "unregister" /\ p.token = k =>
                                             phone'[holder'[k]].out \in {"called", "forget"}
                      /\ /\ phone'[holder'[k]].user \in accounts
                         /\ phone'[holder'[k]].out = "no" /\ ~ phone'[holder'[k]].fetching
                         => \/ owner[k] = phone'[holder'[k]].user
                            \/ \E p \in posts' : p.kind = "register" /\ p.token = k
    BY HoldsFacts DEF Registering
  <2>1. \A p \in posts' : p.kind = "unregister" => p \in posts
    BY HoldsFacts
  <2>2. CASE k = t
    BY <1>1, <1>2, <2>1, <2>2, HoldsFacts
  <2>3. CASE k # t
    BY <1>4, <2>1, <2>3, HoldsFacts DEF DInv, Registering
  <2> QED BY <2>2, <2>3
<1> QED BY <1>5, <1>6, <1>7, <1>8, <1>9, <1>10 DEF DInv

LEMMA GetTokenDInv ==
  ASSUME DInv, NEW h \in Phones, NEW t \in Tokens, GetToken(h, t) \/ RefreshToken(h, t)
  PROVE  DInv'
<1>1. RegisterToken(h, t, FALSE) \/ RegisterToken(h, t, phone[h].fetching)
  BY Zenon DEF GetToken, RefreshToken
<1>2. /\ \E q \in App : Holds(h, t, q)
      /\ leaked' = (leaked \ (TokenOf(h) \ {t})) \cup Outlives(h, t)
  <2>1. CASE RegisterToken(h, t, FALSE)
    BY <2>1, RegisterTokenFacts, Zenon
  <2>2. CASE RegisterToken(h, t, phone[h].fetching)
    BY <2>2, RegisterTokenFacts, Zenon
  <2> QED BY <1>1, <2>1, <2>2
<1>3. Mint(h, t) \/ (holder[t] = h /\ UNCHANGED <<fcmVars, missed>>)
  BY DEF GetToken, RefreshToken
<1> QED BY <1>2, <1>3, MintDInv, SameTokenDInv

--------------------------------------------------------------------------
(* Calls that arrive or are lost, and accounts that go. *)

LEMMA RegisterDInv ==
  ASSUME DInv, NEW p \in posts, Register(p)
  PROVE  DInv'
<1>1. /\ p.kind = "register" /\ p.user \in Accounts /\ p.token \in Tokens /\ p.token \in minted
      /\ posts' = posts \ {p}
      /\ UNCHANGED <<accounts, wants, send, holder, minted, phone, leaked, missed>>
  BY DEF Register, DInv, Fields, Post, MintedFirst, fcmVars
<1>2. \A t \in Tokens : owner'[t] = IF t = p.token /\ p.user \in accounts THEN p.user ELSE owner[t]
  BY <1>1 DEF Register, DInv, Fields
<1>3. Fields'
  BY <1>1 DEF Register, DInv, Fields
<1>4. MintedFirst'
  BY <1>1, <1>2 DEF DInv, MintedFirst
<1>5. OwnToken' /\ Pruned'
  BY <1>1 DEF DInv, OwnToken, Pruned
<1>6. OneSession'
  BY <1>1, <1>2 DEF DInv, OneSession
<1>7. Registering'
  <2> SUFFICES ASSUME NEW t \in Tokens \ (leaked \cup missed), holder[t] # None,
                      phone[holder[t]].user \in accounts,
                      phone[holder[t]].out = "no", ~ phone[holder[t]].fetching
               PROVE  \/ owner'[t] = phone[holder[t]].user
                      \/ \E k \in posts' : k.kind = "register" /\ k.token = t
    BY <1>1 DEF DInv, Registering
  <2>1. CASE t = p.token
    BY <1>1, <1>2, <2>1 DEF DInv, OneSession
  <2>2. CASE t # p.token
    <3>1. owner[t] = phone[holder[t]].user \/ \E k \in posts : k.kind = "register" /\ k.token = t
      BY DEF DInv, Registering
    <3> QED BY <1>1, <1>2, <2>2, <3>1
  <2> QED BY <2>1, <2>2
<1> QED BY <1>3, <1>4, <1>5, <1>6, <1>7 DEF DInv

LEMMA UnregisterDInv ==
  ASSUME DInv, NEW p \in posts, Unregister(p)
  PROVE  DInv'
<1>1. /\ p.kind = "unregister" /\ p.token \in Tokens
      /\ posts' = posts \ {p}
      /\ UNCHANGED <<accounts, wants, send, holder, minted, phone, leaked, missed>>
  BY DEF Unregister, DInv, Fields, Post, fcmVars
<1>2. \A t \in Tokens :
        \/ owner'[t] = owner[t]
        \/ t = p.token /\ owner'[t] = None
  BY <1>1 DEF Unregister, DInv, Fields
<1>3. Fields'
  BY <1>1 DEF Unregister, DInv, Fields
<1>4. MintedFirst'
  BY <1>1, <1>2 DEF DInv, MintedFirst
<1>5. OwnToken' /\ Pruned'
  BY <1>1 DEF DInv, OwnToken, Pruned
<1>6. OneSession'
  BY <1>1, <1>2 DEF DInv, OneSession
<1>7. Registering'
  <2> SUFFICES ASSUME NEW t \in Tokens \ (leaked \cup missed), holder[t] # None,
                      phone[holder[t]].user \in accounts,
                      phone[holder[t]].out = "no", ~ phone[holder[t]].fetching
               PROVE  \/ owner'[t] = phone[holder[t]].user
                      \/ \E k \in posts' : k.kind = "register" /\ k.token = t
    BY <1>1 DEF DInv, Registering
  <2>1. t # p.token
    BY <1>1 DEF DInv, Registering
  <2>2. owner[t] = phone[holder[t]].user \/ \E k \in posts : k.kind = "register" /\ k.token = t
    BY DEF DInv, Registering
  <2> QED BY <1>1, <1>2, <2>1, <2>2
<1> QED BY <1>3, <1>4, <1>5, <1>6, <1>7 DEF DInv

LEMMA LosePostDInv ==
  ASSUME DInv, NEW p \in posts, LosePost(p)
  PROVE  DInv'
<1>1. /\ p.token \in Tokens /\ posts' = posts \ {p}
      /\ missed' = missed \cup (Live \cap {p.token})
      /\ UNCHANGED <<accounts, wants, owner, send, holder, minted, phone, leaked>>
  BY DEF LosePost, DInv, Fields, Post, serverVars, fcmVars
<1>2. Fields' /\ MintedFirst' /\ OwnToken' /\ Pruned' /\ OneSession'
  BY <1>1 DEF DInv, Fields, MintedFirst, OwnToken, Pruned, OneSession
<1>3. Registering'
  <2> SUFFICES ASSUME NEW t \in Tokens \ (leaked \cup missed), holder[t] # None, t # p.token
               PROVE  /\ \A k \in posts' : k.kind = "unregister" /\ k.token = t =>
                                             phone[holder[t]].out \in {"called", "forget"}
                      /\ /\ phone[holder[t]].user \in accounts
                         /\ phone[holder[t]].out = "no" /\ ~ phone[holder[t]].fetching
                         => \/ owner[t] = phone[holder[t]].user
                            \/ \E k \in posts' : k.kind = "register" /\ k.token = t
    BY <1>1 DEF Registering, Live
  <2> QED BY <1>1 DEF DInv, Registering
<1> QED BY <1>2, <1>3 DEF DInv

LEMMA DropAccountDInv ==
  ASSUME DInv, NEW u \in Accounts, DropAccount(u)
  PROVE  DInv'
<1>1. /\ accounts' = accounts \ {u} /\ wants' = wants \ {u}
      /\ owner' = [t \in Tokens |-> IF owner[t] = u THEN None ELSE owner[t]]
      /\ UNCHANGED <<send, holder, minted, posts, phone, leaked, missed>>
  BY DEF DropAccount, fcmVars
<1>2. Fields'
  BY <1>1 DEF DInv, Fields
<1>3. MintedFirst' /\ OwnToken' /\ Pruned'
  BY <1>1 DEF DInv, MintedFirst, OwnToken, Pruned
<1>4. OneSession'
  BY <1>1 DEF DInv, OneSession
<1>5. Registering'
  BY <1>1 DEF DInv, Registering
<1> QED BY <1>2, <1>3, <1>4, <1>5 DEF DInv

--------------------------------------------------------------------------
(* Sends. *)

\* The send n is now s.
SendTo(n, s) ==
  /\ s \in Send /\ send' = [send EXCEPT ![n] = s]
  /\ s.tokens \subseteq minted
  /\ \A t \in s.tokens :
       /\ s.pc = "invalid" => holder[t] = None
       /\ s.pc = "refused" => holder[t] = None \/ t \in missed'
       /\ s.pc = "listed" => owner[t] = s.user
  /\ s.pc = "listed" => s.user \in Accounts
  /\ missed \subseteq missed' /\ missed' \subseteq Tokens

LEMMA SendToDInv ==
  ASSUME DInv, NEW n \in Sends, NEW s, SendTo(n, s),
         UNCHANGED <<accounts, wants, fcmVars, posts, phone, leaked>>,
         owner' \in [Tokens -> accounts \cup {None}],
         \A t \in Tokens : \/ owner'[t] = owner[t]
                           \/ owner'[t] = None /\ (holder[t] = None \/ t \in missed)
  PROVE  DInv'
<1>1. /\ UNCHANGED <<accounts, wants, holder, minted, posts, phone, leaked>>
      /\ \A m \in Sends : send'[m] = IF m = n THEN s ELSE send[m]
      /\ send' \in [Sends -> Send] /\ missed \subseteq missed' /\ missed' \subseteq Tokens
      /\ s \in Send /\ s.tokens \subseteq Tokens
  BY DEF SendTo, fcmVars, DInv, Fields, Send
<1>2. Fields'
  BY <1>1 DEF DInv, Fields
<1>3. MintedFirst'
  BY <1>1 DEF DInv, MintedFirst, SendTo
<1>4. OwnToken'
  BY <1>1 DEF DInv, OwnToken
<1>5. Pruned'
  BY <1>1 DEF DInv, Pruned, SendTo
<1>6. OneSession'
  <2>1. ASSUME NEW t \in Tokens \ leaked, holder[t] # None
        PROVE  /\ owner'[t] \in {None, phone[holder[t]].user}
               /\ \A m \in Sends : send'[m].pc = "listed" /\ t \in send'[m].tokens =>
                                     send'[m].user = phone[holder[t]].user
               /\ \A p \in posts : p.kind = "register" /\ p.token = t =>
                                     p.user = phone[holder[t]].user
    <3>1. s.pc = "listed" /\ t \in s.tokens => s.user = phone[holder[t]].user
      BY <2>1, DeviceAssumption DEF SendTo, DInv, OneSession
    <3> QED BY <1>1, <2>1, <3>1 DEF DInv, OneSession
  <2>2. \A m \in Sends : send'[m].pc = "listed" => send'[m].user \in Accounts
    BY <1>1 DEF SendTo, DInv, OneSession
  <2> QED BY <1>1, <2>1, <2>2 DEF DInv, OneSession
<1>7. Registering'
  BY <1>1 DEF DInv, Registering
<1> QED BY <1>2, <1>3, <1>4, <1>5, <1>6, <1>7 DEF DInv

LEMMA SendType ==
  ASSUME DInv, NEW n \in Sends
  PROVE  /\ send[n] \in Send /\ send \in [Sends -> Send] /\ send[n].tokens \subseteq minted
         /\ minted \subseteq Tokens /\ missed \subseteq Tokens
         /\ owner \in [Tokens -> accounts \cup {None}]
         /\ NoSend \in Send /\ NoSend.pc = "idle" /\ NoSend.tokens = {}
BY DEF DInv, Fields, MintedFirst, NoSend, Send

LEMMA NoSendDInv ==
  ASSUME DInv, NEW n \in Sends, send' = [send EXCEPT ![n] = NoSend],
         UNCHANGED <<accounts, wants, owner, fcmVars, posts, phone, leaked, missed>>
  PROVE  DInv'
<1>1. SendTo(n, NoSend)
  BY SendType DEF SendTo
<1> QED BY <1>1, SendType, SendToDInv

LEMMA ListTokensDInv ==
  ASSUME DInv, NEW n \in Sends, NEW u \in Accounts, ListTokens(n, u)
  PROVE  DInv'
<1> DEFINE tokens == {t \in Tokens : owner[t] = u}
           s == [pc |-> "listed", user |-> u, tokens |-> tokens]
<1>1. /\ s \in Send /\ s.pc = "listed" /\ s.user = u /\ s.tokens = tokens
      /\ tokens \subseteq minted
  BY DeviceAssumption DEF Send, DInv, MintedFirst
<1>2. /\ send' = [send EXCEPT ![n] = s]
      /\ UNCHANGED <<accounts, wants, owner, fcmVars, posts, phone, leaked, missed>>
  BY DEF ListTokens
<1> HIDE DEF s
<1>3. SendTo(n, s)
  BY <1>1, <1>2, SendType DEF SendTo
<1> QED BY <1>2, <1>3, SendType, SendToDInv

LEMMA DeliverDInv ==
  ASSUME DInv, NEW n \in Sends, NEW gone \in SUBSET Tokens, Deliver(n, gone)
  PROVE  DInv'
<1> DEFINE s == [pc |-> "invalid", user |-> None, tokens |-> gone]
<1>1. s \in Send /\ s.pc = "invalid" /\ s.tokens = gone
  BY DEF Send
<1>2. /\ send' = [send EXCEPT ![n] = NoSend] \/ send' = [send EXCEPT ![n] = s]
      /\ gone \subseteq {t \in send[n].tokens : holder[t] = None}
      /\ UNCHANGED <<accounts, wants, owner, fcmVars, posts, phone, leaked, missed>>
  BY DEF Deliver
<1> HIDE DEF s
<1>3. CASE send' = [send EXCEPT ![n] = s]
  <2>1. SendTo(n, s)
    BY <1>1, <1>2, <1>3, SendType DEF SendTo
  <2> QED BY <1>2, <2>1, SendType, SendToDInv
<1> QED BY <1>2, <1>3, NoSendDInv

LEMMA RefuseMessageDInv ==
  ASSUME DInv, NEW n \in Sends, RefuseMessage(n)
  PROVE  DInv'
<1> DEFINE s == [send[n] EXCEPT !.pc = "refused", !.user = None]
<1>0. send[n] \in Send /\ send \in [Sends -> Send]
  BY SendType
<1>1. s \in Send /\ s.pc = "refused" /\ s.tokens = send[n].tokens
  BY <1>0 DEF Send
<1>2. /\ send' = [send EXCEPT ![n] = s]
      /\ missed' = missed \cup (Live \cap send[n].tokens)
      /\ UNCHANGED <<accounts, wants, owner, fcmVars, posts, phone, leaked>>
  BY <1>0 DEF RefuseMessage
<1> HIDE DEF s
<1>3. SendTo(n, s)
  BY <1>1, <1>2, SendType DEF SendTo, Live
<1> QED BY <1>2, <1>3, SendType, SendToDInv

LEMMA PruneDInv ==
  ASSUME DInv, NEW n \in Sends, NEW t \in Tokens, Prune(n, t)
  PROVE  DInv'
<1> DEFINE rest == [send[n] EXCEPT !.tokens = @ \ {t}]
           s == IF send[n].tokens = {t} THEN NoSend ELSE rest
<1>0. send[n] \in Send /\ send \in [Sends -> Send] /\ owner \in [Tokens -> accounts \cup {None}]
  BY SendType
<1>1. /\ rest \in Send /\ rest.pc = send[n].pc /\ rest.user = send[n].user
      /\ rest.tokens = send[n].tokens \ {t}
  BY <1>0 DEF Send
<1>2. /\ s \in Send /\ s.tokens \subseteq send[n].tokens
      /\ \/ s.pc = "idle" /\ s.tokens = {}
         \/ s.pc = send[n].pc
  BY <1>0, <1>1, SendType DEF Prune
<1>3. /\ send' = [send EXCEPT ![n] = s] /\ owner' = [owner EXCEPT ![t] = None]
      /\ send[n].pc \in {"invalid", "refused"} /\ t \in send[n].tokens
      /\ UNCHANGED <<accounts, wants, fcmVars, posts, phone, leaked, missed>>
  BY <1>0 DEF Prune
<1> HIDE DEF s, rest
<1>4. holder[t] = None \/ t \in missed
  BY <1>3 DEF DInv, Pruned
<1>5. SendTo(n, s)
  BY <1>2, <1>3, SendType DEF SendTo, DInv, Pruned
<1>6. owner' \in [Tokens -> accounts \cup {None}]
  BY <1>0, <1>3
<1>7. \A k \in Tokens : \/ owner'[k] = owner[k]
                        \/ owner'[k] = None /\ (holder[k] = None \/ k \in missed)
  BY <1>0, <1>3, <1>4
<1> QED BY <1>3, <1>5, <1>6, <1>7, SendToDInv
--------------------------------------------------------------------------
(* The invariant holds. *)

LEMMA PhoneStepDInv ==
  ASSUME DInv, NEW h \in Phones, PhoneStep(h)
  PROVE  DInv'
<1>1. CASE \E u \in Accounts : EstablishSession(h, u)
  BY <1>1, EstablishSessionDInv
<1>2. CASE Bootstrap(h) \/ BootstrapFails(h)
  BY <1>2, BootstrapDInv, BootstrapFailsDInv
<1>3. CASE \E t \in Tokens : GetToken(h, t) \/ RefreshToken(h, t)
  BY <1>3, GetTokenDInv
<1>4. CASE GetTokenFails(h)
  BY <1>4, GetTokenFailsDInv
<1>5. CASE SignOut(h)
  BY <1>5, BeginUnregisterDInv, PhoneType DEF SignOut, serverVars
<1>6. CASE Unregistered(h)
  BY <1>6, UnregisteredDInv
<1>7. CASE ForgetToken(h) \/ ForgetFails(h)
  BY <1>7, ForgetTokenDInv, ForgetFailsDInv
<1>8. CASE ClearSession(h)
  BY <1>8, ClearSessionDInv
<1>9. CASE OptOut(h)
  BY <1>9, BeginUnregisterDInv, PhoneType DEF OptOut
<1>10. CASE OptIn(h)
  BY <1>10, OptInDInv
<1> QED BY <1>1, <1>2, <1>3, <1>4, <1>5, <1>6, <1>7, <1>8, <1>9, <1>10 DEF PhoneStep

LEMMA SendStepDInv ==
  ASSUME DInv, NEW n \in Sends, SendStep(n)
  PROVE  DInv'
<1>1. CASE \E u \in Accounts : ListTokens(n, u)
  BY <1>1, ListTokensDInv
<1>2. CASE \E gone \in SUBSET Tokens : Deliver(n, gone)
  BY <1>2, DeliverDInv
<1>3. CASE RefuseMessage(n)
  BY <1>3, RefuseMessageDInv
<1>4. CASE StopSend(n)
  BY <1>4, NoSendDInv DEF StopSend
<1>5. CASE \E t \in Tokens : Prune(n, t)
  BY <1>5, PruneDInv
<1> QED BY <1>1, <1>2, <1>3, <1>4, <1>5 DEF SendStep

LEMMA NextDInv == DInv /\ [DeviceNext]_deviceVars => DInv'
<1> SUFFICES ASSUME DInv, [DeviceNext]_deviceVars PROVE DInv'
  OBVIOUS
<1>1. CASE \E h \in Phones : PhoneStep(h)
  BY <1>1, PhoneStepDInv
<1>2. CASE \E p \in posts : Register(p) \/ Unregister(p) \/ LosePost(p)
  BY <1>2, RegisterDInv, UnregisterDInv, LosePostDInv
<1>3. CASE \E t \in Tokens : ExpireToken(t)
  BY <1>3, ExpireTokenDInv
<1>4. CASE \E u \in Accounts : DropAccount(u)
  BY <1>4, DropAccountDInv
<1>5. CASE \E n \in Sends : SendStep(n)
  BY <1>5, SendStepDInv
<1>6. CASE UNCHANGED deviceVars
  <2>1. Fields' /\ MintedFirst' /\ OwnToken'
    BY <1>6 DEF DInv, Fields, MintedFirst, OwnToken, deviceVars, serverVars, fcmVars
  <2>2. Pruned' /\ OneSession' /\ Registering'
    BY <1>6 DEF DInv, Pruned, OneSession, Registering, deviceVars, serverVars, fcmVars
  <2> QED BY <2>1, <2>2 DEF DInv
<1> QED BY <1>1, <1>2, <1>3, <1>4, <1>5, <1>6 DEF DeviceNext

LEMMA DInvHolds == DeviceSpec => []DInv
BY InitDInv, NextDInv, PTL DEF DeviceSpec

--------------------------------------------------------------------------
(* Theorems. *)

\* Every reachable state is well typed: rows are of accounts that exist and of tokens
\* that FCM gave out, and a phone has one token (store/devices.go).
THEOREM DeviceTyped == DeviceSpec => []DeviceTypeOK
BY DInvHolds, DInvTypeOK, PTL

LEMMA SilentStep == DInv => SignedOutSilent
<1> SUFFICES ASSUME DInv, NEW t \in Tokens, NEW u \in Accounts,
                    holder[t] # None, t \notin leaked,
                    \/ owner[t] = u
                    \/ \E n \in Sends : send[n].pc = "listed" /\ send[n].user = u
                                        /\ t \in send[n].tokens
             PROVE  phone[holder[t]].user = u
  BY DEF SignedOutSilent
<1>1. u # None
  BY DeviceAssumption
<1>2. CASE owner[t] = u
  BY <1>1, <1>2 DEF DInv, OneSession
<1>3. CASE \E n \in Sends : send[n].pc = "listed" /\ send[n].user = u /\ t \in send[n].tokens
  BY <1>3 DEF DInv, OneSession
<1> QED BY <1>2, <1>3

\* A phone whose session is over gets nothing more for its account, whatever calls of
\* the sign-out were lost or overtaken, unless the token outlived it (unregister of
\* push_notification_service.dart, signOut of app_state.dart, api/notify.go).
THEOREM SignedOutSilentHolds == DeviceSpec => []SignedOutSilent
BY DInvHolds, SilentStep, PTL

LEMMA AtRestStep == DInv => RegisteredAtRest
BY DEF DInv, Registering, RegisteredAtRest

\* A phone that is signed in, and at rest, has its token registered for its account,
\* unless a call failed (registerForSignedInUser, onTokenRefresh, api/devices.go).
THEOREM RegisteredAtRestHolds == DeviceSpec => []RegisteredAtRest
BY DInvHolds, AtRestStep, PTL

\* The steps that empty a row, and when they may.
Kept ==
  \A t \in Tokens :
    owner[t] # None /\ owner'[t] = None /\ holder[t] # None =>
      \/ owner[t] \notin accounts'
      \/ [kind |-> "unregister", user |-> owner[t], token |-> t] \in posts
      \/ \E n \in Sends : send[n].pc = "refused" /\ t \in send[n].tokens

LEMMA OwnerMoves ==
  ASSUME DInv, [DeviceNext]_deviceVars
  PROVE  \/ owner' = owner
         \/ \E p \in posts : Register(p) \/ Unregister(p)
         \/ \E u \in Accounts : DropAccount(u)
         \/ \E n \in Sends, t \in Tokens : Prune(n, t)
<1>1. CASE \E h \in Phones : PhoneStep(h)
  <2> SUFFICES ASSUME NEW h \in Phones, PhoneStep(h)
               PROVE  owner' = owner
    BY <1>1
  <2>1. CASE \E u \in Accounts : EstablishSession(h, u)
    BY <2>1 DEF EstablishSession, serverVars
  <2>2. CASE Bootstrap(h) \/ BootstrapFails(h)
    BY <2>2 DEF Bootstrap, BootstrapFails, serverVars
  <2>3. CASE \E t \in Tokens : GetToken(h, t) \/ RefreshToken(h, t)
    BY <2>3, Zenon DEF GetToken, RefreshToken, RegisterToken, serverVars
  <2>4. CASE GetTokenFails(h) \/ SignOut(h) \/ Unregistered(h) \/ ClearSession(h)
    BY <2>4 DEF GetTokenFails, SignOut, Unregistered, ClearSession, serverVars
  <2>5. CASE ForgetToken(h) \/ ForgetFails(h)
    BY <2>5 DEF ForgetToken, ForgetFails, AfterForget, serverVars
  <2>6. CASE OptOut(h) \/ OptIn(h)
    BY <2>6 DEF OptOut, OptIn
  <2> QED BY <2>1, <2>2, <2>3, <2>4, <2>5, <2>6 DEF PhoneStep
<1>2. CASE \E p \in posts : Register(p) \/ Unregister(p) \/ LosePost(p)
  BY <1>2 DEF LosePost, serverVars
<1>3. CASE \E t \in Tokens : ExpireToken(t)
  BY <1>3 DEF ExpireToken, serverVars
<1>4. CASE \E n \in Sends : SendStep(n)
  <2> SUFFICES ASSUME NEW n \in Sends, SendStep(n)
               PROVE  owner' = owner \/ \E t \in Tokens : Prune(n, t)
    BY <1>4
  <2> QED BY DEF SendStep, ListTokens, Deliver, RefuseMessage, StopSend
<1>5. CASE UNCHANGED deviceVars
  BY <1>5 DEF deviceVars, serverVars
<1> QED BY <1>1, <1>2, <1>3, <1>4, <1>5 DEF DeviceNext

LEMMA KeptStep == DInv /\ [DeviceNext]_deviceVars => Kept
<1> SUFFICES ASSUME DInv, [DeviceNext]_deviceVars, NEW t \in Tokens,
                    owner[t] # None, owner'[t] = None, holder[t] # None
             PROVE  \/ owner[t] \notin accounts'
                    \/ [kind |-> "unregister", user |-> owner[t], token |-> t] \in posts
                    \/ \E n \in Sends : send[n].pc = "refused" /\ t \in send[n].tokens
  BY DEF Kept
<1>1. owner \in [Tokens -> accounts \cup {None}] /\ posts \subseteq Post
  BY DEF DInv, Fields
<1>2. CASE \E p \in posts : Register(p)
  BY <1>1, <1>2, DeviceAssumption DEF Register, Post
<1>3. CASE \E p \in posts : Unregister(p)
  <2>1. PICK p \in posts : Unregister(p)
    BY <1>3
  <2>2. p \in Post /\ p.kind = "unregister" /\ p.token = t /\ p.user = owner[t]
    BY <1>1, <2>1 DEF Unregister, Post
  <2>3. p = [kind |-> "unregister", user |-> owner[t], token |-> t]
    BY <2>2 DEF Post
  <2> QED BY <2>1, <2>3
<1>4. CASE \E u \in Accounts : DropAccount(u)
  BY <1>1, <1>4 DEF DropAccount
<1>5. CASE \E n \in Sends, k \in Tokens : Prune(n, k)
  <2>1. PICK n \in Sends, k \in Tokens : Prune(n, k)
    BY <1>5
  <2>2. k = t /\ send[n].pc \in {"invalid", "refused"} /\ t \in send[n].tokens
    BY <1>1, <2>1 DEF Prune
  <2>3. send[n].pc # "invalid"
    BY <2>2 DEF DInv, Pruned
  <2> QED BY <2>2, <2>3
<1> QED BY <1>2, <1>3, <1>4, <1>5, OwnerMoves

\* Nobody loses a row whose token still works but by deletion of the account, by the
\* owner's unregistration, or because FCM refused a message to it: a send prunes no
\* token that was registered, or changed hands, while it ran (DeleteDeviceTokenByValue
\* of store/devices.go, pushToUsers of api/notify.go).
THEOREM TokenKeptHolds == DeviceSpec => TokenKept
<1>1. DInv /\ [DeviceNext]_deviceVars => [Kept]_deviceVars
  BY KeptStep
<1> QED BY <1>1, DInvHolds, PTL DEF DeviceSpec, TokenKept, Kept
==============================================================================
