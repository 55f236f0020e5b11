------------------------------- MODULE Devices -------------------------------
(***************************************************************************)
(* Push notifications: the rows of device_tokens (store/devices.go,        *)
(* api/devices.go), the sends that read and prune them (api/notify.go,     *)
(* push/push.go), and the phones that register, sign in and sign out,      *)
(* modelled from push_notification_service.dart and app_state.dart.        *)
(*                                                                         *)
(* A phone's calls may fail, and overtake one another; the app goes on     *)
(* whether or not they succeed.  FCM gives a phone a token, may replace    *)
(* it, and drops it when the app says so; a token that is gone never       *)
(* comes back.                                                             *)
(***************************************************************************)
EXTENDS Naturals, FiniteSets

CONSTANTS
  Accounts,  \* ids of accounts
  Phones,    \* installations of the app
  Tokens,    \* FCM tokens, each minted once
  Sends,     \* notifications that may be under way together
  MaxPosts,  \* bound: calls of phones under way together
  None

ASSUME DeviceAssumption == None \notin Accounts \cup Phones \cup Tokens /\ MaxPosts \in Nat

VARIABLES
  accounts,  \* accounts that exist
  wants,     \* {u : users.push_notifications of u}
  owner,     \* owner[t]: the account of t's row in device_tokens
  send,      \* send[n]: the notification in slot n
  posts,     \* calls on their way to the server
  holder,    \* holder[t]: the phone FCM delivers t to
  minted,    \* tokens FCM has given out
  phone,     \* phone[h]: the app on h
  leaked,    \* history: live tokens that outlived an unregister or a session of their phone
  missed     \* history: live tokens that a call or getToken failed for, or FCM refused a
             \* message to, or whose app was killed during a sign-out

serverVars == <<accounts, wants, owner, send>>
fcmVars == <<holder, minted>>
deviceVars == <<serverVars, fcmVars, posts, phone, leaked, missed>>

--------------------------------------------------------------------------
(* Data *)

\* user: whose session it is; current: _currentToken; fetching: a registration waits
\* for getToken; out: how far unregister is; quits: it is part of a sign-out.
App == [user     : Accounts \cup {None},
        current  : Tokens \cup {None},
        fetching : BOOLEAN,
        out      : {"no", "called", "forget", "clear"},
        quits    : BOOLEAN]

Started(u) == [user |-> u, current |-> None, fetching |-> u # None, out |-> "no", quits |-> FALSE]

Post == [kind : {"register", "unregister"}, user : Accounts, token : Tokens]

\* A send goes by the tokens it read for its recipient, user.
Send == [pc : {"idle", "listed", "invalid", "refused"}, user : Accounts \cup {None}, tokens : SUBSET Tokens]

NoSend == [pc |-> "idle", user |-> None, tokens |-> {}]

TokenOf(h) == {t \in Tokens : holder[t] = h}

Live == {t \in Tokens : holder[t] # None}

DeviceInit ==
  /\ accounts = Accounts
  /\ wants = Accounts
  /\ owner = [t \in Tokens |-> None]
  /\ send = [n \in Sends |-> NoSend]
  /\ posts = {}
  /\ holder = [t \in Tokens |-> None]
  /\ minted = {}
  /\ phone = [h \in Phones |-> Started(None)]
  /\ leaked = {}
  /\ missed = {}

--------------------------------------------------------------------------
(* Calls *)

\* The app makes a call, with the session it has; without one it is refused.
Call(h, kind, t) ==
  IF phone[h].user = None THEN posts' = posts
    ELSE /\ Cardinality(posts) < MaxPosts
         /\ posts' = posts \cup {[kind |-> kind, user |-> phone[h].user, token |-> t]}

\* Mutant of Register: no foreign key.
RegisterAnybody(p) ==
  /\ p \in posts /\ p.kind = "register"
  /\ owner' = [owner EXCEPT ![p.token] = p.user]
  /\ posts' = posts \ {p}
  /\ UNCHANGED <<accounts, wants, send, fcmVars, phone, leaked, missed>>

\* registerDevice and UpsertDeviceToken: the row moves to the caller.  The foreign
\* key refuses an account that is gone.
Register(p) ==
  /\ p \in posts /\ p.kind = "register"
  /\ owner' = IF p.user \in accounts THEN [owner EXCEPT ![p.token] = p.user] ELSE owner
  /\ posts' = posts \ {p}
  /\ UNCHANGED <<accounts, wants, send, fcmVars, phone, leaked, missed>>

\* unregisterDevice and DeleteDeviceToken: only the caller's own row.
Unregister(p) ==
  /\ p \in posts /\ p.kind = "unregister"
  /\ owner' = IF owner[p.token] = p.user THEN [owner EXCEPT ![p.token] = None] ELSE owner
  /\ posts' = posts \ {p}
  /\ UNCHANGED <<accounts, wants, send, fcmVars, phone, leaked, missed>>

\* A call is lost, or its statement fails: nobody tries again.
LosePost(p) ==
  /\ p \in posts
  /\ posts' = posts \ {p}
  /\ missed' = missed \cup (Live \cap {p.token})
  /\ UNCHANGED <<serverVars, fcmVars, phone, leaked>>

--------------------------------------------------------------------------
(* Phones *)

\* _establishSession, as far as the session goes; registration follows.
EstablishSession(h, u) ==
  /\ phone[h].user = None /\ phone[h].out = "no" /\ u \in accounts
  /\ phone' = [phone EXCEPT ![h].user = u, ![h].fetching = TRUE]
  /\ UNCHANGED <<serverVars, fcmVars, posts, leaked, missed>>

\* The app is killed and started again, and bootstrap finds the session ...
Bootstrap(h) ==
  /\ phone[h] # Started(phone[h].user)
  /\ phone' = [phone EXCEPT ![h] = Started(phone[h].user)]
  /\ missed' = IF phone[h].out = "no" THEN missed ELSE missed \cup TokenOf(h)
  /\ UNCHANGED <<serverVars, fcmVars, posts, leaked>>

\* ... or the server does not answer or refuses it, and it is given up: nothing is
\* unregistered.
BootstrapFails(h) ==
  /\ phone[h].user # None
  /\ phone' = [phone EXCEPT ![h] = Started(None)]
  /\ leaked' = leaked \cup TokenOf(h)
  /\ UNCHANGED <<serverVars, fcmVars, posts, missed>>

\* FCM gives the phone a token in place of the one it has.
Mint(h, t) ==
  /\ t \notin minted
  /\ minted' = minted \cup {t}
  /\ holder' = [u \in Tokens |-> IF u = t THEN h ELSE IF holder[u] = h THEN None ELSE holder[u]]
  /\ missed' = missed \ TokenOf(h)

\* A token that a phone has after it told FCM to drop it, and before the session is
\* cleared, outlives the sign-out.
Outlives(h, t) == IF phone[h].out = "clear" THEN {t} ELSE {}

\* _registerToken
RegisterToken(h, t, fetching) ==
  /\ phone' = [phone EXCEPT ![h].current = t, ![h].fetching = fetching]
  /\ Call(h, "register", t)
  /\ leaked' = (leaked \ (TokenOf(h) \ {t})) \cup Outlives(h, t)
  /\ UNCHANGED serverVars

\* Mutant of GetToken: a token the app knows already is not registered again.
GetTokenOnce(h, t) ==
  /\ phone[h].fetching
  /\ \/ holder[t] = h /\ UNCHANGED <<fcmVars, missed>>
     \/ TokenOf(h) = {} /\ Mint(h, t)
  /\ phone' = [phone EXCEPT ![h].current = t, ![h].fetching = FALSE]
  /\ IF phone[h].current = t THEN UNCHANGED posts ELSE Call(h, "register", t)
  /\ leaked' = (leaked \ (TokenOf(h) \ {t})) \cup Outlives(h, t)
  /\ UNCHANGED serverVars

\* registerForSignedInUser, when getToken returns: the token there is, or a new one.
GetToken(h, t) ==
  /\ phone[h].fetching
  /\ \/ holder[t] = h /\ UNCHANGED <<fcmVars, missed>>
     \/ TokenOf(h) = {} /\ Mint(h, t)
  /\ RegisterToken(h, t, FALSE)

\* getToken fails, or the APNs token does not come in time.
GetTokenFails(h) ==
  /\ phone[h].fetching
  /\ phone' = [phone EXCEPT ![h].fetching = FALSE]
  /\ missed' = missed \cup TokenOf(h)
  /\ UNCHANGED <<serverVars, fcmVars, posts, leaked>>

\* onTokenRefresh, whether or not somebody is signed in.
RefreshToken(h, t) ==
  /\ Mint(h, t)
  /\ RegisterToken(h, t, phone[h].fetching)

\* FCM drops a token that was not used for long, or whose app was removed.
ExpireToken(t) ==
  /\ holder[t] # None
  /\ holder' = [holder EXCEPT ![t] = None]
  /\ leaked' = leaked \ {t}
  /\ missed' = missed \ {t}
  /\ UNCHANGED <<serverVars, minted, posts, phone>>

\* unregister begins, for a sign-out or because push is turned off: DELETE /v1/devices
\* for the token the app knows.
BeginUnregister(h, quits) ==
  LET known == phone[h].current # None IN
  /\ phone[h].user # None /\ phone[h].out = "no"
  /\ IF known THEN Call(h, "unregister", phone[h].current) ELSE UNCHANGED posts
  /\ phone' = [phone EXCEPT ![h].out = IF known THEN "called" ELSE "forget", ![h].quits = quits]

SignOut(h) ==
  /\ BeginUnregister(h, TRUE)
  /\ UNCHANGED <<serverVars, fcmVars, leaked, missed>>

\* The call has returned or failed; if the connection broke it may still arrive.
Unregistered(h) ==
  /\ phone[h].out = "called"
  /\ phone' = [phone EXCEPT ![h].out = "forget", ![h].current = None]
  /\ UNCHANGED <<serverVars, fcmVars, posts, leaked, missed>>

AfterForget(h) ==
  /\ phone' = [phone EXCEPT ![h].out = IF phone[h].quits THEN "clear" ELSE "no",
                            ![h].quits = FALSE]
  /\ UNCHANGED <<serverVars, posts>>

\* Mutant of ForgetToken: unregister is over once the server has answered.
ForgetNothing(h) ==
  /\ phone[h].out = "forget"
  /\ AfterForget(h)
  /\ UNCHANGED <<fcmVars, leaked, missed>>

\* FCM drops the token ...
ForgetToken(h) ==
  /\ phone[h].out = "forget"
  /\ holder' = [t \in Tokens |-> IF holder[t] = h THEN None ELSE holder[t]]
  /\ leaked' = leaked \ TokenOf(h)
  /\ missed' = missed \ TokenOf(h)
  /\ AfterForget(h)
  /\ UNCHANGED minted

\* ... or deleteToken fails, and the app goes on.
ForgetFails(h) ==
  /\ phone[h].out = "forget"
  /\ leaked' = leaked \cup TokenOf(h)
  /\ AfterForget(h)
  /\ UNCHANGED <<fcmVars, missed>>

\* _clearSession, at the end of signOut.
ClearSession(h) ==
  /\ phone[h].out = "clear"
  /\ phone' = [phone EXCEPT ![h].user = None, ![h].out = "no"]
  /\ UNCHANGED <<serverVars, fcmVars, posts, leaked, missed>>

--------------------------------------------------------------------------
(* Accounts *)

\* setPushNotifications on this phone: the preference, and then the token.
OptOut(h) ==
  /\ phone[h].user \in wants
  /\ wants' = wants \ {phone[h].user}
  /\ BeginUnregister(h, FALSE)
  /\ UNCHANGED <<accounts, owner, send, fcmVars, leaked, missed>>

OptIn(h) ==
  /\ phone[h].user \in accounts \ wants
  /\ wants' = wants \cup {phone[h].user}
  /\ phone' = [phone EXCEPT ![h].fetching = TRUE]
  /\ UNCHANGED <<accounts, owner, send, fcmVars, posts, leaked, missed>>

\* DeleteUser, from any phone: the rows of its tokens go with it.
DropAccount(u) ==
  /\ u \in accounts
  /\ accounts' = accounts \ {u}
  /\ wants' = wants \ {u}
  /\ owner' = [t \in Tokens |-> IF owner[t] = u THEN None ELSE owner[t]]
  /\ UNCHANGED <<send, fcmVars, posts, phone, leaked, missed>>

--------------------------------------------------------------------------
(* Sends *)

\* pushToUsers and ListDeviceTokensForUsers for one recipient.
ListTokens(n, u) ==
  LET tokens == {t \in Tokens : owner[t] = u} IN
  /\ send[n].pc = "idle" /\ u \in wants /\ tokens # {}
  /\ send' = [send EXCEPT ![n] = [pc |-> "listed", user |-> u, tokens |-> tokens]]
  /\ UNCHANGED <<accounts, wants, owner, fcmVars, posts, phone, leaked, missed>>

\* Send: FCM delivers to the phones that hold the tokens, and says of tokens that are
\* gone that they are; of any it may say that it could not deliver.
Deliver(n, gone) ==
  /\ send[n].pc = "listed"
  /\ gone \subseteq {t \in send[n].tokens : holder[t] = None}
  /\ send' = [send EXCEPT ![n] = IF gone = {} THEN NoSend
                                 ELSE [pc |-> "invalid", user |-> None, tokens |-> gone]]
  /\ UNCHANGED <<accounts, wants, owner, fcmVars, posts, phone, leaked, missed>>

\* FCM refuses the message (it is too long, say): IsInvalidArgument of every token,
\* and all are taken for invalid.
RefuseMessage(n) ==
  /\ send[n].pc = "listed"
  /\ send' = [send EXCEPT ![n].pc = "refused", ![n].user = None]
  /\ missed' = missed \cup (Live \cap send[n].tokens)
  /\ UNCHANGED <<accounts, wants, owner, fcmVars, posts, phone, leaked>>

\* Mutant of Prune: all tokens of the account are deleted.
PruneRecipient(n, t) ==
  /\ send[n].pc \in {"invalid", "refused"} /\ t \in send[n].tokens
  /\ owner' = [k \in Tokens |-> IF owner[k] = owner[t] THEN None ELSE owner[k]]
  /\ send' = [send EXCEPT ![n] = IF send[n].tokens = {t} THEN NoSend
                                 ELSE [send[n] EXCEPT !.tokens = @ \ {t}]]
  /\ UNCHANGED <<accounts, wants, fcmVars, posts, phone, leaked, missed>>

\* DeleteDeviceTokenByValue, whosever the row is by now.
Prune(n, t) ==
  /\ send[n].pc \in {"invalid", "refused"} /\ t \in send[n].tokens
  /\ owner' = [owner EXCEPT ![t] = None]
  /\ send' = [send EXCEPT ![n] = IF send[n].tokens = {t} THEN NoSend
                                 ELSE [send[n] EXCEPT !.tokens = @ \ {t}]]
  /\ UNCHANGED <<accounts, wants, fcmVars, posts, phone, leaked, missed>>

\* FCM does not answer, a DELETE fails, or the server stops.
StopSend(n) ==
  /\ send[n].pc # "idle"
  /\ send' = [send EXCEPT ![n] = NoSend]
  /\ UNCHANGED <<accounts, wants, owner, fcmVars, posts, phone, leaked, missed>>

PhoneStep(h) ==
  \/ \E u \in Accounts : EstablishSession(h, u)
  \/ Bootstrap(h) \/ BootstrapFails(h)
  \/ \E t \in Tokens : GetToken(h, t) \/ RefreshToken(h, t)
  \/ GetTokenFails(h)
  \/ SignOut(h) \/ Unregistered(h) \/ ForgetToken(h) \/ ForgetFails(h) \/ ClearSession(h)
  \/ OptOut(h) \/ OptIn(h)

SendStep(n) ==
  \/ \E u \in Accounts : ListTokens(n, u)
  \/ \E gone \in SUBSET Tokens : Deliver(n, gone)
  \/ RefuseMessage(n) \/ StopSend(n)
  \/ \E t \in Tokens : Prune(n, t)

DeviceNext ==
  \/ \E h \in Phones : PhoneStep(h)
  \/ \E p \in posts : Register(p) \/ Unregister(p) \/ LosePost(p)
  \/ \E t \in Tokens : ExpireToken(t)
  \/ \E u \in Accounts : DropAccount(u)
  \/ \E n \in Sends : SendStep(n)

DeviceSpec == DeviceInit /\ [][DeviceNext]_deviceVars

--------------------------------------------------------------------------
(* Properties *)

\* Types; rows of accounts that exist, for tokens that were minted; and a phone has
\* at most one token.
DeviceTypeOK ==
  /\ accounts \subseteq Accounts
  /\ wants \subseteq accounts
  /\ owner \in [Tokens -> accounts \cup {None}]
  /\ send \in [Sends -> Send]
  /\ posts \subseteq Post
  /\ holder \in [Tokens -> Phones \cup {None}]
  /\ minted \subseteq Tokens
  /\ phone \in [Phones -> App]
  /\ leaked \subseteq Tokens
  /\ missed \subseteq Tokens
  /\ \A t \in Tokens \ minted : holder[t] = None /\ owner[t] = None
  /\ \A h \in Phones : \A t, k \in TokenOf(h) : t = k

\* A row whose token still works goes only with its account, by its owner's wish, or
\* because FCM refused a message to it: a send that was told that a token is gone
\* never takes one that was registered, or moved, meanwhile.
TokenKept ==
  [][\A t \in Tokens :
       owner[t] # None /\ owner'[t] = None /\ holder[t] # None =>
         \/ owner[t] \notin accounts'
         \/ [kind |-> "unregister", user |-> owner[t], token |-> t] \in posts
         \/ \E n \in Sends : send[n].pc = "refused" /\ t \in send[n].tokens
    ]_deviceVars

\* What is pushed for an account, now or by a send under way, does not reach a phone on
\* which its session is over: whichever of the calls of its sign-out were lost or
\* overtaken, the token is gone.  It is not only if deleteToken failed too, a
\* registration overlapped the end of the sign-out, or bootstrap gave the session up.
SignedOutSilent ==
  \A t \in Tokens, u \in Accounts :
    /\ holder[t] # None /\ t \notin leaked
    /\ \/ owner[t] = u
       \/ \E n \in Sends : send[n].pc = "listed" /\ send[n].user = u /\ t \in send[n].tokens
    => phone[holder[t]].user = u

\* A phone with a session gets its account's notifications: when its registration is
\* over and nothing about its token is under way, the row is there, in whatever order
\* the calls came, unless one of them failed.
RegisteredAtRest ==
  \A t \in Tokens :
    /\ holder[t] # None
    /\ t \notin leaked \cup missed
    /\ phone[holder[t]].user \in accounts
    /\ phone[holder[t]].out = "no" /\ ~ phone[holder[t]].fetching
    /\ \A p \in posts : p.token # t
    => owner[t] = phone[holder[t]].user
==========================================================================
