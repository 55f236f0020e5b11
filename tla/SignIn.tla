------------------------------- MODULE SignIn -------------------------------
(***************************************************************************)
(* Signing in (api/auth.go, store/users.go): with a one-time code by mail, *)
(* with Google and with Apple.  Every way ends in the account of an        *)
(* address or of an Apple identity, which is created if there is none.     *)
(*                                                                         *)
(* Codes are kept in the memory of the server, under a mutex; accounts in  *)
(* the database.  A request that checks a code or looks an identity up and *)
(* then writes the account is two actions.  A restart loses the codes and  *)
(* the requests, not the accounts.                                         *)
(***************************************************************************)
EXTENDS Naturals, FiniteSets

CONSTANTS
  Emails,      \* addresses
  Reviewers,   \* the addresses with a fixed code (appReviewEmail)
  Codes,       \* six-digit codes; two that are drawn may be equal
  FixedCode,   \* appReviewOTP
  Identities,  \* Apple subjects
  Callers,     \* sign-in requests that may be in flight together
  MaxAccounts, \* bound: accounts ever created
  Nil

ASSUME SignInAssumption ==
  /\ Reviewers \subseteq Emails
  /\ FixedCode \in Codes
  /\ MaxAccounts \in Nat
  /\ Nil \notin Identities \cup Emails \cup Codes

VARIABLES
  codes,    \* codes[e]: the entry of otpStore for e
  row,      \* row[e]: the row of users with the address e
  born,     \* rows that users ever had: the id of the last
  call,     \* call[c]: the sign-in request in slot c
  issued,   \* history: issued[e]: the code last drawn for e, until it lets a request in
  home      \* history: home[s]: the account s was last let in to

signInVars == <<codes, row, born, call, issued, home>>

--------------------------------------------------------------------------
(* Data *)

NoCode == [code |-> Nil, fresh |-> FALSE]

\* The id 0 stands for no row.
NoRow == [id |-> 0, sub |-> Nil]

Rows == [id : 1..MaxAccounts, sub : Identities \cup {Nil}] \cup {NoRow}

HasAccount(e) == row[e] # NoRow

\* apple_sub is UNIQUE.
Linked(s) == {e \in Emails : row[e].sub = s}

Waiting == [pc |-> "idle", email |-> Nil, sub |-> Nil]

SignInCall == [pc    : {"idle", "upsert", "find", "link"},
               email : Emails \cup {Nil},
               sub   : Identities \cup {Nil}]

SignInInit ==
  /\ codes = [e \in Emails |-> NoCode]
  /\ row = [e \in Emails |-> NoRow]
  /\ born = 0
  /\ call = [c \in Callers |-> Waiting]
  /\ issued = [e \in Emails |-> Nil]
  /\ home = [s \in Identities |-> 0]

SignInGo(c, pc, e, s) == call' = [call EXCEPT ![c] = [pc |-> pc, email |-> e, sub |-> s]]

SignInDone(c) == call' = [call EXCEPT ![c] = Waiting]

--------------------------------------------------------------------------
(* Codes *)

\* What generate draws for e.
Drawn(e) == IF e \in Reviewers THEN {FixedCode} ELSE Codes

\* Mutant of StartEmail: a code that has not lapsed stays, whatever the mail says.
StartEmailKeeping(e) ==
  /\ \E code \in Drawn(e) :
       /\ codes' = [codes EXCEPT ![e] = IF @.fresh THEN @ ELSE [code |-> code, fresh |-> TRUE]]
       /\ issued' = [issued EXCEPT ![e] = code]
  /\ UNCHANGED <<row, born, call, home>>

\* authEmailStart and generate: a new code takes the place of the one there is.  The
\* mail with it may fail, and the code stays.
StartEmail(e) ==
  /\ \E code \in Drawn(e) :
       /\ codes' = [codes EXCEPT ![e] = [code |-> code, fresh |-> TRUE]]
       /\ issued' = [issued EXCEPT ![e] = code]
  /\ UNCHANGED <<row, born, call, home>>

\* otpTTL has passed.
Lapse(e) ==
  /\ codes[e].fresh
  /\ codes' = [codes EXCEPT ![e].fresh = FALSE]
  /\ UNCHANGED <<row, born, call, issued, home>>

\* authEmailVerify and verify: a code is used up, whatever becomes of the request.  The
\* reviewers' is taken whenever it is given.
Verify(c, e, code) ==
  /\ call[c].pc = "idle"
  /\ \/ e \in Reviewers /\ code = FixedCode /\ UNCHANGED issued
     \/ /\ e \notin Reviewers \/ code # FixedCode
        /\ codes[e] = [code |-> code, fresh |-> TRUE]
        /\ issued' = [issued EXCEPT ![e] = Nil]
  /\ codes' = [codes EXCEPT ![e] = NoCode]
  /\ SignInGo(c, "upsert", e, Nil)
  /\ UNCHANGED <<row, born, home>>

\* authGoogle: Google has verified the address.
GoogleSignIn(c, e) ==
  /\ call[c].pc = "idle"
  /\ SignInGo(c, "upsert", e, Nil)
  /\ UNCHANGED <<codes, row, born, issued, home>>

\* INSERT INTO users for an address without a row.
InsertUser(e, s) ==
  /\ born < MaxAccounts
  /\ born' = born + 1
  /\ row' = [row EXCEPT ![e] = [id |-> born + 1, sub |-> s]]

\* UpsertUser, and the token.
UpsertUser(c) ==
  LET e == call[c].email IN
  /\ call[c].pc = "upsert"
  /\ IF HasAccount(e) THEN UNCHANGED <<row, born>> ELSE InsertUser(e, Nil)
  /\ SignInDone(c)
  /\ UNCHANGED <<codes, issued, home>>

--------------------------------------------------------------------------
(* Apple *)

\* authApple: a valid identity token of s.  It states an address, real or relayed; or,
\* as after the first time, none, and the handler takes the one in the request, which
\* nobody has verified, if there is one.
AppleSignIn(c, s, e) ==
  /\ call[c].pc = "idle"
  /\ e \in Emails \cup {Nil}
  /\ SignInGo(c, "find", e, s)
  /\ UNCHANGED <<codes, row, born, issued, home>>

\* UpsertAppleUser: the look-up by apple_sub.
FindIdentity(c) ==
  LET s == call[c].sub
      e == call[c].email
  IN
  /\ call[c].pc = "find"
  /\ IF Linked(s) # {}
       THEN /\ \E f \in Linked(s) : home' = [home EXCEPT ![s] = row[f].id]
            /\ SignInDone(c)
       ELSE /\ IF e = Nil THEN SignInDone(c) ELSE SignInGo(c, "link", e, s)
            /\ UNCHANGED home
  /\ UNCHANGED <<codes, row, born, issued>>

\* Mutant of LinkIdentity: the address decides, and its account changes identity.
LinkIdentityAnew(c) ==
  LET s == call[c].sub
      e == call[c].email
  IN
  /\ call[c].pc = "link"
  /\ \/ /\ Linked(s) \notin {{}, {e}}
        /\ UNCHANGED <<row, born, home>>
     \/ /\ Linked(s) \in {{}, {e}}
        /\ IF HasAccount(e)
             THEN row' = [row EXCEPT ![e].sub = s] /\ UNCHANGED born
             ELSE InsertUser(e, s)
        /\ home' = [home EXCEPT ![s] = row'[e].id]
  /\ SignInDone(c)
  /\ UNCHANGED <<codes, issued>>

\* Mutant of LinkIdentity: apple_sub is not unique.
LinkIdentityTwice(c) ==
  LET s == call[c].sub
      e == call[c].email
  IN
  /\ call[c].pc = "link"
  /\ \/ /\ row[e].sub \notin {Nil, s}
        /\ UNCHANGED <<row, born>>
     \/ /\ row[e].sub \in {Nil, s}
        /\ IF HasAccount(e)
             THEN row' = [row EXCEPT ![e].sub = s] /\ UNCHANGED born
             ELSE InsertUser(e, s)
  /\ home' = [home EXCEPT ![s] = row'[e].id]
  /\ SignInDone(c)
  /\ UNCHANGED <<codes, issued>>

\* UpsertAppleUser: INSERT ... ON CONFLICT (email).  The account of an address that
\* is linked to another identity is returned as it is; if s has been linked since the
\* look-up, the unique apple_sub refuses a second link; any other account is linked.
\* (The UPDATE that follows finds no row without apple_sub.)
LinkIdentity(c) ==
  LET s == call[c].sub
      e == call[c].email
  IN
  /\ call[c].pc = "link"
  /\ \/ /\ row[e].sub \notin {Nil, s}
        /\ home' = [home EXCEPT ![s] = row[e].id]
        /\ UNCHANGED <<row, born>>
     \/ /\ row[e].sub \in {Nil, s}
        /\ Linked(s) \notin {{}, {e}}
        /\ UNCHANGED <<row, born, home>>
     \/ /\ row[e].sub \in {Nil, s}
        /\ Linked(s) \in {{}, {e}}
        /\ IF HasAccount(e)
             THEN row' = [row EXCEPT ![e].sub = s] /\ UNCHANGED born
             ELSE InsertUser(e, s)
        /\ home' = [home EXCEPT ![s] = row'[e].id]
  /\ SignInDone(c)
  /\ UNCHANGED <<codes, issued>>

--------------------------------------------------------------------------
\* DELETE FROM users, the last statement of DeleteUser.
DropUser(e) ==
  /\ HasAccount(e)
  /\ row' = [row EXCEPT ![e] = NoRow]
  /\ UNCHANGED <<codes, born, call, issued, home>>

\* A statement fails, or the client goes away.
AbandonSignIn(c) ==
  /\ call[c].pc # "idle"
  /\ SignInDone(c)
  /\ UNCHANGED <<codes, row, born, issued, home>>

\* The server is restarted.
LoseCodes ==
  /\ codes' = [e \in Emails |-> NoCode]
  /\ call' = [c \in Callers |-> Waiting]
  /\ UNCHANGED <<row, born, issued, home>>

SignInNext ==
  \/ \E e \in Emails : StartEmail(e) \/ Lapse(e) \/ DropUser(e)
  \/ \E c \in Callers :
       \/ \E e \in Emails : GoogleSignIn(c, e) \/ \E code \in Codes : Verify(c, e, code)
       \/ \E s \in Identities, e \in Emails \cup {Nil} : AppleSignIn(c, s, e)
       \/ UpsertUser(c) \/ FindIdentity(c) \/ LinkIdentity(c) \/ AbandonSignIn(c)
  \/ LoseCodes

SignInSpec == SignInInit /\ [][SignInNext]_signInVars

--------------------------------------------------------------------------
(* Properties *)

\* Types; the ids of rows are those given out, each to one row; and no identity is
\* linked to two accounts.
SignInTypeOK ==
  /\ codes \in [Emails -> [code : Codes, fresh : BOOLEAN] \cup {NoCode}]
  /\ row \in [Emails -> Rows]
  /\ born \in 0..MaxAccounts
  /\ call \in [Callers -> SignInCall]
  /\ issued \in [Emails -> Codes \cup {Nil}]
  /\ home \in [Identities -> 0..MaxAccounts]
  /\ \A e \in Emails : row[e].id <= born
  /\ \A e, f \in Emails : e # f /\ HasAccount(e) => row[e].id # row[f].id
  /\ \A e, f \in Emails : row[e].sub = row[f].sub /\ row[e].sub # Nil => e = f

\* However requests for codes, mistyped and repeated answers, lapses and restarts
\* overlap, a code that lets a request in is the last that was drawn for the address and
\* has let nobody in before: one that was replaced or used is worth nothing.  The
\* exception is the reviewers' fixed code, which opens whenever it is given.
CodesOpenOnce ==
  [][\A c \in Callers, e \in Emails, code \in Codes :
       Verify(c, e, code) =>
         \/ e \in Reviewers /\ code = FixedCode
         \/ issued[e] = code
    ]_signInVars

\* An account that is linked to an Apple identity stays linked to it, as it is, until it
\* is deleted; and while it is there the identity is let in to no other, whatever
\* address its token or the request states and whoever signs in with that address.  The
\* exception is a request that had looked the identity up before the account was linked:
\* if its address is another identity's account's, it is let in to that one.
AppleKeepsAccount ==
  [][\A s \in Identities : \A e \in Linked(s) :
       /\ row'[e] \in {row[e], NoRow}
       /\ \/ home'[s] \in {home[s], row[e].id}
          \/ \E c \in Callers, f \in Emails :
               /\ call[c] = [pc |-> "link", email |-> f, sub |-> s]
               /\ row[f].sub \notin {Nil, s}
               /\ home'[s] = row[f].id
    ]_signInVars
==========================================================================
