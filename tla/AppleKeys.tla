------------------------------ MODULE AppleKeys ------------------------------
(***************************************************************************)
(* The cache of the keys with which Apple signs identity tokens            *)
(* (api/apple_auth.go).  It is fetched when it is empty or an hour old,    *)
(* and once more for a key it does not have; if Apple does not answer, the *)
(* keys there are go on being used.  A mutex is held for the whole check,  *)
(* fetches included, so that a check is one action.                        *)
(***************************************************************************)
EXTENDS Naturals

CONSTANTS
  Kids,    \* key ids, each published once
  First,   \* the key that is published at the start
  Hour,    \* how old a cache may be, in ticks
  MaxTime  \* bound: when time stops

ASSUME AppleKeysAssumption == First \in Kids /\ {Hour, MaxTime} \subseteq Nat

VARIABLES
  now,        \* time
  published,  \* what Apple's JWKS URL serves
  withdrawn,  \* withdrawn[k]: when k was taken out of it
  cache,      \* appleKeys.keys; {} before the first fetch
  fetched,    \* appleKeys.fetched
  verdict     \* history: of the last check: the outcome, and what was true of its key

appleVars == <<now, published, withdrawn, cache, fetched, verdict>>

--------------------------------------------------------------------------
NoVerdict == [ok |-> TRUE, failed |-> FALSE, live |-> TRUE, recent |-> TRUE]

\* One key is published and nothing fetched.
AppleInit ==
  /\ now = 0
  /\ published = {First}
  /\ withdrawn = [k \in Kids |-> 0]
  /\ cache = {}
  /\ fetched = 0
  /\ verdict = NoVerdict

Tick ==
  /\ now < MaxTime
  /\ now' = now + 1
  /\ UNCHANGED <<published, withdrawn, cache, fetched, verdict>>

\* Apple publishes another key; at most two at a time.
Publish(k) ==
  /\ k \notin published /\ withdrawn[k] = 0 /\ now > 0
  /\ \E j \in Kids : published = {j}
  /\ published' = published \cup {k}
  /\ UNCHANGED <<now, withdrawn, cache, fetched, verdict>>

\* Apple withdraws one of two.
Withdraw(k) ==
  /\ k \in published /\ published # {k} /\ now > 0
  /\ published' = published \ {k}
  /\ withdrawn' = [withdrawn EXCEPT ![k] = now]
  /\ UNCHANGED <<now, cache, fetched, verdict>>

Record(k, ok, failed) ==
  verdict' = [ok |-> ok, failed |-> failed, live |-> k \in published,
              recent |-> now <= withdrawn[k] + Hour]

Aged == cache = {} \/ now > fetched + Hour

\* Mutant of KeyForKid: an unknown key is refused without a fetch.
KeyForKidOnce(k, first, second) ==
  LET cache1 == IF Aged /\ first THEN published ELSE cache IN
  /\ cache' = cache1
  /\ fetched' = IF Aged /\ first THEN now ELSE fetched
  /\ Record(k, k \in cache1, Aged /\ ~ first)
  /\ UNCHANGED <<now, published, withdrawn>>

\* Mutant of KeyForKid: a key that is in the cache is good whatever its age.
KeyForKidTrusting(k, first, second) ==
  LET fetch == k \notin cache IN
  /\ cache' = IF fetch /\ second THEN published ELSE cache
  /\ fetched' = IF fetch /\ second THEN now ELSE fetched
  /\ Record(k, k \in cache', fetch /\ ~ second)
  /\ UNCHANGED <<now, published, withdrawn>>

\* keyForKid: first and second say whether a fetch at that place gets an answer.
KeyForKid(k, first, second) ==
  LET cache1 == IF Aged /\ first THEN published ELSE cache
      again == k \notin cache1 /\ cache1 # {}
  IN
  /\ cache' = IF again /\ second THEN published ELSE cache1
  /\ fetched' = IF (Aged /\ first) \/ (again /\ second) THEN now ELSE fetched
  /\ Record(k, k \in cache', (Aged /\ ~ first) \/ (again /\ ~ second))
  /\ UNCHANGED <<now, published, withdrawn>>

AppleNext ==
  \/ Tick
  \/ \E k \in Kids :
       Publish(k) \/ Withdraw(k) \/ \E first, second \in BOOLEAN : KeyForKid(k, first, second)

AppleSpec == AppleInit /\ [][AppleNext]_appleVars

--------------------------------------------------------------------------
(* Properties *)

\* A token that Apple signs with a key it has just begun to use is refused only if
\* Apple could not be asked.
NewKeyAccepted == ~ verdict.ok /\ verdict.live => verdict.failed

\* A key that Apple withdrew is accepted no longer than an hour, unless Apple could not
\* be asked.
OldKeyLapses == verdict.ok /\ ~ verdict.live => verdict.recent \/ verdict.failed
==========================================================================
