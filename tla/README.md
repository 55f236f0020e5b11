# betafeedback in TLA+

betafeedback connects people who build apps with people who test them. A Go
server (`src/betafeedback_backend`) keeps projects, feedback, bugs, swaps and
plans in PostgreSQL; a Flutter app (`src/betafeedback_mobile`) and a web site
(`src/betafeedback_web`) are clients of its HTTP API. This directory models the
parts of the server where requests, background goroutines, retries and account
deletions can meet, and the phone's side of push notifications; it checks them
with TLC on small instances and proves their safety properties with TLAPS for
every size.

Contents:

1. [The system](#1-the-system): components, state, interactions, what is hard
2. [How the code becomes actions](#2-how-the-code-becomes-actions)
3. [The modules](#3-the-modules)
4. [What is checked](#4-what-is-checked): runs, bounds, fairness
5. [Where the code and its comments part ways](#5-where-the-code-and-its-comments-part-ways)
6. [What is proved](#6-what-is-proved)
7. [What is not modelled](#7-what-is-not-modelled)
8. [The plan](#8-the-plan)

Paths below are relative to `src/betafeedback_backend/internal/` unless they
start with `src/`.

## 1. The system

### Components

| Component | State it keeps | Operations that change it | What makes it correct |
|---|---|---|---|
| Bug triage (`store/bugs.go`, `api/bugs.go`) | `structured_bugs`, `activity` | structure, suggest, confirm, dismiss, edit, ask for info, resume, reopen, fix | the status follows the workflow; the fix columns agree with the status; the trail credits whom the rows credit; one draft per report |
| Feedback (`store/feedback.go`, `api/feedback.go`) | `feedback`, comments | file a report, which starts two goroutines (draft a bug, complete swaps) | a report that reads like a bug gets one |
| Test-for-test swaps (`store/swaps.go`, `api/swaps.go`) | `test_swaps`, `project_members` | propose, accept, decline, cancel, complete | one pending swap per pair; accepted parties are members; creators stay creators; completed once, after both filed |
| Safety (`store/safety.go`, `api/safety.go`) | `user_blocks`, `user_reports` | block, unblock, report, delete an account | a block ends what is pending; a deletion leaves nothing dangling |
| Plans (`store/subscriptions.go`, `api/revenuecat.go`) | `subscriptions`, `users.open_to_swap` | RevenueCat's webhook, the profile's swap switch | the row says what RevenueCat said last; a downgrade closes swaps; the free limit on projects |
| Projects (`store/projects.go`, `api/projects.go`) | `projects`, `project_members` | create, edit, join by code | the creator is a member for ever; an answered edit lasts; joining twice is joining once |
| Invitations (`store/testers.go`, `api/testers.go`, `api/invites.go`) | `tester_invitations`, ratings | invite a tester or a member, accept, decline, rate | an answer is final; a block withdraws what is on offer; nobody is a developer uninvited |
| Releases, activity, notifications (`store/engagement.go`) | `releases`, `activity`, `notifications` | post a release, mark read | the trail's types satisfy the table's CHECK |
| Authentication (`api/auth.go`, `api/apple_auth.go`, `store/users.go`) | users, the in-memory `otpStore`, the cache of Apple's keys | request and verify a code; sign in by mail, Google or Apple | a code works once and not after it is replaced or lapses; an Apple identity keeps its account; Apple's keys are followed |
| Push (`api/notify.go`, `api/devices.go`, `store/devices.go`, `push/`) | `device_tokens` | register, unregister, prune invalid tokens after a send | a row of a live token stays; a phone that signed out is silent; one that is signed in is reached |
| Migrations (`db/db.go`) | `schema_migrations` | apply at start | each applied once, in order; a server serves its schema; a race has a winner |
| Server (`cmd/server/main.go`, `api/server.go`) | none of its own | start, stop | a stop loses in-memory work only |
| Mobile app (`src/betafeedback_mobile/lib/data/app_state.dart`, `services/`) | session, caches, pending deep link | sign in and out, load, open a link | a response belongs to the session that asked for it |
| Media (`api/media.go`, `deleteMe` in `api/safety.go`) | files, a directory per project | upload; remove with the account | files and rows, which no transaction joins, go together |
| Structurer, mail, export, admin, config, web site | mail, views | - | pure I/O, formatting or read-only |

### How they interact

* A handler calls the store; the store sends statements to the pool
  (autocommit) or runs a transaction. There is no lock in the process but the
  ones around the OTP map and the token caches: **everything else that two
  requests share is in PostgreSQL**, under READ COMMITTED.
* `createFeedback` answers and leaves two goroutines behind: one drafts a bug
  (`autoStructureFeedback`), one completes swaps (`maybeFulfillSwaps`). Nothing
  on disk says they are running.
* `DeleteUser` reaches into every table: it deletes the user's projects, which
  cascade, unlinks the columns that name the user, and deletes the account.
* RevenueCat calls the webhook, and calls it again until it answers 200.
* FCM gives phones their tokens; a send reads `device_tokens`, and deletes the
  rows FCM says are gone. Phones register and unregister by calls that may be
  lost or overtake one another.
* Several servers may start on one database, which alone keeps them from
  applying a migration together.
* The plan decides whether a user may create projects and take part in swaps;
  the swap writes memberships; memberships decide who may triage bugs.

### What is hard to test

`PROJECT.json` lists the hazards with their lines. In groups:

* *check, then act*: the look for an existing bug, the block before a swap or an
  invitation, the cap on pending swaps, the project limit, the Pro plan before
  opening to swaps: a read on the pool, then a write that repeats none of it.
* *two statements where one was meant*: the plan and the marketplace flag; the
  release looked up outside the transaction of the fix.
* *constraints in another file*: the type of an activity row is checked by a
  migration, so a whole transaction may never commit.
* *goroutines nobody waits for*: timeouts and restarts lose a draft or a
  completed swap; two of them may find the same swap complete.
* *retries*: an event delivered twice, out of order, or to an account deleted
  since.
* *last writer wins*: an upsert of a membership that asks nothing about the role
  there is, a PATCH that writes back a column it read three statements ago.
* *two stores*: rows in the database, and files on the disk, tokens at FCM, codes
  in memory, keys in a cache: each is changed without the other.
* *several servers*: statements of a migration between another's statements.

## 2. How the code becomes actions

* **One statement or one transaction is one action.** A statement on the pool
  commits by itself, so what it read may be stale when the next statement of the
  handler runs; every request has a program counter (`req[r].pc`) between
  statements. A transaction whose later statements depend only on what its
  first ones locked or guarded (`UPDATE ... WHERE status = ...`, `FOR UPDATE`)
  is one action: it commits as a whole or leaves nothing.
* **Constraints are part of the statement.** Foreign keys, unique indexes and
  CHECKs appear as the condition under which a write takes effect. A refused
  write ends the request, as the 500 or 409 in the code does.
* **`DeleteUser` is one action.** Its statements are one transaction, and a row
  that another request adds behind it makes its `DELETE FROM users` fail on a
  foreign key without ON DELETE, or is removed by the cascade: it commits
  against a state in which nothing it should have found is missing.
* **A read that nothing changes is folded** into the action that begins the
  request (the creator of a project never changes).
* **Every failure is an action of its own**: `Abandon`, `HookFail`, `FulfilFail`,
  `AutoFail`, `Restart`, `AbandonSignIn`, `LoseCodes`, `LosePost`, `StopSend`,
  `StopServer`, `FailEdit`, `StopMedia` and the like: a statement fails, a context
  is cancelled, a client leaves, a server stops. They end a request where it is,
  without undoing what it wrote. Where the code commits a transaction that it
  cares about afterwards, a COMMIT whose answer is lost is one too
  (`CommitUnheard`, `CommitDeletionUnheard`).
* **Ids are given out once.** A row is `unborn`, lives, and is `gone`; a
  deleted row's id never comes back (they are UUIDs), which is what lets a stale
  request be told from a fresh one.
* Texts, severities, dates and links are left out, except for one bit that says
  whether a bug's text was edited.

## 3. The modules

```
BugStatus            the triage workflow, told through one column  (abstract)
   ^ implemented by
BugLifecycle         reports, drafts, bugs, releases, the trail
   ^ BugLifecycle_proofs           MCBugLifecycle (4 configurations)
TestSwaps            swaps, blocks, the completing goroutine
   ^ TestSwaps_proofs              MCTestSwaps (3 configurations)
Subscriptions        RevenueCat, plans, the two perks
   ^ Subscriptions_proofs          MCSubscriptions (3 configurations)
Membership           one role and one offer per person           (abstract)
   ^ implemented by
Invitations          invitations, invite codes, blocks
   ^ Invitations_proofs            MCInvitations
Devices              push tokens: phones, calls, sends   ^ Devices_proofs     \
SignIn               codes, Google, Apple, accounts      ^ SignIn_proofs       |
AppleKeys            Apple's keys                        ^ SignIn_proofs       |  MCServer
Migrations           servers that start                  ^ Migrations_proofs   |
ProjectSettings      PATCH of a project                  ^ Projects_proofs     |
Media                uploaded files                      ^ Projects_proofs    /
```

The first four components share tables (users, memberships, feedback). Each
module carries the part of a shared table it depends on and lets the other
writers of it act at any time: `BugLifecycle!WriteMembership` is any acceptance
or join, `TestSwaps!Join` any membership that is not a swap's,
`Invitations!AcceptSwap` the membership that a swap writes. That is coarser than
the other module (it allows more), so what holds here holds of the composition.
The last six components share nothing but accounts that come and go, which each
has an action for (`DropAccount`, `DropUser`, `DeleteProject`, `CommitDeletion`).

### BugStatus and BugLifecycle

`BugStatus` is what the comments of `store/bugs.go` and the CHECK of
`0007_developer_features.sql` promise: eight moves between statuses and the
deletion of a project. `BugLifecycle` is the code:

| Model | Code |
|---|---|
| `bugs[b]`, `BugRow` | a row of `structured_bugs`; `fixedAt` is "fixed_at IS NOT NULL" |
| `activity` | the `activity` rows about bugs |
| `auto[f]` | where the goroutine of report f stands; `lost` after its 30 s, an error or a restart |
| `LoadFeedback`, `CheckStructured`, `StructureFeedback` | the three statements of `structureFeedback` |
| `Transact` | the transactions that write a bug and its activity row; it does nothing when the CHECK on the type refuses the row |
| `CheckRelease`, `MarkBugFixed` | the release is looked up on the pool, then the transaction runs |
| `AutoAnalyze`, `AutoCheck`, `SuggestBug`, `AutoFail` | `autoStructureFeedback` |
| `DeleteMember`, `DeleteCreator`, `Unlink` | `DeleteUser` for a member and for the project's creator |

### TestSwaps

| Model | Code |
|---|---|
| `swaps[s]` | a row of `test_swaps`, whose users are the creators of its projects |
| `AskSwap`, `CheckBlocked`, `CheckCap`, `CheckMember`, `InsertSwap` | `CreateTestSwap`, statement by statement, with the partial unique index on the pair |
| `AcceptSwap` | `AcceptTestSwap`, one transaction that locks the row and upserts two memberships |
| `ReadSwap`, `UpdateSwap` | `respondPendingSwap`: a decline or a cancel reads, then updates `WHERE status = 'pending'` |
| `fulfil[<<p, u>>]` and its five steps | `MaybeFulfillSwapsForFeedback` over its candidates |
| `BlockUser`, `UnblockUser`, `DeleteUser` | `store/safety.go` |

That the caller is on the Pro plan and the other party open to swaps is decided
by reads that may answer either way at any time; a "no" is one of the ways in
which a request ends (`Abandon`).

### Subscriptions

| Model | Code |
|---|---|
| `event[e]` | an event of RevenueCat, posted until acknowledged (external). `to` and `missed` are history: whom it was written to, and whether a look-up failed |
| `hook[w]`, `Resolve*` | `revenueCatWebhook`, `resolveRCUserID`: one `UserExists` per candidate |
| `Plan`, `Status` | `mapRCEvent` |
| `Upsert`, `CloseToSwaps` | the two statements of `SetSubscriptionFromBilling` |
| `ReadLimit`, `CountProjects`, `InsertProject` | `CanUserCreateProject` and `CreateProject` |
| `LoadProfile`, `CheckPro`, `WriteProfile` | `updateTesterProfile`: a field the request leaves out keeps the value read first |

`trialing` is not told from `active` (nothing reads the difference). Two
deliveries of one event do not overlap: RevenueCat posts the next try after the
last one ended, by an answer or by hanging up, which cancels the request's
context and with it its statements.

### Membership and Invitations

`Membership` is what the comments of `store/testers.go` and of
`0011_tester_marketplace.sql` promise of the two columns that matter about a
person and a project, the role they have and the role on offer: one offer at a
time, and no role but by an offer taken, a join or a swap. `Invitations` is the
code:

| Model | Code |
|---|---|
| `invites[i]` | a row of `tester_invitations`; `from_user_id` is the project's creator |
| `AskTester`, `CheckOpen`, `CheckMember`, `CheckBlocked`, `InsertInvite` | `createTesterInvite`, which takes any `user_id`, and `CreateTesterInvitation`, statement by statement, with the partial unique index |
| `AskEmail`, `CheckInvitee`, `InsertInvite` | `CreateMemberInvitation`, which asks nobody about blocks |
| `AskRespond`, `Respond` | `RespondTesterInvitation`, one transaction that locks the row; an acceptance overwrites the role there is |
| `AskJoin`, `CheckAlready`, `InsertMember` | `JoinByInviteCode`: a read, then an INSERT that the primary key may refuse |
| `Welcome`, `told` | `onTesterJoined`: the notices of one arrival |
| `AcceptSwap` | the upsert of `AcceptTestSwap`, as far as one of its memberships goes |
| `late[i]` | history: which of the checks would fail at the moment of the INSERT |

### Devices

| Model | Code |
|---|---|
| `owner[t]` | the row of token t in `device_tokens` |
| `posts`, `Register`, `Unregister`, `LosePost` | the phone's calls on their way; the two handlers; a call lost or failed |
| `send[n]`, `ListTokens`, `Deliver`, `RefuseMessage`, `Prune` | `pushToUsers` and `push.Send`: read the tokens, send, delete one by one those FCM calls invalid |
| `phone[h]`, `EstablishSession`, `Bootstrap`, `BootstrapFails`, `SignOut`, `ClearSession` | the session of `app_state.dart` |
| `GetToken`, `RefreshToken`, `BeginUnregister`, `Unregistered`, `ForgetToken` | `push_notification_service.dart` |
| `holder`, `minted`, `Mint`, `ExpireToken` | FCM (external) |
| `leaked`, `missed` | history: the failures after which a phone may still be reached, or may not be |

### SignIn and AppleKeys

| Model | Code |
|---|---|
| `codes`, `StartEmail`, `Verify`, `Lapse`, `LoseCodes` | `otpStore`: `generate`, `verify` (the reviewers' fixed code included), `otpTTL`, a restart |
| `issued` | history: the code last drawn for an address, until it lets a request in |
| `UpsertUser` | the upsert by address, after a code or Google |
| `AppleSignIn` | `authApple`: the address that the token states or, when it states none, the one in the request; either may be any |
| `FindIdentity`, `LinkIdentity` | the two statements of `UpsertAppleUser`, with the unique `apple_sub`; the account of an address that is another identity's is returned as it is |
| `home` | history: the account an identity was last let in to, whosever it is |
| `cache`, `KeyForKid` | `appleKeys.keyForKid`: one action, since the mutex is held over its fetches |
| `published`, `Publish`, `Withdraw` | Apple's key set (external) |

### Migrations, ProjectSettings, Media

| Model | Code |
|---|---|
| `EnsureTable`, `CreateTable` | `CREATE TABLE IF NOT EXISTS schema_migrations`, which two servers may run at once |
| `CheckVersion`, `ExecFile`, `InsertVersion`, `CommitFile` | the loop of `Migrate`; statements wait for the locks of another transaction that runs them |
| `schema[m]` | how often the statements of m took effect (in a transaction that committed) |
| `edit[e].left`, `UpdateProjectLogo`, `ReadDistribution`, `UpdateProjectDistribution` | `updateProject`: up to three writes outside any transaction, one of which writes back a column it read |
| `MakeDir`, `CreateFile`, `AnswerUpload` | `uploadMedia` |
| `ListProjects`, `CommitDeletion`, `RemoveMedia` | `deleteMe`: the list, the transaction of `DeleteUser`, `os.RemoveAll` per project |
| `outlived` | history: projects whose files nobody removes any more, and why they stay |

### MCServer

The six modules from `Devices` to `Media` have no variable in common. `MCServer`
checks them in one run: `part` says, for the whole behaviour, which of them
moves. The states are the sum of theirs and not the product, and each property
is about the variables of one part, so that the run says of each module what a
run of its own would.

## 4. What is checked

`tlc -config MCBugRaces.cfg MCBugLifecycle` and so on. Two workers each; every
run ends within about three minutes.

| Run | Configuration | Distinct states | Shows |
|---|---|---|---|
| bug_races | MCBugRaces | 467 021 | two requests about one bug, with deletions, joins, releases and restarts between their statements: `TypeOK`, `FixMetadata`, `AuditMatchesRows`, `FixedIsHistory` |
| bug_drafts | MCBugDrafts | 324 993 | the goroutine against a developer who structures by hand, with two bug ids: `OneDraftPerFeedback`, the refinement `TriageSpec`, the liveness `DraftArrives` |
| bug_double | MCBugDouble | violation | `OneBugPerFeedback` (section 5) |
| bug_moves | MCBugMoves | violation | `MovesTakeEffect` (section 5) |
| swap_races | MCSwapRaces | 737 935 | two requests that propose and answer, with blocks, joins, deletions and restarts: `TypeOK`, `AcceptedAreMembers`, `CreatorsStay`, `CapOverrun`, `AnswersAreFinal` |
| swap_fulfil | MCSwapFulfil | 286 266 | the goroutines of both parties over two swaps: `FulfilledMeansFiled`, `ToldOnce`, the liveness `ReportCompletes` |
| swap_block | MCSwapBlock | violation | `NoPendingAcrossBlock` (section 5) |
| plans_races | MCPlansRaces | 650 948 | two webhook requests and two of the customer's own, with failures, restarts and a deletion: `TypeOK`, `FreeLeavesMarketplace`, `LimitOverrun` |
| plans_delivery | MCPlansDelivery | 194 986 | events that name two accounts, either of which may be deleted: the liveness `EventSettles` |
| plans_replay | MCPlansReplay | violation | `Idempotent` (section 5) |
| invitations | MCInvitations | 1 787 467 | two requests that invite, answer and join, with blocks, a swap and deletions between their statements: `TypeOK`, `DevelopersWereInvited`, `BlockWithdraws`, `WelcomedOnce`, `DeveloperKept`, `AnsweredOnce`, the refinement `MembershipSpec` |
| server_parts | MCServer | 2 004 811 | *devices*: `DeviceTypeOK`, `TokenKept`, `SignedOutSilent`, `RegisteredAtRest`; *signin*: `SignInTypeOK`, `CodesOpenOnce`, `AppleKeepsAccount`; *apple*: `NewKeyAccepted`, `OldKeyLapses`; *migrations*: `AppliedOnceInOrder`, `ServesItsSchema`, `SomebodyStarts`; *settings*: `EditLasts`; *media*: `FilesFollowProjects` |

### The properties, in words

* `FixMetadata`: a bug says when, by whom and in which release it was fixed
  exactly when it is fixed.
* `AuditMatchesRows`: u is credited on a bug's row if and only if the trail has
  u's row for it. Two maintainers who confirm at once, a draft, a deletion in
  between: the two tables never tell different stories. This rests on
  `ReopenBug`'s never committing (see `bug_moves` below): a reopening that
  commits clears `fixed_by` and leaves the `bug_fixed` row of the trail.
* `FixedIsHistory` (an action property): no overlapping edit, confirmation or
  second fix rewrites a fixed bug. Deletions may take references out of it, and
  a request to reopen it (`bugs.go:125`) may clear its fix and touches nothing
  else. As the code is no reopening commits; the property excepts it so that it
  stays true when the CHECK is widened. (With the CHECK taken out of `Transact`,
  TLC finds it to hold in all 12 850 581 states.)
* `OneDraftPerFeedback`: no index says so, and it holds: only the one goroutine
  of a report drafts, and it tries once.
* `DraftArrives`: a report taken for a bug gets one unless its goroutine is
  lost, the report is deleted or no bug id is left (a bound).
* `AcceptedAreMembers`, `CreatorsStay`: what an acceptance promises is there
  afterwards, and its upsert never takes a project from its creator.
* `CapOverrun`: the cap is checked before the insert, so it can be overrun, but
  by fewer than the requests in flight.
* `AnswersAreFinal`: of an accept, a decline, a cancel and a block that race,
  one wins.
* `FulfilledMeansFiled`, `ToldOnce`, `ReportCompletes`: completed only after
  both filed; notified once although two goroutines may see it complete; and
  not skipped because another candidate was incomplete.
* `FreeLeavesMarketplace`: who is on the free plan and open to swaps either
  opened by a write that found no Pro plan any more (`late`: `updateTesterProfile`
  checks and writes in two statements), or has a downgrade that will be posted
  again, or one that lost its user in a failed look-up (`missed`).
* `LimitOverrun`: a user whom no event ever made Pro has fewer than
  `FreeProjectLimit` + the requests in flight projects, counting the ones about
  to be inserted.
* `EventSettles`: no event is posted for ever, whatever fails (boundedly often)
  and whoever is deleted.
* `MembershipSpec`: the rows of invitations and memberships behave like one role
  and one offer per person; two requests never leave two offers pending, and no
  acceptance gives another role than the one on offer.
* `DevelopersWereInvited`: nobody is a developer but by an invitation as one that
  they accepted.
* `BlockWithdraws`: an invitation that is pending across a block was inserted
  after it, by a request that had asked before or does not ask (`late`).
* `DeveloperKept`: a developer becomes a tester again only by a swap, or by an
  invitation inserted although its invitee had become a member meanwhile.
* `AnsweredOnce`: of an acceptance, a decline and a block that race, one wins.
* `WelcomedOnce`: however often a link is tapped, an arrival is announced once.
* `TokenKept`: the pruning of tokens by value, after a send, never takes the row
  of a token that works, whomever it has moved to, but after FCM refused a
  message for it (section 5).
* `SignedOutSilent`: nothing that is pushed, now or by a send under way, reaches a
  phone after its sign-out, though the calls that say so are lost or overtaken:
  deleting the token at FCM makes up for them. `leaked` names the exceptions.
* `RegisteredAtRest`: when a signed-in phone has nothing under way, its row is
  there, unless a call for it failed (`missed`).
* `CodesOpenOnce` (an action property): a code that lets a request in is the last
  that was drawn for its address and has let nobody in before, however requests for
  codes, answers, lapses and restarts overlap. The exception is the reviewers' fixed
  code (`auth.go:90`), which opens whenever it is given.
* `AppleKeepsAccount` (an action property): an account that is linked to an Apple
  identity stays linked until it is deleted, and while it is there the identity is
  let in to no other, whatever address its token or the request states and whoever
  signs in with that address. The exception is a request that had looked the
  identity up before the account was linked, as one of two overlapping first
  sign-ins does: if its address is another identity's account's, it is let in to
  that one, once (`users.go:201`); TLC finds the property violated without it.
* `NewKeyAccepted`, `OldKeyLapses`: a key of Apple's is refused only if Apple could
  not be asked, and one that was withdrawn accepted no longer than an hour.
* `AppliedOnceInOrder`, `ServesItsSchema`, `SomebodyStarts`: the statements of a
  file take effect once, after those of the files before it; whoever serves has
  its whole schema; and of servers that make one another fail, one goes on.
* `EditLasts`: an answered edit of a project lasts until another names its column,
  but for one that ran beside it (section 5).
* `FilesFollowProjects`: an answered upload is there while its project is, and
  gone with it but for the cases `outlived` names.

### Bounds

Two requests are what it takes for one to act between another's statements; the
overrun bounds (`CapOverrun`, `LimitOverrun`) are tight at two. One bug and one
release are enough for properties about one row; drafts need a second bug id,
because the failure would be a second row. Three projects of two people give one
of them two swaps to propose at once, and each pair of projects a swap in either
direction. Two events are a purchase and its end, in both orders of arrival; two
candidate accounts make the difference between "the first that exists" and "the
same as last time". `MaxProjects`, `MaxFailures`, `Reports`, `Joins`,
`Blockers`, `Kinds` and `Customers` bound what the environment does and are named
so in the modules. `SYMMETRY` over requests, slots and ids is used only in runs
without liveness.

Deadlock is checked in every run except three whose behaviours may end:
`bug_moves` contains no failure and may run out of ids; in `invitations`
everybody may have deleted their account, with nothing under way; in
`server_parts` time stops, edits are made once each, and an account with its
files may be gone.

In `invitations` one project, its creator and one other person are enough: every
property is about one pair. Two invitation ids give a first that is answered and
a second inserted beside it; a swap pending between the two (`Swaps`) makes the
invitee a tester at any moment; the creator blocks (`Blockers`), which cancels
in the one direction that a project of hers has.

In `server_parts`: one phone with two accounts, two tokens and one send is the
least for a token that moves to another account, or is replaced, while a send
holds it; two calls (`MaxPosts`) overtake each other. Codes are asked for without
bound, and two of them are a code and the one that replaces it, which may be equal;
two identities, each with either address, meet in one account; `MaxAccounts` 2 lets an account
be deleted and come back under another id. Three keys and six ticks (`MaxTime`)
with an `Hour` of two are a rotation, an old cache, and a second rotation. Three
servers of three releases embed one, two and three files; the statements of the
first and the third succeed when they are run again (`Repeatable`), as those of
`0003_suggested_bugs.sql` and `0010_revenuecat.sql` do, and those of the second
do not, as those of the other fifteen. Three edits, each with one of four sets
of columns (`AskedMC`), put a write and a read-and-write-back beside each other
in every order. Two projects and three uploads put a project on either side of
the list that a deletion makes.

### Fairness

* `BugLifecycle!Fairness`, `TestSwaps!FairSpec`: weak fairness of each
  goroutine's next statement. The Go scheduler runs what is ready, and nothing
  in the code makes a goroutine wait for another. No request need ever come and
  no user need ever act.
* `Subscriptions!FairSpec`: weak fairness of a webhook request's next statement,
  and strong fairness of the delivery of an event that is not acknowledged.
  RevenueCat's retries are what the webhook relies on (it answers 500 so that
  they come). Strong rather than weak, since the slots of `Hooks` are a bound of
  the model which other events may take in turn.

Every leads-to property names its ways out (a lost goroutine, a deletion), so
none of them rests on failures not happening.

## 5. Where the code and its comments part ways

Each is a run with the expectation "violation", and an entry under "findings".

* **bug_moves**: `MarkBugNeedsInfo` and `ReopenBug` log activity types that the
  CHECK of `0001_init.sql` refuses, so their transactions always roll back. In
  the model no bug ever reaches `needs_info`; `ResumeBug` and the refinement's
  moves are kept since they are what the code says.
* **bug_double**: the goroutine and a developer both find no bug for a report,
  and both insert one. "feedback already structured" is not an invariant.
* **swap_block**: a proposal that read the block table before the block
  committed is inserted after it, stays pending, and may be accepted.
* **plans_replay**: `rc_event_id` is written and never read. An older event,
  posted again because its answer was lost, puts its plan back over a newer one.

What else the models showed the code does, without a run of its own (most of it
is an exception that a property names):

* `push.go:92`: FCM's "invalid argument", which it also gives for a message it
  cannot accept, makes a send delete tokens that work (`RefuseMessage`). The
  phone registers again when it starts.
* `app_state.dart`: a session that `bootstrap` gives up because the server did
  not answer leaves its token registered; the phone goes on showing the
  account's notifications until somebody else signs in (`BootstrapFails`).
* `projects.go:239`: of two joins by one code that overlap, the second is
  answered 500 by the primary key and not "already a member". The membership is
  right, and the creator is told once.
* `CreateMemberInvitation` (an invitation by email) does not look at blocks,
  which `CreateTesterInvitation` does.
* An acceptance upserts the role: a developer who accepts a tester's invitation
  inserted late, or a swap, is a tester afterwards (`DeveloperKept`).
* `api/projects.go:160`: two edits that overlap, one of the group URL and one of
  the links, may undo one another, since each writes back what it read.
* `users.go:159` says that Apple's look-up by address links the identity. When the
  account of the address (which the request chooses when the token states none,
  `auth.go:283`) is linked to another identity, it is let in to and not linked. An
  identity with an account of its own meets this only in first sign-ins that
  overlap (`AppleKeepsAccount`).
* `api/auth.go:177`: the code is used up before the account is written; if that
  fails, another code is needed.
* `safety.go:196` says that content is permanently removed. Files stay when the
  server stops or `RemoveAll` fails after the transaction (both are ignored),
  when a project is created behind the list, and when an upload that had passed
  its check makes the directory again.
* `store.AddMember` has no caller; it is not modelled.

## 6. What is proved

`tlapm` of the eight modules `*_proofs.tla`, for every value of the constants
that satisfies the assumptions of the modules. Every safety invariant and every
action property of the passing runs is a theorem, and so are both refinements.
`SignIn_proofs` is about `SignIn` and `AppleKeys`, `Projects_proofs` about
`ProjectSettings` and `Media`; each of the others is about the module it is named
for. TLC evaluates the assumptions in every run. What they say:

* ids and the markers for NULL differ (`BugAssumption`, `SwapAssumption`,
  `InvitationAssumption`, `DeviceAssumption`, `SignInAssumption`), and an
  invitation's id is not also the pair of a project and a person, which tells the
  two kinds of arrival apart (`InvitationAssumption`);
* every project has a creator, and a customer is a sequence of accounts; a
  membership by swap is never the creator's own (`InvitationAssumption`);
* the limits are naturals (the cap on swaps and the project limit at least 1),
  and the requests in flight and the swap ids are finitely many, since they are
  counted (`SwapAssumption`, `SubscriptionAssumption`);
* the reviewer's fixed code is a code (`SignInAssumption`), Apple's first key is a key
  (`AppleKeysAssumption`), a release embeds a number of files
  (`MigrationAssumption`), and the value of a new project's columns is no edit's
  (`SettingsAssumption`). `Media` needs none.

The sets that only bound the environment (`Reports`, `Joins`, `Blockers`, `Kinds`,
`Swaps`) may hold all that their types allow, and the bounds `MaxPosts`
and `MaxAccounts` may be any number, so the theorems hold without those
bounds.

### BugLifecycle

Theorems `Typed`, `FixMetadataHolds`, `AuditHolds`, `FixedIsHistoryHolds`,
`OneDraftHolds`, `TriageRefined`.

`AuditMatchesRows` is not inductive: a statement that confirms a bug overwrites
`structured_by`, and if that held a credit the trail would keep a row for a user
whom the bug no longer names. The inductive invariant adds `NobodyCredited` (a
row that is unborn, a draft or gone names nobody: exactly the rows that the
guards of the crediting statements let through) and `RequestsNameRows` (a
request past its first statement names rows of the right table).

`OneDraftPerFeedback` rests on a second invariant, `DraftInv`: a draft of report
f exists only if the goroutine of f is done, and a done goroutine does not
insert.

`TriageRefined` proves `Spec => Triage!Spec`: every step of `BugLifecycle` is,
through `status`, a move of `BugStatus` or a stutter.

### TestSwaps

Theorems `Typed`, `AnswersAreFinalHolds`, `AcceptedAreMembersHolds`,
`CreatorsStayHolds`, `FulfilledMeansFiledHolds`, `ToldOnceHolds`,
`CapOverrunHolds`.

* `RowMove`: every step moves every row forward or not at all, and never changes
  its projects. `TypeInv` proves it of each action together with types, the
  constraints of the table, and what requests and goroutines name (`Asked`,
  `Working`); the theorem that answers are final is `RowMove` restated.
* `MemberInv`: a swap joins the projects of two people, so the two rows that an
  acceptance upserts are never a creator's own, and nothing but the deletion of
  a party, which takes the swap with it, removes a membership.
* `Seen`: the completing goroutine reads "the first party filed", "the second
  filed" and updates, in three statements. What it has read is still true when
  it updates, or the swap is gone: a report is deleted only with its author or
  with the project's creator, and both are the swap's parties.
* `Telling`: of the goroutines past the guarded UPDATE there is one per swap, and
  until it notifies, nobody has been told. `ToldOnce` alone is not inductive: it
  does not say that the one about to notify is the only one.
* `CapOverrun` is inductive as it stands, because it counts the requests past
  the check with the rows. A request passes when at least one place is free, so
  even with every slot past the check the sum is one short of the cap plus the
  slots; an INSERT moves one from the second count to the first.

### Subscriptions

Theorems `Typed`, `FreeLeavesHolds`, `LimitHolds`.

A downgrade is two statements, and the request may die between them. What makes
up for it is the retry; but a retry looks its user up afresh, and if it found
*another* of the event's candidates it would close the wrong account and be
acknowledged. It does not, for accounts are deleted and never return:

* `Tried`: an event none of whose look-ups failed was written only to the first
  of its candidates that existed at the time, hence those before it are gone for
  good. A request at its upsert has likewise passed only candidates that are
  gone; so whoever else the event was written to no longer exists.
* `Hooked`: a request in flight has an event of its own, not yet acknowledged.
* `Unclosed`: what `FreeLeavesMarketplace` needs between the two statements, with
  the request that has closed the account but not yet answered told apart from
  those that still will.
* `ProKnown`: a Pro row came from an event that gives Pro, so a user whom no
  event made Pro cannot have taken the unlimited path: `LimitOverrun` is then the
  count of the requests past their check.

### Invitations

Theorems `Typed`, `AnsweredOnceHolds`, `DevelopersWereInvitedHolds`,
`BlockWithdrawsHolds`, `DeveloperKeptHolds`, `WelcomedOnceHolds`,
`MembershipRefined`.

* `RowsMove`: a step leaves every row of `tester_invitations` alone, moves it from
  pending to an answer, or lets it go with its project or people; only an INSERT
  makes one. `TInv` (types, the partial unique index, every creator a member, what requests name) is
  proved with it, and `AnsweredOnce` is `RowsMove` restated (`RowsShape`).
* `DevelopersWereInvited` and `BlockWithdraws` are kept by every step, given that
  an accepted invitation goes only with its membership (`RowsMove`, `DeleteFacts`)
  and that a block cancels all there is. `DeveloperKept` needs more, `LateMember`:
  an invitation that is pending for somebody who is a developer already was
  inserted after they had become a member. It is kept because a member becomes a
  developer only by accepting the pair's one pending invitation, which then is
  pending no more. `RInv` is the three together.
* `WelcomedOnce` needs `OnceInv`: of the requests about to announce, no two are
  about one arrival; nobody was told of theirs; and whatever is announced, or about
  to be, has `Arrived`, which lasts: an answered invitation stays answered, and a
  membership goes only with its account or its project. So a second request finds
  the invitation answered, or the membership there.
* `MembershipRefined`: `OfferedIs` says that the role on offer, which `Membership`
  keeps as one value, is that of the one pending invitation (the unique index).
  Then every step of the code is, for each pair, one of the moves of `Membership`
  (`NextMoves`), and for all pairs together a step or a stutter of it.

### Devices

Theorems `DeviceTyped`, `SignedOutSilentHolds`, `RegisteredAtRestHolds`,
`TokenKeptHolds`, from `DInv`, for any number of phones, accounts, tokens and
sends (TLC has checked `DInv` also for two phones that share an account).

* `OneSession`: a token may be in three places of the server at once, in a row, in
  the hands of a send and in a registration on its way, and one at the phone.
  `SignedOutSilent` is about the first two; what makes it inductive is the third:
  if an old registration of another account were still on its way, it would move
  the row back. The sign-out does not wait for it, but it has the token deleted, and a
  token that is gone never works again. So of a live token that outlived nothing,
  all three name the session of the phone that has it.
* `Registering`: `RegisteredAtRest` as an invariant of the calls: a token that
  nothing happened to has its row, or a registration on its way, or a phone that is
  still fetching or unregistering it; and an unregistration on its way means that
  the phone is at it.
* `Pruned`: what a send is about to delete is gone at FCM, or FCM refused a message
  to it. A gone token stays gone, so that a row deleted by value, later and whosever
  it is by then, is not the row of a token that works.
* `MintedFirst`, `OwnToken`: nothing names a token before FCM gives it out, and a
  phone knows no other phone's.

The steps of a phone that leave the tokens where they are share one lemma
(`PhoneToDInv`), those of a send another (`SendToDInv`).

### SignIn

Theorems `SignInTyped`, `CodesOpenOnceHolds`, `AppleKeepsAccountHolds`, from `AInv`.

`CodesOpenOnce` needs `CodesIssued`: an entry of `otpStore` that has not lapsed is the
code that was drawn last (`issued`), and has let nobody in. Every write of the map
keeps it, since a new code takes the place of the old one and a used one goes with its
use. For `AppleKeepsAccount` the invariant has `SubsOnce`, that no two accounts are
linked to one identity, and what a request names at each statement (`CallsOK`). Then
`FindIdentity` finds the one account there is, and `LinkIdentity`, which only fills a
link that is empty (`COALESCE`), either writes that account again, is refused by the
unique `apple_sub`, or is the exception, a request past its look-up whose address is
another identity's (`LetsIn`).

### Migrations

Theorems `MigrateTyped`, `AppliedOnceHolds`, `ServesItsSchemaHolds`,
`SomebodyStartsHolds`, from the inductive invariant `MInv` (`MInductive`), for
any number of servers and releases.

`AppliedOnceInOrder` needs who may be where (`Progress`): past the statements of a
file and before its COMMIT there is one server, every earlier file is recorded,
and whoever is about to commit has found no version. `Winner` is what makes a
race safe: a server fails for reasons of this code only where another has created
the table or recorded a version, and then some server is `Ahead`, at a place from
which only a fault can keep it from its next COMMIT or from serving.

### AppleKeys

Theorems `NewKeyAcceptedHolds`, `OldKeyLapsesHolds`, for any set of keys and any
age limit, from `KInv` (`KInductive`): a key in the cache that is not published
was withdrawn after the last fetch. So a cache that is not `Aged` holds nothing
that was withdrawn longer ago than `Hour`, and a cache that was just fetched
holds what is published.

### ProjectSettings

Theorem `EditLastsHolds`, for any number of requests that name any columns, from
`SInv` (`SInductive`). That a column has a value is not enough, for a request may
carry an older one in `read` and write it back. `Holds` says that the value which
nobody can have undone is in its column, and `Reads` that it is in the hands of
every request that came after it and read the column.

### Media

Theorem `FilesFollowProjectsHolds`, for any projects and uploads, from `FInv`
(`FInductive`). A file says nothing about who will remove it; a directory does:
`DirsOwned` says that the directory of a project that is gone is still to be
removed or `outlived`, and `FilesKept` that a file is in a directory that exists.
An upload that has passed `MakeDir` need not be told apart from one that has not.

### Only model-checked

* Liveness (`DraftArrives`, `ReportCompletes`, `EventSettles`): fairness and
  ENABLED are outside what the installed provers do.
* The four violations, which are single counterexamples.

## 7. What is not modelled

* *Text*: the structurer's analysis (its verdict is a nondeterministic choice),
  mail, exports, admin views, the web site's pages.
* *Cryptography*: tokens, Apple's, Google's and RevenueCat's signatures. The
  session token keeps no state on the server.
* *What a file contains*: an upload's name is random and nothing reads it back.
* *One-statement lists*: test items, comments, ratings, read marks, user reports.
* *Whom a notice goes to*: a send has one recipient, and the notification rows are
  INSERTs that nothing of the above reads.
* *What a migration does*: one effect, told apart by whether it can be repeated.
* *Not yet*: the mobile app's caches and deep links (section 8).
* *Isolation below READ COMMITTED's statement level*: a statement is atomic.

## 8. The plan

In order; 1 to 4, 6 and 7 are done, 5 in part.

1. `BugStatus`, `BugLifecycle`, `BugLifecycle_proofs`.
2. `TestSwaps`, `TestSwaps_proofs`.
3. `Subscriptions`, `Subscriptions_proofs`.
4. `Membership`, `Invitations`: the two ways to invite, answers, joins, blocks, a
   swap's upsert and deletions.
5. Sign-in and sessions. Done: `SignIn`, `AppleKeys`, `Devices`. Left: the mobile
   app's caches (`app_state.dart`: a response that arrives after sign-out or after
   a newer load) and its pending deep link (`deep_link_service.dart`: a link opens
   once; as the code stands, a join that is in flight at a sign-out opens a screen
   without a session, which the comment of `setNavigationReady` rules out).
6. `Migrations`, `ProjectSettings`, `Media`, with their proofs.
7. `Invitations_proofs`, `SignIn_proofs`, `Devices_proofs`.
8. The composition of `TestSwaps` and `Invitations` over one membership table, and
   the rows and recipients of notifications.
