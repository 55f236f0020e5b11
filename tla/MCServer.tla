------------------------------ MODULE MCServer ------------------------------
(***************************************************************************)
(* Six parts of the server that share nothing, checked in one run: in      *)
(* each behaviour one of them moves and the others stay as they start.     *)
(***************************************************************************)
EXTENDS Devices, SignIn, AppleKeys, Migrations, ProjectSettings, Media, TLC

CONSTANTS
  eve, rev,             \* addresses; rev is the reviewers'
  subA, subB,           \* Apple identities
  srv1, srv2, srv3      \* servers of three releases

VARIABLE part

\* Each release has one file more than the last.
FilesMC == srv1 :> 1 @@ srv2 :> 2 @@ srv3 :> 3

\* Two requests that write only one column of the distribution meet, beside one that
\* writes both, and one in three statements.
AskedMC == {{"group"}, {"links"}, {"group", "links"}, {"logo", "notes", "links"}}

\* None of these sets has a member that is told apart.
Symmetry == Permutations(Accounts) \cup Permutations(Tokens)

ServerVars == <<deviceVars, signInVars, appleVars, migrateVars, settingsVars, mediaVars, part>>

ServerInit ==
  /\ DeviceInit /\ SignInInit /\ AppleInit /\ MigrateInit /\ SettingsInit /\ MediaInit
  /\ part \in {"devices", "signin", "apple", "migrations", "settings", "media"}

ServerNext ==
  \/ /\ part = "devices" /\ DeviceNext
     /\ UNCHANGED <<signInVars, appleVars, migrateVars, settingsVars, mediaVars, part>>
  \/ /\ part = "signin" /\ SignInNext
     /\ UNCHANGED <<deviceVars, appleVars, migrateVars, settingsVars, mediaVars, part>>
  \/ /\ part = "apple" /\ AppleNext
     /\ UNCHANGED <<deviceVars, signInVars, migrateVars, settingsVars, mediaVars, part>>
  \/ /\ part = "migrations" /\ MigrateNext
     /\ UNCHANGED <<deviceVars, signInVars, appleVars, settingsVars, mediaVars, part>>
  \/ /\ part = "settings" /\ SettingsNext
     /\ UNCHANGED <<deviceVars, signInVars, appleVars, migrateVars, mediaVars, part>>
  \/ /\ part = "media" /\ MediaNext
     /\ UNCHANGED <<deviceVars, signInVars, appleVars, migrateVars, settingsVars, part>>

ServerSpec == ServerInit /\ [][ServerNext]_ServerVars
==========================================================================
