-------------------------- MODULE Migrations_proofs --------------------------
(***************************************************************************)
(* Proofs about Migrations, for any number of servers, releases and        *)
(* migrations.                                                             *)
(***************************************************************************)
EXTENDS Migrations, TLAPS

\* A server is past every file before the one it is at; one transaction at a time has
\* run the statements of a file; and who is about to commit has seen that nobody did.
Progress ==
  /\ \A s \in Servers :
       pc[s] \in {"check", "exec", "insert", "commit"} =>
         \A m \in Migration : m < file[s] => m \in versions
  /\ \A s \in Servers :
       pc[s] = "serving" => \A m \in Migration : m <= Files[s] => m \in versions
  /\ \A s, t \in Servers :
       /\ pc[s] \in {"insert", "commit"} /\ pc[t] \in {"insert", "commit"}
       /\ file[s] = file[t]
       => s = t
  /\ \A s \in Servers : pc[s] = "commit" => file[s] \notin versions
  /\ \A s \in Servers : pc[s] \in {"ensure", "create"} => file[s] = 1

\* A server that nothing but a fault can stop from here to its next COMMIT.
Ahead(s) ==
  \/ pc[s] \in {"serving", "stopped", "check"}
  \/ pc[s] = "ensure" /\ tracked
  \/ pc[s] \in {"exec", "insert", "commit"} /\ file[s] \notin versions

\* Whoever made the table or recorded the last version is ahead.
Winner ==
  /\ tracked /\ ~ faults => \E s \in Servers : Ahead(s)
  /\ ~ faults /\ (\E s \in Servers : pc[s] \in {"failed", "serving", "stopped"}) => tracked

MInv == MigrateTypeOK /\ AppliedOnceInOrder /\ Progress

\* The files of a release are migrations.
LEMMA OwnFiles ==
  ASSUME NEW s \in Servers, NEW m \in Nat \ {0}, m <= Files[s]
  PROVE  m \in Migration
<1>1. Files[s] \in Nat
  BY MigrationAssumption
<1>2. m \in 1..Files[s]
  BY <1>1
<1> QED BY <1>2 DEF Migration

LEMMA MigrationsAreNumbers == Migration \subseteq Nat \ {0}
<1> SUFFICES ASSUME NEW m \in Migration PROVE m \in Nat \ {0}
  OBVIOUS
<1>1. PICK s \in Servers : m \in 1..Files[s]
  BY DEF Migration
<1>2. Files[s] \in Nat
  BY MigrationAssumption
<1> QED BY <1>1, <1>2

LEMMA InitMInv == MigrateInit => MInv
<1> SUFFICES ASSUME MigrateInit PROVE MInv
  OBVIOUS
<1> USE DEF MigrateInit
<1>1. MigrateTypeOK
  <2>1. schema \in [Migration -> Nat]
    OBVIOUS
  <2>2. tracked \in BOOLEAN /\ faults \in BOOLEAN
    BY Zenon
  <2>4. versions \subseteq Migration
    OBVIOUS
  <2>5. file \in [Servers -> Nat \ {0}]
    OBVIOUS
  <2>6. \A s \in Servers : pc[s] = "down"
    OBVIOUS
  <2>3. pc \in [Servers -> {"down", "ensure", "create", "check", "exec", "insert", "commit",
                           "serving", "stopped", "failed"}]
    OBVIOUS
  <2> QED BY <2>1, <2>2, <2>3, <2>4, <2>5, <2>6 DEF MigrateTypeOK
<1>2. AppliedOnceInOrder
  BY DEF AppliedOnceInOrder
<1>3. Progress
  BY MigrationsAreNumbers DEF Progress
<1> QED BY <1>1, <1>2, <1>3 DEF MInv

\* Steps that neither commit nor move a server past a check.
LEMMA StartKeeps ==
  ASSUME MInv, NEW s \in Servers, StartServer(s) PROVE MInv'
<1> USE DEF MInv, StartServer, Goto, schemaVars
<1>1. MigrateTypeOK'
  BY DEF MigrateTypeOK
<1>2. AppliedOnceInOrder'
  BY DEF AppliedOnceInOrder
<1>3. Progress'
  BY MigrationsAreNumbers DEF Progress, MigrateTypeOK
<1> QED BY <1>1, <1>2, <1>3

LEMMA TableKeeps ==
  ASSUME MInv, NEW s \in Servers, EnsureTable(s) \/ CreateTable(s) PROVE MInv'
<1> USE DEF MInv, EnsureTable, CreateTable, Goto, schemaVars
<1>1. MigrateTypeOK'
  BY DEF MigrateTypeOK
<1>2. AppliedOnceInOrder'
  BY DEF AppliedOnceInOrder
<1>3. Progress'
  BY MigrationsAreNumbers DEF Progress, MigrateTypeOK
<1> QED BY <1>1, <1>2, <1>3

LEMMA CheckKeeps ==
  ASSUME MInv, NEW s \in Servers, CheckVersion(s) PROVE MInv'
<1> USE DEF MInv, CheckVersion, Goto, schemaVars
<1>0. file[s] \in Nat /\ Files[s] \in Nat
  BY MigrationAssumption DEF MigrateTypeOK
<1>1. MigrateTypeOK'
  BY <1>0 DEF MigrateTypeOK
<1>2. AppliedOnceInOrder'
  BY DEF AppliedOnceInOrder
<1>3. Progress'
  <2>1. CASE file[s] > Files[s]
    BY <2>1, <1>0, MigrationsAreNumbers DEF Progress, MigrateTypeOK
  <2>2. CASE ~ (file[s] > Files[s]) /\ file[s] \in versions
    BY <2>2, <1>0, MigrationsAreNumbers DEF Progress, MigrateTypeOK
  <2>3. CASE ~ (file[s] > Files[s]) /\ file[s] \notin versions
    BY <2>3, <1>0, MigrationsAreNumbers DEF Progress, MigrateTypeOK
  <2> QED BY <2>1, <2>2, <2>3
<1> QED BY <1>1, <1>2, <1>3

LEMMA ExecKeeps ==
  ASSUME MInv, NEW s \in Servers, ExecFile(s) \/ InsertVersion(s) PROVE MInv'
<1> USE DEF MInv, ExecFile, InsertVersion, Goto, schemaVars
<1>1. MigrateTypeOK'
  BY DEF MigrateTypeOK
<1>2. AppliedOnceInOrder'
  BY DEF AppliedOnceInOrder
<1>3. Progress'
  BY MigrationsAreNumbers DEF Progress, MigrateTypeOK, Applying
<1> QED BY <1>1, <1>2, <1>3

\* What a COMMIT does to the database, heard of or not.
LEMMA ApplyKeeps ==
  ASSUME MInv, NEW s \in Servers, pc[s] = "commit", Apply(s)
  PROVE  /\ versions' \subseteq Migration
         /\ schema' \in [Migration -> Nat]
         /\ versions' = versions \cup {file[s]}
         /\ AppliedOnceInOrder'
<1> USE DEF MInv, Apply
<1>0. file[s] \in Migration /\ file[s] \notin versions
  BY OwnFiles DEF MigrateTypeOK, Progress
<1>1. schema[file[s]] = 0
  BY <1>0 DEF AppliedOnceInOrder
<1>2. schema' = [schema EXCEPT ![file[s]] = 1] /\ schema' \in [Migration -> Nat]
  BY <1>0, <1>1 DEF MigrateTypeOK
<1>3. ASSUME NEW m \in Migration
      PROVE  schema'[m] = IF m \in versions' THEN 1 ELSE 0
  BY <1>0, <1>2 DEF AppliedOnceInOrder, MigrateTypeOK
<1>4. ASSUME NEW m \in Migration, NEW n \in Migration, m \in versions', n < m
      PROVE  n \in versions'
  BY <1>0, <1>4, MigrationsAreNumbers DEF AppliedOnceInOrder, Progress
<1>5. AppliedOnceInOrder'
  BY <1>3, <1>4 DEF AppliedOnceInOrder
<1> QED BY <1>0, <1>2, <1>5 DEF MigrateTypeOK

LEMMA CommitKeeps ==
  ASSUME MInv, NEW s \in Servers, CommitFile(s) \/ CommitUnheard(s) PROVE MInv'
<1> USE DEF MInv, CommitFile, CommitUnheard, Goto
<1>0. /\ versions' \subseteq Migration /\ schema' \in [Migration -> Nat]
      /\ versions' = versions \cup {file[s]} /\ AppliedOnceInOrder'
      /\ UNCHANGED tracked
  BY ApplyKeeps DEF Apply
<1>1. file[s] \in Nat \ {0}
  BY DEF MigrateTypeOK
<1>2. MigrateTypeOK'
  <2>1. CASE CommitFile(s)
    <3>1. /\ pc' = [pc EXCEPT ![s] = "check"] /\ file' = [file EXCEPT ![s] = file[s] + 1]
          /\ UNCHANGED faults /\ pc[s] = "commit" /\ tracked
      BY <2>1 DEF MigrateTypeOK
    <3> QED BY <1>0, <1>1, <3>1 DEF MigrateTypeOK
  <2>2. CASE CommitUnheard(s)
    <3>1. pc' = [pc EXCEPT ![s] = "failed"] /\ file' = file /\ faults' = TRUE
      BY <2>2
    <3> QED BY <1>0, <1>1, <3>1 DEF MigrateTypeOK
  <2> QED BY <2>1, <2>2
<1>3. Progress'
  <2>1. CASE CommitFile(s)
    <3>1. /\ pc' = [pc EXCEPT ![s] = "check"] /\ file' = [file EXCEPT ![s] = file[s] + 1]
          /\ pc[s] = "commit"
      BY <2>1
    <3> QED BY <1>0, <1>1, <3>1, MigrationsAreNumbers DEF Progress, MigrateTypeOK
  <2>2. CASE CommitUnheard(s)
    <3>1. pc' = [pc EXCEPT ![s] = "failed"] /\ file' = file /\ pc[s] = "commit"
      BY <2>2
    <3> QED BY <1>0, <1>1, <3>1, MigrationsAreNumbers DEF Progress, MigrateTypeOK
  <2> QED BY <2>1, <2>2
<1> QED BY <1>0, <1>2, <1>3

LEMMA StopKeeps ==
  ASSUME MInv, NEW s \in Servers, StopServer(s) \/ ShutdownServer(s) PROVE MInv'
<1> USE DEF MInv, StopServer, ShutdownServer, Goto, schemaVars
<1>1. MigrateTypeOK'
  BY DEF MigrateTypeOK
<1>2. AppliedOnceInOrder'
  BY DEF AppliedOnceInOrder
<1>3. Progress'
  BY MigrationsAreNumbers DEF Progress, MigrateTypeOK
<1> QED BY <1>1, <1>2, <1>3

\* The inductive invariant behind the theorems of this module, other than Winner.
THEOREM MInductive == MigrateSpec => []MInv
<1>1. MigrateInit => MInv
  BY InitMInv
<1>2. MInv /\ [MigrateNext]_migrateVars => MInv'
  <2> SUFFICES ASSUME MInv, [MigrateNext]_migrateVars PROVE MInv'
    OBVIOUS
  <2>1. CASE UNCHANGED migrateVars
    BY <2>1 DEF migrateVars, schemaVars, MInv, MigrateTypeOK, AppliedOnceInOrder, Progress
  <2>2. CASE MigrateNext
    BY <2>2, StartKeeps, TableKeeps, CheckKeeps, ExecKeeps, CommitKeeps, StopKeeps
       DEF MigrateNext, MigrateStep
  <2> QED BY <2>1, <2>2
<1> QED BY <1>1, <1>2, PTL DEF MigrateSpec

\* Every reachable state is well typed, for any number of servers and files.
THEOREM MigrateTyped == MigrateSpec => []MigrateTypeOK
<1>1. MInv => MigrateTypeOK
  BY DEF MInv
<1> QED BY <1>1, MInductive, PTL

\* The statements of a file take effect once, in order, when its version is recorded.
THEOREM AppliedOnceHolds == MigrateSpec => []AppliedOnceInOrder
<1>1. MInv => AppliedOnceInOrder
  BY DEF MInv
<1> QED BY <1>1, MInductive, PTL

\* Winner is kept: who is ahead goes on to the next COMMIT, and is then ahead still.
LEMMA WinnerKept == MInv /\ Winner /\ [MigrateNext]_migrateVars => Winner'
<1> SUFFICES ASSUME MInv, Winner, [MigrateNext]_migrateVars, ~ faults' PROVE Winner'
  BY DEF Winner
<1> USE DEF MInv
<1>1. CASE UNCHANGED migrateVars
  BY <1>1 DEF Winner, Ahead, migrateVars, schemaVars
<1>2. CASE MigrateNext
  <2>1. PICK s \in Servers :
          StartServer(s) \/ MigrateStep(s) \/ CommitUnheard(s) \/ StopServer(s) \/ ShutdownServer(s)
    BY <1>2 DEF MigrateNext
  <2> USE DEF Goto, schemaVars
  <2>2. CASE StartServer(s)
    BY <2>2 DEF StartServer, Winner, Ahead, MigrateTypeOK
  <2>3. CASE EnsureTable(s)
    BY <2>3 DEF EnsureTable, Winner, Ahead, MigrateTypeOK
  <2>4. CASE CreateTable(s)
    <3>1. CASE tracked
      BY <2>4, <3>1 DEF CreateTable, Winner, Ahead, MigrateTypeOK
    <3>2. CASE ~ tracked
      <4>1. Ahead(s)' /\ tracked'
        BY <2>4, <3>2 DEF CreateTable, Ahead, MigrateTypeOK
      <4> QED BY <4>1 DEF Winner
    <3> QED BY <3>1, <3>2
  <2>5. CASE CheckVersion(s)
    <3>1. Ahead(s)' /\ tracked'
      BY <2>5 DEF CheckVersion, Ahead, MigrateTypeOK
    <3> QED BY <3>1 DEF Winner
  <2>6. CASE ExecFile(s) \/ InsertVersion(s)
    <3>1. tracked /\ tracked' /\ ~ faults
      BY <2>6 DEF ExecFile, InsertVersion, MigrateTypeOK
    <3>2. PICK t \in Servers : Ahead(t)
      BY <3>1 DEF Winner
    <3>3. Ahead(t)'
      <4>1. CASE t # s
        BY <2>6, <3>2, <4>1 DEF ExecFile, InsertVersion, Ahead, MigrateTypeOK
      <4>2. CASE t = s
        <5>1. file[s] \notin versions /\ pc[s] \in {"exec", "insert"}
          BY <2>6, <3>2, <4>2 DEF ExecFile, InsertVersion, Ahead
        <5>2. file[s] \in Migration
          BY <5>1, OwnFiles DEF MigrateTypeOK
        <5>3. schema[file[s]] = 0
          BY <5>1, <5>2 DEF AppliedOnceInOrder
        <5> QED BY <2>6, <4>2, <5>1, <5>3 DEF ExecFile, InsertVersion, Ahead, MigrateTypeOK
      <4> QED BY <4>1, <4>2
    <3> QED BY <3>1, <3>3 DEF Winner
  <2>7. CASE CommitFile(s)
    <3>1. Ahead(s)' /\ tracked'
      BY <2>7 DEF CommitFile, Apply, Ahead, MigrateTypeOK
    <3> QED BY <3>1 DEF Winner
  <2>8. CASE CommitUnheard(s) \/ StopServer(s)
    BY <2>8 DEF CommitUnheard, StopServer
  <2>9. CASE ShutdownServer(s)
    BY <2>9 DEF ShutdownServer, Winner, Ahead, MigrateTypeOK
  <2> QED BY <2>1, <2>2, <2>3, <2>4, <2>5, <2>6, <2>7, <2>8, <2>9 DEF MigrateStep
<1> QED BY <1>1, <1>2

\* Unless something else fails, servers that start together do not all give up.
THEOREM SomebodyStartsHolds == MigrateSpec => []SomebodyStarts
<1>1. MigrateInit => Winner
  BY DEF MigrateInit, Winner
<1>2. MInv /\ Winner /\ [MigrateNext]_migrateVars => Winner'
  BY WinnerKept
<1>3. MInv /\ Winner => SomebodyStarts
  BY DEF Winner, SomebodyStarts, Ahead
<1> QED BY <1>1, <1>2, <1>3, MInductive, PTL DEF MigrateSpec

\* A server serves on a schema that has all that its release embeds.
THEOREM ServesItsSchemaHolds == MigrateSpec => []ServesItsSchema
<1>1. MInv => ServesItsSchema
  BY DEF MInv, ServesItsSchema, Progress, AppliedOnceInOrder
<1> QED BY <1>1, MInductive, PTL
==========================================================================
