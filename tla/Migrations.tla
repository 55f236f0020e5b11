----------------------------- MODULE Migrations -----------------------------
(***************************************************************************)
(* Servers that start on one database (cmd/server/main.go, db/db.go): each *)
(* applies the migrations it embeds and the database lacks, one            *)
(* transaction per file, and serves when it has gone through them all.     *)
(*                                                                         *)
(* A deploy starts servers while others run, perhaps of an older release   *)
(* that embeds fewer files.  Nothing but the database keeps two of them    *)
(* from applying a file together.  A server that returns an error is       *)
(* started again by whatever runs it.                                      *)
(***************************************************************************)
EXTENDS Naturals

CONSTANTS
  Servers,     \* processes that may run together
  Files,       \* Files[s]: how many migrations the release of s embeds
  Repeatable   \* the migrations whose statements succeed a second time (0003, 0010)

ASSUME MigrationAssumption ==
  /\ Files \in [Servers -> Nat]
  /\ Repeatable \subseteq Nat

VARIABLES
  tracked,   \* schema_migrations exists
  versions,  \* its rows
  schema,    \* schema[m]: how often the statements of m took effect
  pc,        \* pc[s]: the next statement of s
  file,      \* file[s]: the file s is at
  faults     \* history: a statement failed, or a server stopped, for no reason of this code

schemaVars == <<tracked, versions, schema>>

migrateVars == <<schemaVars, pc, file, faults>>

--------------------------------------------------------------------------
Migration == UNION {1..Files[s] : s \in Servers}

\* The servers between BEGIN and COMMIT of m, who hold the locks of its statements.
Applying(m) == {s \in Servers : pc[s] \in {"insert", "commit"} /\ file[s] = m}

MigrateInit ==
  /\ tracked = FALSE
  /\ versions = {}
  /\ schema = [m \in Migration |-> 0]
  /\ pc = [s \in Servers |-> "down"]
  /\ file = [s \in Servers |-> 1]
  /\ faults = FALSE

--------------------------------------------------------------------------
Goto(s, next) == pc' = [pc EXCEPT ![s] = next]

\* run as far as Migrate: connected, and nothing read yet.
StartServer(s) ==
  /\ pc[s] \in {"down", "failed", "stopped"}
  /\ Goto(s, "ensure")
  /\ file' = [file EXCEPT ![s] = 1]
  /\ UNCHANGED <<schemaVars, faults>>

\* CREATE TABLE IF NOT EXISTS: whether it exists is looked up first ...
EnsureTable(s) ==
  /\ pc[s] = "ensure"
  /\ Goto(s, IF tracked THEN "check" ELSE "create")
  /\ UNCHANGED <<schemaVars, file, faults>>

\* ... and of two that do not find it, the second to create it fails.
CreateTable(s) ==
  /\ pc[s] = "create"
  /\ tracked' = TRUE
  /\ Goto(s, IF tracked THEN "failed" ELSE "check")
  /\ UNCHANGED <<versions, schema, file, faults>>

\* Mutant of CheckVersion: a file that another server is applying counts as applied.
CheckVersionOptimist(s) ==
  /\ pc[s] = "check"
  /\ IF file[s] > Files[s]
       THEN Goto(s, "serving") /\ UNCHANGED file
       ELSE IF file[s] \in versions \/ Applying(file[s]) # {}
         THEN file' = [file EXCEPT ![s] = @ + 1] /\ UNCHANGED pc
         ELSE Goto(s, "exec") /\ UNCHANGED file
  /\ UNCHANGED <<schemaVars, faults>>

\* Mutant of CheckVersion: every file is applied, whatever schema_migrations says.
CheckVersionAlways(s) ==
  /\ pc[s] = "check"
  /\ Goto(s, IF file[s] > Files[s] THEN "serving" ELSE "exec")
  /\ UNCHANGED <<schemaVars, file, faults>>

\* The loop's end, or SELECT EXISTS for the next file.
CheckVersion(s) ==
  /\ pc[s] = "check"
  /\ IF file[s] > Files[s]
       THEN Goto(s, "serving") /\ UNCHANGED file
       ELSE IF file[s] \in versions
         THEN file' = [file EXCEPT ![s] = @ + 1] /\ UNCHANGED pc
         ELSE Goto(s, "exec") /\ UNCHANGED file
  /\ UNCHANGED <<schemaVars, faults>>

\* The statements of the file wait for another transaction that has run them, and
\* fail if they have taken effect already, unless they can be repeated.
ExecFile(s) ==
  /\ pc[s] = "exec"
  /\ Applying(file[s]) = {}
  /\ Goto(s, IF schema[file[s]] > 0 /\ file[s] \notin Repeatable THEN "failed" ELSE "insert")
  /\ UNCHANGED <<schemaVars, file, faults>>

\* Mutant of InsertVersion: ON CONFLICT DO NOTHING.
InsertVersionAnyway(s) ==
  /\ pc[s] = "insert"
  /\ Goto(s, "commit")
  /\ UNCHANGED <<schemaVars, file, faults>>

\* The primary key of schema_migrations refuses a second row; the ROLLBACK undoes
\* the statements.
InsertVersion(s) ==
  /\ pc[s] = "insert"
  /\ Goto(s, IF file[s] \in versions THEN "failed" ELSE "commit")
  /\ UNCHANGED <<schemaVars, file, faults>>

\* COMMIT: statements and version together, whether or not the server hears of it.
Apply(s) ==
  /\ schema' = [schema EXCEPT ![file[s]] = @ + 1]
  /\ versions' = versions \cup {file[s]}
  /\ UNCHANGED tracked

CommitFile(s) ==
  /\ pc[s] = "commit"
  /\ Apply(s)
  /\ Goto(s, "check")
  /\ file' = [file EXCEPT ![s] = @ + 1]
  /\ UNCHANGED faults

\* The connection breaks while the COMMIT is under way, and it has taken effect.
CommitUnheard(s) ==
  /\ pc[s] = "commit"
  /\ Apply(s)
  /\ Goto(s, "failed")
  /\ faults' = TRUE
  /\ UNCHANGED file

\* A statement fails or the process is killed: its transaction is rolled back.
StopServer(s) ==
  /\ pc[s] \notin {"down", "failed", "stopped"}
  /\ Goto(s, "failed")
  /\ faults' = TRUE
  /\ UNCHANGED <<schemaVars, file>>

\* SIGTERM while serving: Shutdown, and run returns.
ShutdownServer(s) ==
  /\ pc[s] = "serving"
  /\ Goto(s, "stopped")
  /\ UNCHANGED <<schemaVars, file, faults>>

MigrateStep(s) ==
  \/ EnsureTable(s) \/ CreateTable(s) \/ CheckVersion(s)
  \/ ExecFile(s) \/ InsertVersion(s) \/ CommitFile(s)

MigrateNext ==
  \E s \in Servers :
    StartServer(s) \/ MigrateStep(s) \/ CommitUnheard(s) \/ StopServer(s) \/ ShutdownServer(s)

MigrateSpec == MigrateInit /\ [][MigrateNext]_migrateVars

--------------------------------------------------------------------------
(* Properties *)

\* Types; a server past its first statement has the table, and is at a file of its
\* release.
MigrateTypeOK ==
  /\ tracked \in BOOLEAN
  /\ versions \subseteq Migration
  /\ schema \in [Migration -> Nat]
  /\ pc \in [Servers -> {"down", "ensure", "create", "check", "exec", "insert", "commit",
                         "serving", "stopped", "failed"}]
  /\ file \in [Servers -> Nat \ {0}]
  /\ faults \in BOOLEAN
  /\ \A s \in Servers :
       /\ pc[s] \in {"check", "exec", "insert", "commit", "serving"} => tracked
       /\ pc[s] \in {"exec", "insert", "commit"} => file[s] <= Files[s]

\* However many servers start together, stop, lose the answer to a COMMIT and start
\* again, the statements of a file take effect once, exactly when its version is
\* recorded, and after those of every file before it.
AppliedOnceInOrder ==
  \A m \in Migration :
    /\ schema[m] = IF m \in versions THEN 1 ELSE 0
    /\ \A n \in Migration : m \in versions /\ n < m => n \in versions

\* A server takes requests only on a schema that has all that its release embeds,
\* also while servers of other releases start and stop.
ServesItsSchema ==
  \A s \in Servers :
    pc[s] = "serving" => \A m \in Migration : m <= Files[s] => schema[m] > 0

\* The race has a winner: unless something else fails, servers that start together do
\* not all give up because of one another.
SomebodyStarts ==
  ~ faults /\ (\E s \in Servers : pc[s] = "failed") =>
    \E s \in Servers : pc[s] \notin {"down", "failed"}
==========================================================================
