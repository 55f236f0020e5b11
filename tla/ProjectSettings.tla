--------------------------- MODULE ProjectSettings ---------------------------
(***************************************************************************)
(* PATCH /v1/projects/{id} (api/projects.go, store/projects.go): one       *)
(* request edits up to four columns of a project, in up to three           *)
(* statements outside any transaction.  The group URL and the links are    *)
(* written together: the one a request does not name is read first and     *)
(* written back.                                                           *)
(*                                                                         *)
(* A column's value is the edit that gave it, so that values are told      *)
(* apart by where they come from.                                          *)
(***************************************************************************)
EXTENDS Naturals

CONSTANTS
  Edits,    \* requests, each made once
  Asked,    \* bound: the sets of columns a request may name
  Created   \* the value of the columns of a new project

Columns == {"logo", "notes", "group", "links"}

Distribution == {"group", "links"}

ASSUME SettingsAssumption == Created \notin Edits /\ Asked \subseteq SUBSET Columns

VARIABLES
  exists,   \* the project is there
  project,  \* project[c]: the edit that gave column c its value
  edit      \* edit[e]: the request e

settingsVars == <<exists, project, edit>>

--------------------------------------------------------------------------
(* Data *)

\* names: the columns in the body; left: the steps to come; read: what GetProject
\* showed; before: history, the requests that were over when this one came.
NotMade == [status |-> "no", names |-> {}, left |-> {}, read |-> Created, before |-> {}]

\* The order of the steps in the code.
Rank == [logo |-> 1, notes |-> 2, read |-> 3, save |-> 4, answer |-> 5]

\* The steps of a request that names these columns.
Steps(names) ==
  (names \cap {"logo", "notes"}) \cup {"answer"}
    \cup (IF names \cap Distribution = {} THEN {}
          ELSE IF Distribution \subseteq names THEN {"save"} ELSE {"read", "save"})

SettingsInit ==
  /\ exists = TRUE
  /\ project = [c \in Columns |-> Created]
  /\ edit = [e \in Edits |-> NotMade]

Made == {e \in Edits : edit[e].status # "no"}

Over == {e \in Edits : edit[e].status \in {"ok", "failed"}}

At(e, step) ==
  /\ step \in edit[e].left
  /\ \A t \in edit[e].left : Rank[step] <= Rank[t]

\* The statement of a step finds the project, and the request goes on.
Pass(e, step) ==
  /\ At(e, step) /\ exists
  /\ edit' = [edit EXCEPT ![e].left = @ \ {step}]

--------------------------------------------------------------------------
(* Operations *)

\* The creator's request, decoded.
UpdateProject(e, names) ==
  /\ exists /\ edit[e] = NotMade
  /\ edit' = [edit EXCEPT ![e] = [status |-> "open", names |-> names, left |-> Steps(names),
                                  read |-> Created, before |-> Over]]
  /\ UNCHANGED <<exists, project>>

UpdateProjectLogo(e) ==
  /\ Pass(e, "logo")
  /\ project' = [project EXCEPT !["logo"] = e]
  /\ UNCHANGED exists

UpdateProjectMemberNotes(e) ==
  /\ Pass(e, "notes")
  /\ project' = [project EXCEPT !["notes"] = e]
  /\ UNCHANGED exists

\* GetProject, for the group URL or the links if only the other one is named.
ReadDistribution(e) ==
  /\ At(e, "read") /\ exists
  /\ \E c \in Distribution \ edit[e].names :
       edit' = [edit EXCEPT ![e].read = project[c], ![e].left = @ \ {"read"}]
  /\ UNCHANGED <<exists, project>>

\* Mutant of UpdateProjectDistribution: a column that is not named is cleared.
UpdateDistributionClearing(e) ==
  /\ Pass(e, "save")
  /\ project' = [c \in Columns |-> IF c \in edit[e].names THEN e
                                   ELSE IF c \in Distribution THEN Created
                                   ELSE project[c]]
  /\ UNCHANGED exists

UpdateProjectDistribution(e) ==
  /\ Pass(e, "save")
  /\ project' = [c \in Columns |-> IF c \notin Distribution THEN project[c]
                                   ELSE IF c \in edit[e].names THEN e
                                   ELSE edit[e].read]
  /\ UNCHANGED exists

\* The last GetProject, and 200.
Answer(e) ==
  /\ At(e, "answer") /\ exists
  /\ edit' = [edit EXCEPT ![e].status = "ok", ![e].left = {}]
  /\ UNCHANGED <<exists, project>>

\* The logo or the notes are refused, a statement fails, the project is gone or the
\* client went away: what the request wrote before stays.
FailEdit(e) ==
  /\ edit[e].status = "open"
  /\ edit' = [edit EXCEPT ![e].status = "failed", ![e].left = {}]
  /\ UNCHANGED <<exists, project>>

\* The creator's account is deleted.
DeleteProject ==
  /\ exists /\ exists' = FALSE
  /\ UNCHANGED <<project, edit>>

SettingsNext ==
  \/ \E e \in Edits :
       \/ \E names \in Asked : UpdateProject(e, names)
       \/ UpdateProjectLogo(e) \/ UpdateProjectMemberNotes(e)
       \/ ReadDistribution(e) \/ UpdateProjectDistribution(e)
       \/ Answer(e) \/ FailEdit(e)
  \/ DeleteProject

SettingsSpec == SettingsInit /\ [][SettingsNext]_settingsVars

--------------------------------------------------------------------------
(* Properties *)

\* What a request f can do to column c after e: nothing if it does not name it, unless
\* it ran beside e and writes back what it read.
Spares(f, c, e) ==
  /\ c \notin edit[f].names
  /\ \/ e \in edit[f].before
     \/ c \notin Distribution
     \/ edit[f].names \cap Distribution = {}

\* An answered edit lasts: a column keeps the value of a request that was answered 200
\* until another one names the column too, however many requests fail half-way or
\* write other columns, and unless one that writes the other of the group URL and the
\* links ran beside it (api/projects.go:160: that one may undo it).
EditLasts ==
  \A e \in Edits : \A c \in edit[e].names :
    /\ exists /\ edit[e].status = "ok"
    /\ \A f \in Made \ ({e} \cup edit[e].before) : Spares(f, c, e)
    => project[c] = e
==========================================================================
