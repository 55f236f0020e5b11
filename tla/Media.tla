-------------------------------- MODULE Media --------------------------------
(***************************************************************************)
(* Uploaded files (api/media.go) and the deletion of the account whose     *)
(* projects they belong to (deleteMe in api/safety.go, DeleteUser in       *)
(* store/safety.go).  The rows go in one transaction; the files, which no  *)
(* transaction covers, are removed after it, a directory per project.      *)
(***************************************************************************)
CONSTANTS
  Projects,  \* ids of the projects that one account may create
  Uploads    \* requests that upload a file, each made once

VARIABLES
  account,   \* the account is there
  rows,      \* rows[p]: the project's row
  upload,    \* upload[u]: the request u
  deletion,  \* the request that deletes the account
  dirs,      \* projects whose directory exists
  files,     \* uploads whose file exists
  outlived   \* history: projects whose files nobody removes any more

dbVars == <<account, rows>>
diskVars == <<dirs, files>>
mediaVars == <<dbVars, upload, deletion, diskVars, outlived>>

--------------------------------------------------------------------------
(* Data *)

NoUpload == [pc |-> "no"]

There == {p \in Projects : rows[p] = "there"}

FilesOf(p) == {u \in files : upload[u].project = p}

UnderWay == {u \in Uploads : upload[u].pc \in {"checked", "made", "copying"}}

MediaInit ==
  /\ account = TRUE
  /\ rows = [p \in Projects |-> "unborn"]
  /\ upload = [u \in Uploads |-> NoUpload]
  /\ deletion = [pc |-> "no", ids |-> {}]
  /\ dirs = {} /\ files = {} /\ outlived = {}

\* Also while the account is being deleted, after its projects were listed.
CreateProject(p) ==
  /\ account /\ rows[p] = "unborn"
  /\ rows' = [rows EXCEPT ![p] = "there"]
  /\ UNCHANGED <<account, upload, deletion, diskVars, outlived>>

--------------------------------------------------------------------------
(* uploadMedia *)

\* requireMember; the body may take two minutes to come.
BeginUpload(u, p) ==
  /\ upload[u] = NoUpload /\ p \in There
  /\ upload' = [upload EXCEPT ![u] = [pc |-> "checked", project |-> p]]
  /\ UNCHANGED <<dbVars, deletion, diskVars, outlived>>

\* MkdirAll, which asks nothing about the project: its files may have been removed.
MakeDir(u) ==
  LET p == upload[u].project IN
  /\ upload[u].pc = "checked"
  /\ dirs' = dirs \cup {p}
  /\ upload' = [upload EXCEPT ![u].pc = "made"]
  /\ outlived' = IF rows[p] = "gone" /\ p \notin deletion.ids THEN outlived \cup {p} ELSE outlived
  /\ UNCHANGED <<dbVars, deletion, files>>

\* os.Create: it needs the directory.
CreateFile(u) ==
  /\ upload[u].pc = "made"
  /\ IF upload[u].project \in dirs
       THEN files' = files \cup {u} /\ upload' = [upload EXCEPT ![u].pc = "copying"]
       ELSE upload' = [upload EXCEPT ![u].pc = "failed"] /\ UNCHANGED files
  /\ UNCHANGED <<dbVars, deletion, dirs, outlived>>

\* io.Copy is through, and 201, whether or not the file has been removed meanwhile.
AnswerUpload(u) ==
  /\ upload[u].pc = "copying"
  /\ upload' = [upload EXCEPT ![u].pc = "created"]
  /\ UNCHANGED <<dbVars, deletion, diskVars, outlived>>

\* The body or the file is refused, or the disk is full: what is on it stays.
FailUpload(u) ==
  /\ u \in UnderWay
  /\ upload' = [upload EXCEPT ![u].pc = "failed"]
  /\ UNCHANGED <<dbVars, deletion, diskVars, outlived>>

--------------------------------------------------------------------------
(* deleteMe *)

\* DeleteUser lists the projects ...
ListProjects ==
  /\ account /\ deletion.pc = "no"
  /\ deletion' = [pc |-> "listed", ids |-> There]
  /\ UNCHANGED <<dbVars, upload, diskVars, outlived>>

\* ... and deletes the ones there are by then, and the account.
DeleteRows ==
  /\ deletion.pc = "listed"
  /\ account' = FALSE
  /\ rows' = [p \in Projects |-> IF p \in There THEN "gone" ELSE rows[p]]

CommitDeletion ==
  /\ DeleteRows
  /\ deletion' = [deletion EXCEPT !.pc = "remove"]
  /\ outlived' = outlived \cup (There \ deletion.ids)
  /\ UNCHANGED <<upload, diskVars>>

\* The connection breaks while the COMMIT is under way, and it has taken effect: the
\* caller hears 500, and 404 when they try again.
CommitDeletionUnheard ==
  /\ DeleteRows
  /\ deletion' = [pc |-> "over", ids |-> {}]
  /\ outlived' = outlived \cup There
  /\ UNCHANGED <<upload, diskVars>>

\* A statement fails and the transaction is rolled back; the account may try again.
RollBackDeletion ==
  /\ deletion.pc = "listed"
  /\ deletion' = [pc |-> "no", ids |-> {}]
  /\ UNCHANGED <<dbVars, upload, diskVars, outlived>>

\* Mutant of RemoveMedia: the files go before the transaction is through.
RemoveMediaEarly(p) ==
  /\ deletion.pc \in {"listed", "remove"} /\ p \in deletion.ids
  /\ deletion' = [deletion EXCEPT !.ids = @ \ {p}]
  /\ dirs' = dirs \ {p}
  /\ files' = files \ FilesOf(p)
  /\ UNCHANGED <<dbVars, upload, outlived>>

\* os.RemoveAll of one of the projects that were listed.
RemoveMedia(p) ==
  /\ deletion.pc = "remove" /\ p \in deletion.ids
  /\ deletion' = [deletion EXCEPT !.ids = @ \ {p}]
  /\ dirs' = dirs \ {p}
  /\ files' = files \ FilesOf(p)
  /\ UNCHANGED <<dbVars, upload, outlived>>

\* It fails, and the error is ignored.
RemoveMediaFails(p) ==
  /\ deletion.pc = "remove" /\ p \in deletion.ids
  /\ deletion' = [deletion EXCEPT !.ids = @ \ {p}]
  /\ outlived' = outlived \cup {p}
  /\ UNCHANGED <<dbVars, upload, diskVars>>

\* The server stops: a transaction is rolled back, and nobody goes on removing.
StopMedia ==
  /\ deletion.pc = "listed" \/ deletion.ids # {} \/ UnderWay # {}
  /\ upload' = [u \in Uploads |-> IF u \in UnderWay THEN [upload[u] EXCEPT !.pc = "failed"]
                                  ELSE upload[u]]
  /\ outlived' = IF deletion.pc = "remove" THEN outlived \cup deletion.ids ELSE outlived
  /\ deletion' = [pc |-> IF deletion.pc = "listed" THEN "no" ELSE deletion.pc, ids |-> {}]
  /\ UNCHANGED <<dbVars, diskVars>>

MediaNext ==
  \/ \E p \in Projects : CreateProject(p) \/ RemoveMedia(p) \/ RemoveMediaFails(p)
  \/ \E u \in Uploads :
       \/ \E p \in Projects : BeginUpload(u, p)
       \/ MakeDir(u) \/ CreateFile(u) \/ AnswerUpload(u) \/ FailUpload(u)
  \/ ListProjects \/ CommitDeletion \/ CommitDeletionUnheard \/ RollBackDeletion
  \/ StopMedia

MediaSpec == MediaInit /\ [][MediaNext]_mediaVars

--------------------------------------------------------------------------
(* Properties *)

\* Files and rows, which no transaction joins, go together: a file that was answered
\* 201 is there as long as its project, however deletions fail; and when an account is
\* gone and its removals are over, so are its projects' files, those of failed uploads
\* too.  They stay only if nobody got to remove them (the server stopped, the answer to
\* the COMMIT was lost, RemoveAll failed), the project was created behind the list, or
\* the upload made the directory again after the removal.
FilesFollowProjects ==
  /\ \A u \in Uploads :
       upload[u].pc = "created" /\ rows[upload[u].project] = "there" => u \in files
  /\ \A u \in files :
       \/ rows[upload[u].project] = "there"
       \/ upload[u].project \in deletion.ids \cup outlived
==========================================================================
