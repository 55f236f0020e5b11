---------------------------- MODULE Projects_proofs ----------------------------
(***************************************************************************)
(* Proofs about what a project has besides its bugs and its people: its    *)
(* settings, for any requests that name any columns (ProjectSettings), and *)
(* the files of its media, for any projects and uploads (Media).           *)
(***************************************************************************)
EXTENDS ProjectSettings, Media, TLAPS

--------------------------------------------------------------------------
(* Settings. *)

\* The step that gives a column its value, and has been taken.
StepOf(c) == IF c \in Distribution THEN "save" ELSE c

Wrote(e, c) ==
  /\ c \in edit[e].names /\ edit[e].status \in {"open", "ok"}
  /\ StepOf(c) \notin edit[e].left

\* Nothing that was made can have undone what e gave c.
Spared(e, c) == \A f \in Made \ ({e} \cup edit[e].before) : Spares(f, c, e)

\* Types, as far as the proofs need them: nobody is over before it came, and what is
\* left to do is part of what there was to do.
RequestsOK ==
  /\ project \in [Columns -> Edits \cup {Created}]
  /\ edit \in [Edits -> [status : {"no", "open", "ok", "failed"},
                         names  : SUBSET Columns,
                         left   : SUBSET {"logo", "notes", "read", "save", "answer"},
                         read   : Edits \cup {Created},
                         before : SUBSET Edits]]
  /\ \A e \in Edits :
       /\ edit[e].before \subseteq Over
       /\ edit[e].status # "open" => edit[e].left = {}
       /\ edit[e].left \subseteq Steps(edit[e].names)
       /\ edit[e].status = "no" => edit[e].names = {}
       /\ e \notin edit[e].before

\* A value that nobody can have undone is there ...
Holds == \A e \in Edits, c \in Columns : Wrote(e, c) /\ Spared(e, c) => project[c] = e

\* ... and is what a request that came later writes back.
Reads ==
  \A e, f \in Edits, c \in Distribution :
    /\ Wrote(e, c) /\ Spared(e, c)
    /\ e \in edit[f].before /\ edit[f].status = "open"
    /\ "save" \in edit[f].left /\ "read" \notin edit[f].left
    /\ c \notin edit[f].names
    => edit[f].read = e

SInv == RequestsOK /\ Holds /\ Reads

\* What a request once was stays what it was.
Recorded ==
  \A f \in Made :
    f \in Made' /\ edit'[f].names = edit[f].names /\ edit'[f].before = edit[f].before

--------------------------------------------------------------------------
(* Requests *)

\* A column that is named has a step.
LEMMA NamedIsTaken ==
  ASSUME NEW names \in SUBSET Columns, NEW c \in names
  PROVE  StepOf(c) \in Steps(names)
BY DEF StepOf, Steps, Columns, Distribution

\* What is spared after a step was spared before it.
LEMMA SparedBefore ==
  ASSUME Recorded, NEW e \in Made, NEW c, Spared(e, c)'
  PROVE  Spared(e, c)
<1> SUFFICES ASSUME NEW f \in Made \ ({e} \cup edit[e].before) PROVE Spares(f, c, e)
  BY DEF Spared
<1>1. f \in Made' \ ({e} \cup edit'[e].before)
  BY DEF Recorded
<1>2. Spares(f, c, e)'
  BY <1>1 DEF Spared
<1>3. edit'[f].names = edit[f].names /\ edit'[f].before = edit[f].before
  BY DEF Recorded
<1> QED BY <1>2, <1>3 DEF Spares

LEMMA InitSInv == SettingsInit => SInv
<1> SUFFICES ASSUME SettingsInit PROVE SInv
  OBVIOUS
<1>1. RequestsOK
  BY DEF SettingsInit, RequestsOK, NotMade, Over
<1>2. Holds
  BY DEF SettingsInit, Holds, Wrote, NotMade
<1>3. Reads
  BY DEF SettingsInit, Reads, Wrote, NotMade
<1> QED BY <1>1, <1>2, <1>3 DEF SInv

\* A new request.
LEMMA UpdateProjectSInv ==
  ASSUME SInv, NEW g \in Edits, NEW names \in Asked, UpdateProject(g, names)
  PROVE  SInv'
<1> USE DEF UpdateProject
<1>1. names \subseteq Columns
  BY SettingsAssumption
<1>2. /\ edit' = [edit EXCEPT ![g] = [status |-> "open", names |-> names, left |-> Steps(names),
                                      read |-> Created, before |-> Over]]
      /\ edit[g].status = "no" /\ edit[g].left = {}
      /\ project' = project
  BY DEF NotMade
<1>3. RequestsOK
  BY DEF SInv
<1>4. g \notin Over /\ g \notin Made
  BY <1>2 DEF Over, Made
<1>5. \A f \in Edits \ {g} : edit'[f] = edit[f]
  BY <1>2, <1>3 DEF RequestsOK
<1>6. edit'[g] = [status |-> "open", names |-> names, left |-> Steps(names),
                  read |-> Created, before |-> Over]
  BY <1>2, <1>3 DEF RequestsOK
<1>7. RequestsOK'
  <2>1. Over' = Over
    BY <1>4, <1>5, <1>6 DEF Over
  <2>2. Steps(names) \subseteq {"logo", "notes", "read", "save", "answer"} /\ Over \subseteq Edits
    BY <1>1 DEF Steps, Over
  <2>3. edit' \in [Edits -> [status : {"no", "open", "ok", "failed"},
                             names  : SUBSET Columns,
                             left   : SUBSET {"logo", "notes", "read", "save", "answer"},
                             read   : Edits \cup {Created},
                             before : SUBSET Edits]]
    BY <1>1, <1>2, <1>3, <2>2 DEF RequestsOK
  <2> QED BY <1>2, <1>3, <1>4, <1>5, <1>6, <2>1, <2>3 DEF RequestsOK
<1>8. Recorded
  BY <1>4, <1>5 DEF Recorded, Made
<1>9. ASSUME NEW e \in Edits, NEW c \in Columns, Wrote(e, c)', Spared(e, c)'
      PROVE  e # g /\ Wrote(e, c) /\ Spared(e, c)
  <2>1. e # g
    BY <1>1, <1>6, <1>9, NamedIsTaken DEF Wrote
  <2>2. Wrote(e, c)
    BY <2>1, <1>5, <1>9 DEF Wrote
  <2>3. e \in Made
    BY <2>2 DEF Wrote, Made
  <2> QED BY <1>8, <1>9, <2>1, <2>2, <2>3, SparedBefore
<1>10. Holds'
  BY <1>2, <1>9 DEF SInv, Holds
<1>11. Reads'
  <2> SUFFICES ASSUME NEW e \in Edits, NEW f \in Edits, NEW c \in Distribution,
                      Wrote(e, c)', Spared(e, c)',
                      e \in edit'[f].before, edit'[f].status = "open",
                      "save" \in edit'[f].left, "read" \notin edit'[f].left,
                      c \notin edit'[f].names
               PROVE  edit'[f].read = e
    BY DEF Reads
  <2>1. f # g
    BY <1>6 DEF Steps, Distribution
  <2>2. edit'[f] = edit[f]
    BY <2>1, <1>5
  <2>3. c \in Columns
    BY DEF Columns, Distribution
  <2> QED BY <1>9, <2>2, <2>3 DEF SInv, Reads
<1> QED BY <1>7, <1>10, <1>11 DEF SInv

\* A step of g that leaves its name, its columns and its past alone.
Moves(g) ==
  /\ \A f \in Edits \ {g} : edit'[f] = edit[f]
  /\ edit[g].status = "open"
  /\ edit'[g].names = edit[g].names /\ edit'[g].before = edit[g].before
  /\ edit'[g].status # "no"

LEMMA MovesRecords ==
  ASSUME NEW g \in Edits, Moves(g) PROVE Recorded
BY DEF Moves, Recorded, Made

\* Two invariants after such a step: who wrote before it still did, and nobody that was
\* over moves.
LEMMA MovesOthers ==
  ASSUME SInv, NEW g \in Edits, Moves(g), NEW e \in Edits \ {g}, NEW c,
         Wrote(e, c)', Spared(e, c)'
  PROVE  /\ Wrote(e, c) /\ Spared(e, c)
         /\ g \in Made \ ({e} \cup edit[e].before)
<1>1. edit'[e] = edit[e]
  BY DEF Moves
<1>2. Wrote(e, c)
  BY <1>1 DEF Wrote
<1>3. e \in Made /\ g \in Made
  BY <1>2 DEF Wrote, Made, Moves
<1>4. g \notin Over
  BY DEF Moves, Over
<1>5. g \notin edit[e].before
  BY <1>4 DEF SInv, RequestsOK
<1> QED BY <1>2, <1>3, <1>5, MovesRecords, SparedBefore

LEMMA MovesReads ==
  ASSUME SInv, NEW g \in Edits, Moves(g),
         edit'[g].left \subseteq edit[g].left,
         \/ edit'[g].read = edit[g].read /\ ("read" \in edit[g].left => "read" \in edit'[g].left)
         \/ edit'[g].status # "open"
         \/ "save" \notin edit'[g].left
  PROVE  Reads'
<1> SUFFICES ASSUME NEW e \in Edits, NEW f \in Edits, NEW c \in Distribution,
                    Wrote(e, c)', Spared(e, c)',
                    e \in edit'[f].before, edit'[f].status = "open",
                    "save" \in edit'[f].left, "read" \notin edit'[f].left,
                    c \notin edit'[f].names
             PROVE  edit'[f].read = e
  BY DEF Reads
<1>1. edit'[f].before = edit[f].before /\ edit'[f].names = edit[f].names
  BY DEF Moves
<1>2. e # g
  BY <1>1 DEF SInv, RequestsOK, Over, Moves
<1>3. Wrote(e, c) /\ Spared(e, c)
  BY <1>2, MovesOthers
<1>4. /\ edit[f].status = "open" /\ "save" \in edit[f].left /\ "read" \notin edit[f].left
      /\ edit'[f].read = edit[f].read
  BY DEF Moves
<1> QED BY <1>1, <1>3, <1>4 DEF SInv, Reads

\* Types after such a step.
LEMMA MovesRequests ==
  ASSUME SInv, NEW g \in Edits, Moves(g),
         edit'[g].left \subseteq edit[g].left,
         edit'[g].status # "open" => edit'[g].left = {},
         edit' \in [Edits -> [status : {"no", "open", "ok", "failed"},
                              names  : SUBSET Columns,
                              left   : SUBSET {"logo", "notes", "read", "save", "answer"},
                              read   : Edits \cup {Created},
                              before : SUBSET Edits]],
         project' \in [Columns -> Edits \cup {Created}]
  PROVE  RequestsOK'
<1>1. Over \subseteq Over'
  BY DEF Over, Moves
<1>2. RequestsOK
  BY DEF SInv
<1>3. ASSUME NEW e \in Edits
      PROVE  /\ edit'[e].before \subseteq Over'
             /\ edit'[e].status # "open" => edit'[e].left = {}
             /\ edit'[e].left \subseteq Steps(edit'[e].names)
             /\ edit'[e].status = "no" => edit'[e].names = {}
             /\ e \notin edit'[e].before
  <2>1. CASE e = g
    BY <2>1, <1>1, <1>2 DEF RequestsOK, Moves
  <2>2. CASE e # g
    BY <2>2, <1>1, <1>2 DEF RequestsOK, Moves
  <2> QED BY <2>1, <2>2
<1> QED BY <1>3 DEF RequestsOK

--------------------------------------------------------------------------
(* Steps *)

\* A statement that writes: the columns that g wrote by it are g's, and the others are
\* what they were, unless g does not name them and they are written back.
LEMMA PassSInv ==
  ASSUME SInv, NEW g \in Edits, NEW step \in {"logo", "notes", "save"}, Pass(g, step),
         project' \in [Columns -> Edits \cup {Created}],
         \A c \in Columns :
           \/ StepOf(c) # step /\ project'[c] = project[c]
           \/ StepOf(c) = step /\ c \in edit[g].names /\ project'[c] = g
           \/ /\ step = "save" /\ c \in Distribution \ edit[g].names
              /\ project'[c] = edit[g].read
  PROVE  SInv'
<1>1. RequestsOK
  BY DEF SInv
<1>2. edit[g].status = "open"
  BY <1>1 DEF Pass, At, RequestsOK
<1>3. edit'[g] = [edit[g] EXCEPT !.left = edit[g].left \ {step}]
  BY <1>1 DEF Pass, RequestsOK
<1>4. /\ edit'[g].left = edit[g].left \ {step} /\ edit'[g].names = edit[g].names
      /\ edit'[g].status = "open" /\ edit'[g].before = edit[g].before
      /\ edit'[g].read = edit[g].read
  BY <1>1, <1>2, <1>3 DEF RequestsOK
<1>5. Moves(g)
  BY <1>1, <1>2, <1>4 DEF Moves, Pass, RequestsOK
<1>6. edit' \in [Edits -> [status : {"no", "open", "ok", "failed"},
                           names  : SUBSET Columns,
                           left   : SUBSET {"logo", "notes", "read", "save", "answer"},
                           read   : Edits \cup {Created},
                           before : SUBSET Edits]]
  BY <1>1 DEF Pass, RequestsOK
<1>7. RequestsOK'
  BY <1>4, <1>5, <1>6, MovesRequests
<1>8. Holds'
  <2> SUFFICES ASSUME NEW e \in Edits, NEW c \in Columns, Wrote(e, c)', Spared(e, c)'
               PROVE  project'[c] = e
    BY DEF Holds
  <2>1. CASE e = g
    <3>1. c \in edit[g].names
      BY <2>1, <1>4 DEF Wrote
    <3>2. CASE StepOf(c) = step
      BY <2>1, <3>1, <3>2
    <3>3. CASE StepOf(c) # step
      <4>1. Wrote(g, c)
        BY <2>1, <3>3, <1>2, <1>4 DEF Wrote
      <4>2. g \in Made
        BY <1>2 DEF Made
      <4>3. Spared(g, c)
        BY <2>1, <4>2, <1>5, MovesRecords, SparedBefore
      <4>4. project'[c] = project[c]
        BY <3>1, <3>3
      <4> QED BY <2>1, <4>1, <4>3, <4>4 DEF SInv, Holds
    <3> QED BY <3>2, <3>3
  <2>2. CASE e # g
    <3>1. Wrote(e, c) /\ Spared(e, c) /\ g \in Made \ ({e} \cup edit[e].before)
      BY <2>2, <1>5, MovesOthers
    <3>2. project[c] = e
      BY <3>1 DEF SInv, Holds
    <3>3. Spares(g, c, e)
      BY <3>1 DEF Spared
    <3>4. c \notin edit[g].names
      BY <3>3 DEF Spares
    <3>5. CASE project'[c] = project[c]
      BY <3>2, <3>5
    <3>6. CASE /\ step = "save" /\ c \in Distribution \ edit[g].names
               /\ project'[c] = edit[g].read
      <4>1. "save" \in edit[g].left /\ "read" \notin edit[g].left
        BY <3>6 DEF Pass, At, Rank
      <4>2. edit[g].names \cap Distribution # {}
        BY <4>1, <1>1 DEF RequestsOK, Steps
      <4>3. e \in edit[g].before
        BY <3>3, <3>6, <4>2 DEF Spares
      <4> QED BY <1>2, <3>1, <3>6, <4>1, <4>3 DEF SInv, Reads
    <3> QED BY <3>4, <3>5, <3>6
  <2> QED BY <2>1, <2>2
<1>9. Reads'
  BY <1>4, <1>5, MovesReads
<1> QED BY <1>7, <1>8, <1>9 DEF SInv

LEMMA UpdateProjectLogoSInv ==
  ASSUME SInv, NEW g \in Edits, UpdateProjectLogo(g)
  PROVE  SInv'
<1>1. project \in [Columns -> Edits \cup {Created}] /\ "logo" \in edit[g].left
  BY DEF SInv, RequestsOK, UpdateProjectLogo, Pass, At
<1>2. "logo" \in edit[g].names
  BY <1>1 DEF SInv, RequestsOK, Steps
<1>3. project' = [project EXCEPT !["logo"] = g] /\ Pass(g, "logo")
  BY DEF UpdateProjectLogo
<1>4. project' \in [Columns -> Edits \cup {Created}]
  BY <1>1, <1>3
<1>5. \A c \in Columns :
        \/ StepOf(c) # "logo" /\ project'[c] = project[c]
        \/ StepOf(c) = "logo" /\ c \in edit[g].names /\ project'[c] = g
  BY <1>1, <1>2, <1>3 DEF StepOf, Columns, Distribution
<1> QED BY <1>3, <1>4, <1>5, PassSInv

LEMMA UpdateProjectMemberNotesSInv ==
  ASSUME SInv, NEW g \in Edits, UpdateProjectMemberNotes(g)
  PROVE  SInv'
<1>1. project \in [Columns -> Edits \cup {Created}] /\ "notes" \in edit[g].left
  BY DEF SInv, RequestsOK, UpdateProjectMemberNotes, Pass, At
<1>2. "notes" \in edit[g].names
  BY <1>1 DEF SInv, RequestsOK, Steps
<1>3. project' = [project EXCEPT !["notes"] = g] /\ Pass(g, "notes")
  BY DEF UpdateProjectMemberNotes
<1>4. project' \in [Columns -> Edits \cup {Created}]
  BY <1>1, <1>3
<1>5. \A c \in Columns :
        \/ StepOf(c) # "notes" /\ project'[c] = project[c]
        \/ StepOf(c) = "notes" /\ c \in edit[g].names /\ project'[c] = g
  BY <1>1, <1>2, <1>3 DEF StepOf, Columns, Distribution
<1> QED BY <1>3, <1>4, <1>5, PassSInv

LEMMA UpdateProjectDistributionSInv ==
  ASSUME SInv, NEW g \in Edits, UpdateProjectDistribution(g)
  PROVE  SInv'
<1>1. /\ project \in [Columns -> Edits \cup {Created}]
      /\ edit[g].read \in Edits \cup {Created}
  BY DEF SInv, RequestsOK
<1>2. /\ Pass(g, "save")
      /\ project' = [c \in Columns |-> IF c \notin Distribution THEN project[c]
                                       ELSE IF c \in edit[g].names THEN g
                                       ELSE edit[g].read]
  BY DEF UpdateProjectDistribution
<1>3. project' \in [Columns -> Edits \cup {Created}]
  BY <1>1, <1>2
<1>4. \A c \in Columns :
        \/ StepOf(c) # "save" /\ project'[c] = project[c]
        \/ StepOf(c) = "save" /\ c \in edit[g].names /\ project'[c] = g
        \/ c \in Distribution \ edit[g].names /\ project'[c] = edit[g].read
  BY <1>2 DEF StepOf, Columns
<1> QED BY <1>2, <1>3, <1>4, PassSInv

\* A step that writes no column.
LEMMA QuietSInv ==
  ASSUME SInv, NEW g \in Edits, Moves(g), project' = project, Reads',
         edit'[g].left \subseteq edit[g].left,
         edit'[g].status # "open" => edit'[g].left = {},
         edit'[g].status = "failed" \/ edit[g].left \subseteq edit'[g].left \cup {"read", "answer"},
         edit' \in [Edits -> [status : {"no", "open", "ok", "failed"},
                              names  : SUBSET Columns,
                              left   : SUBSET {"logo", "notes", "read", "save", "answer"},
                              read   : Edits \cup {Created},
                              before : SUBSET Edits]]
  PROVE  SInv'
<1>1. RequestsOK'
  BY MovesRequests DEF SInv, RequestsOK
<1>2. Holds'
  <2> SUFFICES ASSUME NEW e \in Edits, NEW c \in Columns, Wrote(e, c)', Spared(e, c)'
               PROVE  project'[c] = e
    BY DEF Holds
  <2>1. Wrote(e, c)
    <3>1. CASE e = g
      BY <3>1 DEF Wrote, Moves, StepOf, Columns, Distribution
    <3>2. CASE e # g
      BY <3>2, MovesOthers
    <3> QED BY <3>1, <3>2
  <2>2. e \in Made
    BY <2>1 DEF Wrote, Made
  <2>3. Spared(e, c)
    BY <2>2, MovesRecords, SparedBefore
  <2> QED BY <2>1, <2>3 DEF SInv, Holds
<1> QED BY <1>1, <1>2 DEF SInv

LEMMA ReadDistributionSInv ==
  ASSUME SInv, NEW g \in Edits, ReadDistribution(g)
  PROVE  SInv'
<1>1. RequestsOK /\ project' = project /\ "read" \in edit[g].left
  BY DEF SInv, ReadDistribution, At
<1>2. PICK k \in Distribution \ edit[g].names :
        edit' = [edit EXCEPT ![g].read = project[k], ![g].left = @ \ {"read"}]
  BY DEF ReadDistribution
<1>3. edit[g].status = "open" /\ edit[g].names \cap Distribution # {}
  BY <1>1 DEF RequestsOK, Steps
<1>4. k \in Columns
  BY DEF Columns, Distribution
<1>5. /\ edit'[g].left = edit[g].left \ {"read"} /\ edit'[g].names = edit[g].names
      /\ edit'[g].status = "open" /\ edit'[g].before = edit[g].before
      /\ edit'[g].read = project[k]
  BY <1>1, <1>2, <1>3 DEF RequestsOK
<1>6. Moves(g)
  BY <1>1, <1>2, <1>3, <1>5 DEF Moves, RequestsOK
<1>7. project[k] \in Edits \cup {Created}
  BY <1>1, <1>4 DEF RequestsOK
<1>8. edit' \in [Edits -> [status : {"no", "open", "ok", "failed"},
                           names  : SUBSET Columns,
                           left   : SUBSET {"logo", "notes", "read", "save", "answer"},
                           read   : Edits \cup {Created},
                           before : SUBSET Edits]]
  BY <1>1, <1>2, <1>7 DEF RequestsOK
<1>9. Reads'
  <2> SUFFICES ASSUME NEW e \in Edits, NEW f \in Edits, NEW c \in Distribution,
                      Wrote(e, c)', Spared(e, c)',
                      e \in edit'[f].before, edit'[f].status = "open",
                      "save" \in edit'[f].left, "read" \notin edit'[f].left,
                      c \notin edit'[f].names
               PROVE  edit'[f].read = e
    BY DEF Reads
  <2>1. e # g
    BY <1>1, <1>3, <1>6 DEF RequestsOK, Over, Moves
  <2>2. Wrote(e, c) /\ Spared(e, c) /\ c \in Columns
    BY <2>1, <1>6, MovesOthers DEF Columns, Distribution
  <2>3. CASE f = g
    <3>1. c = k
      BY <2>3, <1>3, <1>5 DEF Distribution
    <3> QED BY <2>2, <2>3, <3>1, <1>5 DEF SInv, Holds
  <2>4. CASE f # g
    BY <2>2, <2>4, <1>6 DEF Moves, SInv, Reads
  <2> QED BY <2>3, <2>4
<1> QED BY <1>1, <1>5, <1>6, <1>8, <1>9, QuietSInv

LEMMA AnswerSInv ==
  ASSUME SInv, NEW g \in Edits, Answer(g)
  PROVE  SInv'
<1>1. RequestsOK /\ project' = project /\ "answer" \in edit[g].left
      /\ edit' = [edit EXCEPT ![g].status = "ok", ![g].left = {}]
  BY DEF SInv, Answer, At
<1>2. edit[g].left \subseteq {"answer"}
  BY <1>1 DEF RequestsOK, Answer, At, Rank
<1>3. edit[g].status = "open"
  BY <1>1 DEF RequestsOK
<1>4. /\ edit'[g].left = {} /\ edit'[g].names = edit[g].names
      /\ edit'[g].status = "ok" /\ edit'[g].before = edit[g].before
  BY <1>1 DEF RequestsOK
<1>5. Moves(g)
  BY <1>1, <1>3, <1>4 DEF Moves, RequestsOK
<1>6. edit' \in [Edits -> [status : {"no", "open", "ok", "failed"},
                           names  : SUBSET Columns,
                           left   : SUBSET {"logo", "notes", "read", "save", "answer"},
                           read   : Edits \cup {Created},
                           before : SUBSET Edits]]
  BY <1>1 DEF RequestsOK
<1>7. Reads'
  BY <1>4, <1>5, MovesReads
<1> QED BY <1>1, <1>2, <1>4, <1>5, <1>6, <1>7, QuietSInv

LEMMA FailEditSInv ==
  ASSUME SInv, NEW g \in Edits, FailEdit(g)
  PROVE  SInv'
<1>1. RequestsOK /\ project' = project /\ edit[g].status = "open"
      /\ edit' = [edit EXCEPT ![g].status = "failed", ![g].left = {}]
  BY DEF SInv, FailEdit
<1>2. /\ edit'[g].left = {} /\ edit'[g].names = edit[g].names
      /\ edit'[g].status = "failed" /\ edit'[g].before = edit[g].before
  BY <1>1 DEF RequestsOK
<1>3. Moves(g)
  BY <1>1, <1>2 DEF Moves, RequestsOK
<1>4. edit' \in [Edits -> [status : {"no", "open", "ok", "failed"},
                           names  : SUBSET Columns,
                           left   : SUBSET {"logo", "notes", "read", "save", "answer"},
                           read   : Edits \cup {Created},
                           before : SUBSET Edits]]
  <2>1. [edit[g] EXCEPT !.status = "failed", !.left = {}] \in
          [status : {"no", "open", "ok", "failed"},
           names  : SUBSET Columns,
           left   : SUBSET {"logo", "notes", "read", "save", "answer"},
           read   : Edits \cup {Created},
           before : SUBSET Edits]
    BY <1>1 DEF RequestsOK
  <2>2. edit' = [edit EXCEPT ![g] = [edit[g] EXCEPT !.status = "failed", !.left = {}]]
    BY <1>1
  <2> QED BY <1>1, <2>1, <2>2 DEF RequestsOK
<1>5. Reads'
  BY <1>2, <1>3, MovesReads
<1>6. /\ edit'[g].left \subseteq edit[g].left
      /\ edit'[g].status = "failed" \/ edit[g].left \subseteq edit'[g].left \cup {"read", "answer"}
      /\ edit'[g].status # "open" => edit'[g].left = {}
  BY <1>2
<1> QED BY <1>1, <1>3, <1>4, <1>5, <1>6, QuietSInv

LEMMA SameSInv ==
  ASSUME SInv, UNCHANGED <<project, edit>>
  PROVE  SInv'
BY DEF SInv, RequestsOK, Holds, Reads, Wrote, Spared, Spares, Made, Over

--------------------------------------------------------------------------
(* Theorems *)

\* The inductive invariant: a value that no other request can have undone is in its
\* column, and in the hands of every later request that will write it back.
THEOREM SInductive == SettingsSpec => []SInv
<1>1. SettingsInit => SInv
  BY InitSInv
<1>2. ASSUME SInv, [SettingsNext]_settingsVars PROVE SInv'
  <2>1. ASSUME NEW e \in Edits, NEW names \in Asked, UpdateProject(e, names) PROVE SInv'
    BY <1>2, <2>1, UpdateProjectSInv
  <2>2. ASSUME NEW e \in Edits, UpdateProjectLogo(e) PROVE SInv'
    BY <1>2, <2>2, UpdateProjectLogoSInv
  <2>3. ASSUME NEW e \in Edits, UpdateProjectMemberNotes(e) PROVE SInv'
    BY <1>2, <2>3, UpdateProjectMemberNotesSInv
  <2>4. ASSUME NEW e \in Edits, ReadDistribution(e) PROVE SInv'
    BY <1>2, <2>4, ReadDistributionSInv
  <2>5. ASSUME NEW e \in Edits, UpdateProjectDistribution(e) PROVE SInv'
    BY <1>2, <2>5, UpdateProjectDistributionSInv
  <2>6. ASSUME NEW e \in Edits, Answer(e) PROVE SInv'
    BY <1>2, <2>6, AnswerSInv
  <2>7. ASSUME NEW e \in Edits, FailEdit(e) PROVE SInv'
    BY <1>2, <2>7, FailEditSInv
  <2>8. CASE DeleteProject
    BY <1>2, <2>8, SameSInv DEF DeleteProject
  <2>9. CASE UNCHANGED settingsVars
    BY <1>2, <2>9, SameSInv DEF settingsVars
  <2> QED BY <1>2, <2>1, <2>2, <2>3, <2>4, <2>5, <2>6, <2>7, <2>8, <2>9 DEF SettingsNext
<1> QED BY <1>1, <1>2, PTL DEF SettingsSpec

\* PATCH /v1/projects/{id}: for any number of requests, an answered edit lasts until
\* another request names its column, whatever fails half-way.
THEOREM EditLastsHolds == SettingsSpec => []EditLasts
<1>1. ASSUME SInv PROVE EditLasts
  <2> SUFFICES ASSUME NEW e \in Edits, NEW c \in edit[e].names,
                      edit[e].status = "ok", Spared(e, c)
               PROVE  project[c] = e
    BY DEF EditLasts, Spared
  <2>1. Wrote(e, c) /\ c \in Columns
    BY <1>1 DEF SInv, RequestsOK, Wrote
  <2> QED BY <1>1, <2>1 DEF SInv, Holds
<1> QED BY <1>1, SInductive, PTL

--------------------------------------------------------------------------
(* Files. *)

UploadSet ==
  {NoUpload} \cup [pc : {"checked", "made", "copying", "created", "failed"}, project : Projects]

Types ==
  /\ account \in BOOLEAN
  /\ rows \in [Projects -> {"unborn", "there", "gone"}]
  /\ upload \in [Uploads -> UploadSet]
  /\ deletion \in [pc : {"no", "listed", "remove", "over"}, ids : SUBSET Projects]
  /\ dirs \subseteq Projects
  /\ files \subseteq Uploads
  /\ outlived \subseteq Projects

\* How far the deletion is, told by the rows; and an upload's project was there once.
Stage ==
  /\ ~ account => There = {}
  /\ deletion.pc \in {"remove", "over"} => ~ account
  /\ deletion.pc = "listed" => deletion.ids \subseteq There
  /\ deletion.pc \in {"no", "over"} => deletion.ids = {}
  /\ \A u \in Uploads : upload[u] # NoUpload => rows[upload[u].project] # "unborn"

\* A directory has its project, or somebody who will remove it, or is known to be left.
DirsOwned == \A p \in dirs : rows[p] = "there" \/ p \in deletion.ids \cup outlived

\* A file is in its directory, and there as long as its project.
FilesKept ==
  /\ \A u \in files : upload[u] # NoUpload /\ upload[u].project \in dirs
  /\ \A u \in Uploads :
       /\ upload[u].pc \in {"copying", "created"}
       /\ rows[upload[u].project] = "there"
       => u \in files

FInv == Types /\ Stage /\ DirsOwned /\ FilesKept

LEMMA InitFInv == MediaInit => FInv
<1> SUFFICES ASSUME MediaInit PROVE FInv
  OBVIOUS
<1> USE DEF MediaInit
<1>1. account \in BOOLEAN
  BY Zenon
<1>2. Types
  BY <1>1 DEF Types, UploadSet
<1>3. Stage
  BY DEF Stage, There
<1>4. DirsOwned
  BY DEF DirsOwned
<1>5. FilesKept
  BY DEF FilesKept, NoUpload
<1> QED BY <1>2, <1>3, <1>4, <1>5 DEF FInv

LEMMA CreateProjectFInv ==
  ASSUME FInv, NEW p \in Projects, CreateProject(p) PROVE FInv'
<1> USE DEF FInv, CreateProject
<1>1. /\ rows' = [rows EXCEPT ![p] = "there"] /\ rows \in [Projects -> {"unborn", "there", "gone"}]
      /\ rows[p] = "unborn" /\ account
      /\ UNCHANGED <<account, upload, deletion, dirs, files, outlived>>
  BY DEF Types, diskVars
<1>2. Types'
  <2>1. rows' \in [Projects -> {"unborn", "there", "gone"}]
    BY <1>1
  <2>2. account' \in BOOLEAN
    BY <1>1, Zenon DEF Types
  <2> QED BY <1>1, <2>1, <2>2 DEF Types
<1>3. There \subseteq There'
  BY <1>1 DEF There
<1>4. Stage'
  BY <1>1, <1>3 DEF Stage, UploadSet, Types
<1>5. DirsOwned'
  BY <1>1 DEF DirsOwned
<1>6. FilesKept'
  <2> SUFFICES ASSUME NEW u \in Uploads, upload[u].pc \in {"copying", "created"},
                      rows'[upload[u].project] = "there"
               PROVE  u \in files
    BY <1>1 DEF FilesKept
  <2>1. upload[u] # NoUpload
    BY DEF NoUpload
  <2>2. upload[u].project # p
    BY <1>1, <2>1 DEF Stage
  <2>3. upload[u].project \in Projects
    BY <2>1 DEF Types, UploadSet
  <2>4. rows[upload[u].project] = "there"
    BY <1>1, <2>2, <2>3
  <2> QED BY <2>4 DEF FilesKept
<1> QED BY <1>2, <1>4, <1>5, <1>6 DEF FInv

\* A step of one upload, which moves it on and touches no row.
LEMMA UploadFInv ==
  ASSUME FInv, NEW u \in Uploads,
         NEW r \in [pc : {"checked", "made", "copying", "created", "failed"}, project : Projects],
         upload' = [upload EXCEPT ![u] = r],
         UNCHANGED <<account, rows, deletion>>,
         rows[r.project] # "unborn",
         upload[u] # NoUpload => r.project = upload[u].project,
         dirs \subseteq dirs', dirs' \subseteq Projects,
         outlived \subseteq outlived', outlived' \subseteq Projects,
         \A p \in dirs' \ dirs : rows[p] = "there" \/ p \in deletion.ids \cup outlived',
         files \subseteq files', files' \subseteq files \cup {u},
         u \in files' \ files => r.project \in dirs',
         r.pc \in {"copying", "created"} => u \in files' \/ upload[u].pc = "copying"
  PROVE  FInv'
<1> USE DEF FInv
<1>1. upload'[u] = r /\ \A v \in Uploads \ {u} : upload'[v] = upload[v]
  BY DEF Types
<1>2. r # NoUpload
  BY DEF NoUpload
<1>3. Types'
  <2>1. upload' \in [Uploads -> UploadSet]
    BY DEF Types, UploadSet
  <2>2. account' \in BOOLEAN
    BY Zenon DEF Types
  <2> QED BY <2>1, <2>2 DEF Types
<1>4. Stage'
  BY <1>1 DEF Stage, There
<1>5. DirsOwned'
  BY DEF DirsOwned
<1>6. FilesKept'
  <2>1. ASSUME NEW v \in files' PROVE upload'[v] # NoUpload /\ upload'[v].project \in dirs'
    <3>1. CASE v = u
      BY <3>1, <1>1, <1>2 DEF FilesKept
    <3>2. CASE v # u
      BY <3>2, <1>1, <1>3 DEF FilesKept, Types
    <3> QED BY <3>1, <3>2
  <2>2. ASSUME NEW v \in Uploads, upload'[v].pc \in {"copying", "created"},
               rows'[upload'[v].project] = "there"
        PROVE  v \in files'
    <3>1. CASE v = u
      <4>1. CASE upload[u].pc = "copying"
        BY <3>1, <4>1, <2>2, <1>1 DEF FilesKept, NoUpload
      <4> QED BY <3>1, <4>1, <2>2, <1>1
    <3>2. CASE v # u
      BY <3>2, <2>2, <1>1 DEF FilesKept
    <3> QED BY <3>1, <3>2
  <2> QED BY <2>1, <2>2 DEF FilesKept
<1> QED BY <1>3, <1>4, <1>5, <1>6

\* A request that has passed requireMember.
LEMMA BegunUpload ==
  ASSUME FInv, NEW u \in Uploads, upload[u].pc # "no"
  PROVE  /\ upload[u] # NoUpload
         /\ upload[u].project \in Projects
         /\ rows[upload[u].project] # "unborn"
         /\ upload[u] \in [pc : {"checked", "made", "copying", "created", "failed"},
                           project : Projects]
<1>1. upload[u] # NoUpload
  BY DEF NoUpload
<1> QED BY <1>1 DEF FInv, Types, Stage, UploadSet

LEMMA BeginUploadFInv ==
  ASSUME FInv, NEW u \in Uploads, NEW p \in Projects, BeginUpload(u, p) PROVE FInv'
<1> DEFINE r == [pc |-> "checked", project |-> p]
<1>1. r \in [pc : {"checked", "made", "copying", "created", "failed"}, project : Projects]
  OBVIOUS
<1>2. /\ upload' = [upload EXCEPT ![u] = r] /\ upload[u] = NoUpload /\ rows[p] = "there"
      /\ UNCHANGED <<account, rows, deletion, dirs, files, outlived>>
  BY DEF BeginUpload, dbVars, diskVars, There
<1>3. dirs \subseteq Projects /\ outlived \subseteq Projects
  BY DEF FInv, Types
<1>4. r.pc = "checked" /\ r.project = p
  OBVIOUS
<1> HIDE DEF r
<1> QED BY <1>1, <1>2, <1>3, <1>4, UploadFInv

LEMMA MakeDirFInv ==
  ASSUME FInv, NEW u \in Uploads, MakeDir(u) PROVE FInv'
<1> DEFINE r == [upload[u] EXCEPT !.pc = "made"]
<1>1. upload[u].pc = "checked"
  BY DEF MakeDir
<1>2. /\ upload[u] # NoUpload /\ upload[u].project \in Projects
      /\ rows[upload[u].project] \in {"there", "gone"}
      /\ upload[u] \in [pc : {"checked", "made", "copying", "created", "failed"},
                        project : Projects]
  BY <1>1, BegunUpload DEF FInv, Types
<1>3. /\ r \in [pc : {"checked", "made", "copying", "created", "failed"}, project : Projects]
      /\ r.pc = "made" /\ r.project = upload[u].project
  BY <1>2
<1>4. /\ upload' = [upload EXCEPT ![u] = r]
      /\ UNCHANGED <<account, rows, deletion, files>>
      /\ dirs' = dirs \cup {upload[u].project}
      /\ outlived' = IF rows[upload[u].project] = "gone" /\ upload[u].project \notin deletion.ids
                       THEN outlived \cup {upload[u].project} ELSE outlived
  BY DEF MakeDir, dbVars
<1>5. dirs \subseteq Projects /\ outlived \subseteq Projects
  BY DEF FInv, Types
<1>6. \A p \in dirs' \ dirs : rows[p] = "there" \/ p \in deletion.ids \cup outlived'
  BY <1>2, <1>4
<1>7. dirs \subseteq dirs' /\ dirs' \subseteq Projects
  BY <1>2, <1>4, <1>5
<1>8. outlived \subseteq outlived' /\ outlived' \subseteq Projects
  BY <1>2, <1>4, <1>5
<1> HIDE DEF r
<1> QED BY <1>2, <1>3, <1>4, <1>6, <1>7, <1>8, UploadFInv

LEMMA CreateFileFInv ==
  ASSUME FInv, NEW u \in Uploads, CreateFile(u) PROVE FInv'
<1>1. upload[u].pc = "made"
  BY DEF CreateFile
<1>2. /\ upload[u] # NoUpload /\ rows[upload[u].project] # "unborn"
      /\ upload[u] \in [pc : {"checked", "made", "copying", "created", "failed"},
                        project : Projects]
  BY <1>1, BegunUpload
<1>3. /\ UNCHANGED <<account, rows, deletion, dirs, outlived>>
      /\ dirs \subseteq Projects /\ outlived \subseteq Projects
  BY DEF CreateFile, dbVars, FInv, Types
<1>4. CASE upload[u].project \in dirs
  <2> DEFINE r == [upload[u] EXCEPT !.pc = "copying"]
  <2>1. /\ r \in [pc : {"checked", "made", "copying", "created", "failed"}, project : Projects]
        /\ r.project = upload[u].project
    BY <1>2
  <2>2. upload' = [upload EXCEPT ![u] = r] /\ files' = files \cup {u}
    BY <1>4 DEF CreateFile
  <2> HIDE DEF r
  <2> QED BY <1>2, <1>3, <1>4, <2>1, <2>2, UploadFInv
<1>5. CASE upload[u].project \notin dirs
  <2> DEFINE r == [upload[u] EXCEPT !.pc = "failed"]
  <2>1. /\ r \in [pc : {"checked", "made", "copying", "created", "failed"}, project : Projects]
        /\ r.project = upload[u].project /\ r.pc = "failed"
    BY <1>2
  <2>2. upload' = [upload EXCEPT ![u] = r] /\ files' = files
    BY <1>5 DEF CreateFile
  <2> HIDE DEF r
  <2> QED BY <1>2, <1>3, <2>1, <2>2, UploadFInv
<1> QED BY <1>4, <1>5

LEMMA AnswerUploadFInv ==
  ASSUME FInv, NEW u \in Uploads, AnswerUpload(u) PROVE FInv'
<1> DEFINE r == [upload[u] EXCEPT !.pc = "created"]
<1>1. upload[u].pc = "copying"
  BY DEF AnswerUpload
<1>2. /\ upload[u] # NoUpload /\ rows[upload[u].project] # "unborn"
      /\ upload[u] \in [pc : {"checked", "made", "copying", "created", "failed"},
                        project : Projects]
  BY <1>1, BegunUpload
<1>3. /\ UNCHANGED <<account, rows, deletion, dirs, files, outlived>>
      /\ dirs \subseteq Projects /\ outlived \subseteq Projects
      /\ upload' = [upload EXCEPT ![u] = r]
  BY DEF AnswerUpload, dbVars, diskVars, FInv, Types
<1>4. /\ r \in [pc : {"checked", "made", "copying", "created", "failed"}, project : Projects]
      /\ r.project = upload[u].project
  BY <1>2
<1> HIDE DEF r
<1> QED BY <1>1, <1>2, <1>3, <1>4, UploadFInv

LEMMA FailUploadFInv ==
  ASSUME FInv, NEW u \in Uploads, FailUpload(u) PROVE FInv'
<1> DEFINE r == [upload[u] EXCEPT !.pc = "failed"]
<1>1. upload[u].pc # "no"
  BY DEF FailUpload, UnderWay
<1>2. /\ upload[u] # NoUpload /\ rows[upload[u].project] # "unborn"
      /\ upload[u] \in [pc : {"checked", "made", "copying", "created", "failed"},
                        project : Projects]
  BY <1>1, BegunUpload
<1>3. /\ UNCHANGED <<account, rows, deletion, dirs, files, outlived>>
      /\ dirs \subseteq Projects /\ outlived \subseteq Projects
      /\ upload' = [upload EXCEPT ![u] = r]
  BY DEF FailUpload, dbVars, diskVars, FInv, Types
<1>4. /\ r \in [pc : {"checked", "made", "copying", "created", "failed"}, project : Projects]
      /\ r.project = upload[u].project /\ r.pc = "failed"
  BY <1>2
<1> HIDE DEF r
<1> QED BY <1>2, <1>3, <1>4, UploadFInv

--------------------------------------------------------------------------
(* The deletion *)

LEMMA ListProjectsFInv ==
  ASSUME FInv, ListProjects PROVE FInv'
<1> USE DEF FInv, ListProjects
<1>1. /\ UNCHANGED <<account, rows, upload, dirs, files, outlived>>
      /\ deletion' = [pc |-> "listed", ids |-> There] /\ deletion.ids = {} /\ account
  BY DEF dbVars, diskVars, Stage
<1>2. There \subseteq Projects /\ There' = There
  BY <1>1 DEF There
<1>3. Types'
  <2>1. account' \in BOOLEAN
    BY <1>1, Zenon DEF Types
  <2> QED BY <1>1, <1>2, <2>1 DEF Types
<1>4. Stage'
  BY <1>1, <1>2 DEF Stage
<1>5. DirsOwned'
  BY <1>1 DEF DirsOwned
<1>6. FilesKept'
  BY <1>1 DEF FilesKept
<1> QED BY <1>3, <1>4, <1>5, <1>6

LEMMA RollBackDeletionFInv ==
  ASSUME FInv, RollBackDeletion PROVE FInv'
<1> USE DEF FInv, RollBackDeletion
<1>1. /\ UNCHANGED <<account, rows, upload, dirs, files, outlived>>
      /\ deletion' = [pc |-> "no", ids |-> {}] /\ deletion.ids \subseteq There
  BY DEF dbVars, diskVars, Stage
<1>2. There' = There
  BY <1>1 DEF There
<1>3. Types'
  <2>1. account' \in BOOLEAN
    BY <1>1, Zenon DEF Types
  <2> QED BY <1>1, <2>1 DEF Types
<1>4. Stage'
  BY <1>1, <1>2 DEF Stage
<1>5. DirsOwned'
  BY <1>1 DEF DirsOwned, There
<1>6. FilesKept'
  BY <1>1 DEF FilesKept
<1> QED BY <1>3, <1>4, <1>5, <1>6

\* The rows go, and what was there is left to the removal or known to be left.
LEMMA DeleteRowsFInv ==
  ASSUME FInv, DeleteRows,
         deletion' \in [pc : {"remove", "over"}, ids : SUBSET Projects],
         deletion'.pc = "over" => deletion'.ids = {},
         There \subseteq deletion'.ids \cup outlived',
         outlived \subseteq outlived', outlived' \subseteq Projects,
         UNCHANGED <<upload, dirs, files>>
  PROVE  FInv'
<1> USE DEF FInv, DeleteRows
<1>1. rows' \in [Projects -> {"unborn", "there", "gone"}]
  BY DEF Types, There
<1>2. \A p \in Projects : rows'[p] # "there" /\ (rows[p] # "unborn" => rows'[p] # "unborn")
  BY DEF Types, There
<1>3. Types'
  <2>1. account' \in BOOLEAN
    BY Zenon
  <2> QED BY <1>1, <2>1 DEF Types
<1>4. There' = {}
  BY <1>2 DEF There
<1>5. Stage'
  <2>1. \A u \in Uploads : upload[u] # NoUpload => rows'[upload[u].project] # "unborn"
    BY <1>2 DEF Stage, Types, UploadSet
  <2>2. ~ account'
    OBVIOUS
  <2>3. deletion'.pc \in {"remove", "over"}
    OBVIOUS
  <2> QED BY <1>4, <2>1, <2>2, <2>3 DEF Stage
<1>6. DirsOwned'
  BY DEF DirsOwned, There, Types, Stage
<1>7. FilesKept'
  <2>1. \A u \in Uploads : upload[u].pc \in {"copying", "created"} => upload[u].project \in Projects
    BY BegunUpload
  <2> QED BY <1>2, <2>1 DEF FilesKept
<1> QED BY <1>3, <1>5, <1>6, <1>7

LEMMA CommitDeletionFInv ==
  ASSUME FInv, CommitDeletion PROVE FInv'
<1>1. /\ DeleteRows /\ deletion' = [deletion EXCEPT !.pc = "remove"]
      /\ outlived' = outlived \cup (There \ deletion.ids)
      /\ UNCHANGED <<upload, dirs, files>>
  BY DEF CommitDeletion, diskVars
<1>2. /\ deletion'.pc = "remove" /\ deletion'.ids = deletion.ids
      /\ deletion' \in [pc : {"remove", "over"}, ids : SUBSET Projects]
      /\ outlived \subseteq Projects /\ There \subseteq Projects
  BY <1>1 DEF FInv, Types, There
<1> QED BY <1>1, <1>2, DeleteRowsFInv

LEMMA CommitDeletionUnheardFInv ==
  ASSUME FInv, CommitDeletionUnheard PROVE FInv'
<1>1. /\ DeleteRows /\ deletion' = [pc |-> "over", ids |-> {}]
      /\ outlived' = outlived \cup There
      /\ UNCHANGED <<upload, dirs, files>>
  BY DEF CommitDeletionUnheard, diskVars
<1>2. outlived \subseteq Projects /\ There \subseteq Projects
  BY DEF FInv, Types, There
<1> QED BY <1>1, <1>2, DeleteRowsFInv

LEMMA RemoveMediaFInv ==
  ASSUME FInv, NEW p \in Projects, RemoveMedia(p) PROVE FInv'
<1> USE DEF FInv, RemoveMedia
<1>1. /\ UNCHANGED <<account, rows, upload, outlived>>
      /\ deletion' = [deletion EXCEPT !.ids = @ \ {p}] /\ deletion.pc = "remove"
      /\ dirs' = dirs \ {p} /\ files' = files \ FilesOf(p)
  BY DEF dbVars
<1>2. deletion'.pc = "remove" /\ deletion'.ids = deletion.ids \ {p} /\ There' = There
  BY <1>1 DEF Types, There
<1>3. Types'
  <2>1. account' \in BOOLEAN
    BY <1>1, Zenon DEF Types
  <2> QED BY <1>1, <2>1 DEF Types
<1>4. Stage'
  BY <1>1, <1>2 DEF Stage
<1>5. DirsOwned'
  BY <1>1, <1>2 DEF DirsOwned
<1>6. FilesKept'
  <2>1. rows[p] # "there"
    BY <1>1 DEF Stage, There
  <2> QED BY <1>1, <2>1 DEF FilesKept, FilesOf
<1> QED BY <1>3, <1>4, <1>5, <1>6

LEMMA RemoveMediaFailsFInv ==
  ASSUME FInv, NEW p \in Projects, RemoveMediaFails(p) PROVE FInv'
<1> USE DEF FInv, RemoveMediaFails
<1>1. /\ UNCHANGED <<account, rows, upload, dirs, files>>
      /\ deletion' = [deletion EXCEPT !.ids = @ \ {p}] /\ deletion.pc = "remove"
      /\ outlived' = outlived \cup {p}
  BY DEF dbVars, diskVars
<1>2. deletion'.pc = "remove" /\ deletion'.ids = deletion.ids \ {p} /\ There' = There
  BY <1>1 DEF Types, There
<1>3. Types'
  <2>1. account' \in BOOLEAN
    BY <1>1, Zenon DEF Types
  <2> QED BY <1>1, <2>1 DEF Types
<1>4. Stage'
  BY <1>1, <1>2 DEF Stage
<1>5. DirsOwned'
  BY <1>1, <1>2 DEF DirsOwned
<1>6. FilesKept'
  BY <1>1 DEF FilesKept
<1> QED BY <1>3, <1>4, <1>5, <1>6

LEMMA StopMediaFInv ==
  ASSUME FInv, StopMedia PROVE FInv'
<1> USE DEF FInv, StopMedia
<1>1. /\ UNCHANGED <<account, rows, dirs, files>>
      /\ upload' = [u \in Uploads |-> IF u \in UnderWay THEN [upload[u] EXCEPT !.pc = "failed"]
                                      ELSE upload[u]]
      /\ deletion' = [pc |-> IF deletion.pc = "listed" THEN "no" ELSE deletion.pc, ids |-> {}]
      /\ outlived' = IF deletion.pc = "remove" THEN outlived \cup deletion.ids ELSE outlived
      /\ There' = There
  BY DEF dbVars, diskVars, There
<1>2. ASSUME NEW u \in Uploads
      PROVE  /\ upload'[u] = upload[u]
             \/ /\ upload'[u].pc = "failed" /\ upload[u] # NoUpload /\ upload'[u] # NoUpload
                /\ upload'[u].project = upload[u].project
                /\ upload'[u] \in [pc : {"checked", "made", "copying", "created", "failed"},
                                   project : Projects]
  <2>1. CASE u \in UnderWay
    <3>1. /\ upload[u] # NoUpload
          /\ upload[u] \in [pc : {"checked", "made", "copying", "created", "failed"},
                            project : Projects]
      BY <2>1, BegunUpload DEF UnderWay
    <3>2. upload'[u] = [upload[u] EXCEPT !.pc = "failed"]
      BY <1>1, <2>1
    <3> QED BY <3>1, <3>2 DEF NoUpload
  <2>2. CASE u \notin UnderWay
    BY <1>1, <2>2
  <2> QED BY <2>1, <2>2
<1>3. Types'
  <2>1. account' \in BOOLEAN
    BY <1>1, Zenon DEF Types
  <2>2. upload' \in [Uploads -> UploadSet]
    BY <1>1, <1>2 DEF Types, UploadSet
  <2>3. deletion' \in [pc : {"no", "listed", "remove", "over"}, ids : SUBSET Projects]
    BY <1>1 DEF Types
  <2> QED BY <1>1, <2>1, <2>2, <2>3 DEF Types
<1>4. Stage'
  BY <1>1, <1>2 DEF Stage
<1>5. DirsOwned'
  BY <1>1 DEF DirsOwned, Stage, Types, There
<1>6. FilesKept'
  <2>1. ASSUME NEW u \in files PROVE upload'[u] # NoUpload /\ upload'[u].project \in dirs
    BY <1>2, <2>1 DEF FilesKept, Types
  <2>2. ASSUME NEW u \in Uploads, upload'[u].pc \in {"copying", "created"},
               rows[upload'[u].project] = "there"
        PROVE  u \in files
    BY <1>2, <2>2 DEF FilesKept
  <2> QED BY <1>1, <2>1, <2>2 DEF FilesKept
<1> QED BY <1>3, <1>4, <1>5, <1>6

LEMMA StutterFInv ==
  ASSUME FInv, UNCHANGED mediaVars PROVE FInv'
<1>1. UNCHANGED <<account, rows, upload, deletion, dirs, files, outlived>>
  BY DEF mediaVars, dbVars, diskVars
<1>2. Types'
  <2>1. account' \in BOOLEAN
    BY <1>1, Zenon DEF FInv, Types
  <2> QED BY <1>1, <2>1 DEF FInv, Types
<1> QED BY <1>1, <1>2 DEF FInv, Stage, DirsOwned, FilesKept, There

--------------------------------------------------------------------------
(* Theorems *)

\* The inductive invariant: what is on the disk for a project that is gone is on the
\* list of the removal under way, or known to be left.
THEOREM FInductive == MediaSpec => []FInv
<1>1. ASSUME FInv, [MediaNext]_mediaVars PROVE FInv'
  <2>1. ASSUME NEW p \in Projects, CreateProject(p) \/ RemoveMedia(p) \/ RemoveMediaFails(p)
        PROVE  FInv'
    BY <1>1, <2>1, CreateProjectFInv, RemoveMediaFInv, RemoveMediaFailsFInv
  <2>2. ASSUME NEW u \in Uploads, NEW p \in Projects, BeginUpload(u, p) PROVE FInv'
    BY <1>1, <2>2, BeginUploadFInv
  <2>3. ASSUME NEW u \in Uploads, MakeDir(u) \/ CreateFile(u) PROVE FInv'
    BY <1>1, <2>3, MakeDirFInv, CreateFileFInv
  <2>4. ASSUME NEW u \in Uploads, AnswerUpload(u) \/ FailUpload(u) PROVE FInv'
    BY <1>1, <2>4, AnswerUploadFInv, FailUploadFInv
  <2>5. CASE ListProjects \/ RollBackDeletion
    BY <1>1, <2>5, ListProjectsFInv, RollBackDeletionFInv
  <2>6. CASE CommitDeletion \/ CommitDeletionUnheard
    BY <1>1, <2>6, CommitDeletionFInv, CommitDeletionUnheardFInv
  <2>7. CASE StopMedia
    BY <1>1, <2>7, StopMediaFInv
  <2>8. CASE UNCHANGED mediaVars
    BY <1>1, <2>8, StutterFInv
  <2> QED BY <1>1, <2>1, <2>2, <2>3, <2>4, <2>5, <2>6, <2>7, <2>8 DEF MediaNext
<1> QED BY <1>1, InitFInv, PTL DEF MediaSpec

\* uploadMedia and deleteMe: for any number of projects and uploads, files and rows go
\* together, but for the cases that the property names.
THEOREM FilesFollowProjectsHolds == MediaSpec => []FilesFollowProjects
<1>1. ASSUME FInv PROVE FilesFollowProjects
  BY <1>1 DEF FInv, FilesKept, DirsOwned, FilesFollowProjects
<1> QED BY <1>1, FInductive, PTL
================================================================================
