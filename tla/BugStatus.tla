---------------------------- MODULE BugStatus ----------------------------
(***************************************************************************)
(* What the triage workflow promises about one project's bugs, told only   *)
(* through the status column: the CHECK of 0007_developer_features.sql     *)
(* names the four states, the comments of store/bugs.go the moves between  *)
(* them.  A draft is suggested and then confirmed or dismissed; an open    *)
(* bug waits for information, is resumed, is fixed and may be reopened.    *)
(* BugLifecycle, with its requests, goroutines, transactions and           *)
(* constraints, is shown to implement this machine.                        *)
(***************************************************************************)
CONSTANT Bugs   \* bug ids

VARIABLE status \* status of each bug; "unborn" before its INSERT, "gone" after its DELETE

Statuses == {"unborn", "suggested", "open", "needs_info", "fixed", "gone"}

TypeOK == status \in [Bugs -> Statuses]

Init == status = [b \in Bugs |-> "unborn"]

Move(b, from, to) ==
  /\ status[b] = from
  /\ status' = [status EXCEPT ![b] = to]

Suggest(b)   == Move(b, "unborn", "suggested")
Structure(b) == Move(b, "unborn", "open")
Confirm(b)   == Move(b, "suggested", "open")
Dismiss(b)   == Move(b, "suggested", "gone")
AskInfo(b)   == Move(b, "open", "needs_info")
Resume(b)    == Move(b, "needs_info", "open")
Fix(b)       == Move(b, "open", "fixed")
Reopen(b)    == Move(b, "fixed", "open")

\* The project goes, and every bug it ever had goes with it.
DropProject ==
  status' = [b \in Bugs |-> IF status[b] = "unborn" THEN "unborn" ELSE "gone"]

Next ==
  \/ DropProject
  \/ \E b \in Bugs :
       \/ Suggest(b) \/ Structure(b) \/ Confirm(b) \/ Dismiss(b)
       \/ AskInfo(b) \/ Resume(b) \/ Fix(b) \/ Reopen(b)

Spec == Init /\ [][Next]_status
==========================================================================
