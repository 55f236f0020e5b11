---------------------------- MODULE Membership ----------------------------
(***************************************************************************)
(* What invitations, invite codes and swaps promise about who takes part   *)
(* in a project, told through two columns: the role of each person, and    *)
(* the role that is on offer to them.  At most one role is on offer (the   *)
(* comment of 0011_tester_marketplace.sql), nobody gets a role but by      *)
(* taking an offer, by a join or by a swap, and a creator keeps theirs.    *)
(* Invitations, with its requests and rows, is shown to implement this.    *)
(***************************************************************************)
CONSTANT Pairs    \* <<project, person>>

VARIABLES
  member,  \* member[m]: the role m has
  offer    \* offer[m]: the role offered to m

Offers == {"none", "tester", "developer"}

Roles == Offers \cup {"creator"}

Init ==
  /\ member \in [Pairs -> {"none", "creator"}]
  /\ offer = [m \in Pairs |-> "none"]

Keep(m) == member'[m] = member[m] /\ offer'[m] = offer[m]

Offer(m) ==
  /\ member[m] # "creator" /\ member'[m] = member[m]
  /\ offer[m] = "none" /\ offer'[m] # "none"

\* Declined, or cancelled by a block.
Withdraw(m) ==
  /\ member'[m] = member[m]
  /\ offer[m] # "none" /\ offer'[m] = "none"

Take(m) ==
  /\ member[m] # "creator" /\ member'[m] = offer[m]
  /\ offer[m] # "none" /\ offer'[m] = "none"

\* By the invite code.
Join(m) ==
  /\ member[m] = "none" /\ member'[m] = "tester"
  /\ offer'[m] = offer[m]

\* By a swap, which asks nothing about the role there is.
Swap(m) ==
  /\ member[m] # "creator" /\ member'[m] = "tester"
  /\ offer'[m] = offer[m]

\* The account or the project is deleted.
Leave(m) == member'[m] = "none" /\ offer'[m] = "none"

Next ==
  /\ member' \in [Pairs -> Roles]
  /\ offer' \in [Pairs -> Offers]
  /\ \A m \in Pairs :
       Keep(m) \/ Offer(m) \/ Withdraw(m) \/ Take(m) \/ Join(m) \/ Swap(m) \/ Leave(m)

Spec == Init /\ [][Next]_<<member, offer>>
==========================================================================
