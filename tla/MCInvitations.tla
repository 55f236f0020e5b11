---------------------------- MODULE MCInvitations ----------------------------
EXTENDS Invitations, TLC

CONSTANTS ana, ben, p1, r1, r2, i1, i2

\* ben and ana are about to swap, which makes ben a tester of ana's p1.
OwnerMC == p1 :> ana

SwapsMC == {<<p1, ben>>}

Symmetry == Permutations({r1, r2}) \cup Permutations({i1, i2})
==========================================================================
