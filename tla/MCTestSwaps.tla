---------------------------- MODULE MCTestSwaps ----------------------------
(* Two or three projects of two people.                                       *)
EXTENDS TestSwaps, TLC

CONSTANTS ana, ben, p1, p2, p3

\* ben has two projects, so that ana may propose two swaps at once.
Owner3 == p1 :> ana @@ p2 :> ben @@ p3 :> ben

Owner2 == p1 :> ana @@ p2 :> ben

Others2 == {<<p1, ben>>, <<p2, ana>>}

Others3 == Others2 \cup {<<p3, ana>>}

\* The two projects of ben are interchangeable too.
Symmetry == Permutations(Requests) \cup Permutations(SwapIds) \cup Permutations({p2, p3})
=============================================================================
