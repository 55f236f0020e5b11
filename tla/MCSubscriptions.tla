------------------------ MODULE MCSubscriptions ------------------------
EXTENDS Subscriptions, TLC

CONSTANTS ana, ben, w1, w2, r1, r2

\* ana's purchases, and those of a device where ana signed in after ben.
Ana == {<<ana>>}
AnaBen == {<<ana, ben>>}

\* A purchase, its end, and the failed payment in between.
Buy == {<<"grant", TRUE>>, <<"expiration", TRUE>>}
All == Buy \cup {<<"billing_issue", TRUE>>, <<"cancellation", FALSE>>}

Symmetry == Permutations({w1, w2}) \cup Permutations({r1, r2})
==========================================================================
