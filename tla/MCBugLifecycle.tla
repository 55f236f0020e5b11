-------------------------- MODULE MCBugLifecycle --------------------------
(* A small project: its creator and one other member, one or two reports, and *)
(* as many concurrent requests as it takes for two of them to collide.        *)
EXTENDS BugLifecycle, TLC

\* The requests are interchangeable, in a run without liveness properties.
Symmetry == Permutations(Requests)
=============================================================================
