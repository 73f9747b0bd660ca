---------------------------- MODULE MCRunLifecycle ----------------------------
(***************************************************************************)
(* RunLifecycle on small instances.                                        *)
(***************************************************************************)
EXTENDS RunLifecycle, TLC

\* Lives and containers are interchangeable; run ids are not (SQLite orders
\* them).  Sound for the safety runs only.
Symmetry == Permutations(Lives) \cup Permutations(Containers)

===============================================================================
