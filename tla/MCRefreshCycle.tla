---------------------------- MODULE MCRefreshCycle ----------------------------
(* Model values and symmetry for checking RefreshCycle with TLC.           *)
EXTENDS RefreshCycle, TLC

\* Nodes, recheck workers and client tasks are interchangeable.
Symmetry == Permutations(Keys) \cup Permutations(Workers) \cup Permutations(Reporters)
=============================================================================
