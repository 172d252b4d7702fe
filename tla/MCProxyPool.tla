----------------------------- MODULE MCProxyPool -----------------------------
(* Model values and symmetry for checking ProxyPool with TLC.              *)
EXTENDS PoolLife, TLC

\* Nodes are interchangeable where Restorable tells none apart, and so are
\* the reporting tasks.
Symmetry == Permutations(Keys) \cup Permutations(Reporters)
=============================================================================
