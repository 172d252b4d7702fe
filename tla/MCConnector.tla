----------------------------- MODULE MCConnector -----------------------------
(* Model values and symmetry for checking Connector with TLC.              *)
EXTENDS Connector, TLC

\* Nodes and requests are interchangeable.
Symmetry == Permutations(Keys) \cup Permutations(Requests)
=============================================================================
