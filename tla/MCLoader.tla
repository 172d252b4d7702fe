------------------------------- MODULE MCLoader -------------------------------
(* Loader as TLC checks it.                                                *)
EXTENDS Loader
=============================================================================
