------------------------------ MODULE MCStartup ------------------------------
(* What a start of the process rests on: the pool restored from the state  *)
(* file, and the load of the sources.  The two share no state, so a        *)
(* behaviour is one of either.                                             *)
EXTENDS PoolLife, Loader, TLC

VARIABLE part   \* which of the two moves

startupVars == <<vars, loaderVars, part>>

StartupInit == Init /\ LoaderInit /\ part \in {"pool", "loader"}

StartupNext ==
    /\ \/ part = "pool" /\ Next /\ UNCHANGED loaderVars
       \/ part = "loader" /\ LoaderNext /\ UNCHANGED vars
    /\ UNCHANGED part

\* Nothing is owed by the pool's threads here; the load has its fairness.
StartupSpec ==
    StartupInit /\ [][StartupNext]_startupVars /\ LoaderFairness
=============================================================================
