------------------------------- MODULE NodeLife -------------------------------
(***************************************************************************)
(* What the pool of src/src/proxy.rs promises about a node, apart from     *)
(* locks, threads and files: a node joins the pool once, is rested and     *)
(* disabled after failures, and recovers.  A node is given up only while   *)
(* it is disabled; one that was given up leaves, for good, and no other    *)
(* node does.  Between the two it is a node like any other: a client may   *)
(* still recover it, and it leaves all the same.  A restart brings back    *)
(* what the state file holds, and no node in its cooldown.                 *)
(***************************************************************************)
EXTENDS Naturals

CONSTANT Keys

VARIABLES
    status,  \* the status of every node
    doomed,  \* the nodes of the pool that were given up
    starts   \* restarts of the process so far

lifeVars == <<status, doomed, starts>>

Statuses == {"absent", "usable", "cooling", "disabled", "retired"}
InPool == {"usable", "cooling", "disabled"}

LifeInit ==
    /\ status = [k \in Keys |-> "absent"]
    /\ doomed = {}
    /\ starts = 0

Change(k, from, to) ==
    /\ status[k] \in from
    /\ status' = [status EXCEPT ![k] = to]
    /\ UNCHANGED <<doomed, starts>>

\* A refresh adds nodes; the ones the state file lists as disabled stay so.
Join(S) ==
    /\ \A k \in S : status[k] = "absent"
    /\ \E disabled \in SUBSET S :
        status' = [k \in Keys |-> IF k \notin S THEN status[k]
                                  ELSE IF k \in disabled THEN "disabled" ELSE "usable"]
    /\ UNCHANGED <<doomed, starts>>

Rest(k) == Change(k, {"usable"}, "cooling")
Disable(k) == Change(k, {"usable", "cooling"}, "disabled")
Recover(k) == Change(k, {"cooling", "disabled"}, "usable")

\* The last failed recheck of a disabled node.
Doom(k) ==
    /\ status[k] = "disabled"
    /\ doomed' = doomed \cup {k}
    /\ UNCHANGED <<status, starts>>

Leave(k) ==
    /\ k \in doomed
    /\ status[k] \in InPool
    /\ status' = [status EXCEPT ![k] = "retired"]
    /\ doomed' = doomed \ {k}
    /\ UNCHANGED starts

StartAgain ==
    /\ status' \in [Keys -> Statuses \ {"cooling"}]
    /\ doomed' = {}
    /\ starts' = starts + 1

LifeNext ==
    \/ \E S \in SUBSET Keys : Join(S)
    \/ \E k \in Keys : Rest(k) \/ Disable(k) \/ Recover(k) \/ Doom(k) \/ Leave(k)
    \/ StartAgain

LifeSpec == LifeInit /\ [][LifeNext]_lifeVars

=============================================================================
