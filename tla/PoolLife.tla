------------------------------- MODULE PoolLife -------------------------------
(***************************************************************************)
(* The pool implements NodeLife: the status of a node as a user of the     *)
(* pool would name it, read off the node vector, the retired list and the  *)
(* failure records, goes through the life cycle whatever the interleaving  *)
(* of critical sections.                                                   *)
(***************************************************************************)
EXTENDS ProxyPool

StatusOf(k) ==
    IF k \in Range(proxies)
    THEN IF failures[k].disabled THEN "disabled"
         ELSE IF failures[k].cooldown = "active" THEN "cooling" ELSE "usable"
    ELSE IF k \in retired THEN "retired" ELSE "absent"

Status == [k \in Keys |-> StatusOf(k)]

\* A thread has counted the last failed recheck of the node and has not yet
\* taken it out: its record goes first, the node one critical section later.
GivenUp(k) == \E t \in Threads : pc[t] \in {"dropRecord", "retire"} /\ op[t].key = k

Doomed == {k \in Range(proxies) : GivenUp(k)}

Life == INSTANCE NodeLife WITH status <- Status, doomed <- Doomed, starts <- restarts

\* Every behaviour of the pool is a life cycle of its nodes: a node joins only
\* when it is neither in the pool nor retired; it is given up only in a step in
\* which it is disabled, although the recheck that gives it up began when it
\* was and a client may have recovered it since; only such a node leaves, none
\* comes back, and no restart finds a cooldown.  (A client that recovers the
\* node after that step does not save it: report_disabled_recheck_failure_inner
\* looks at the record once, so a usable node may leave.)
NodesFollowLifeCycle == Life!LifeSpec

=============================================================================
