---------------------------- MODULE PoolLifeProofs ----------------------------
(* Proof that the pool implements the life cycle of its nodes, for every    *)
(* set of nodes and threads and all thresholds.                             *)
EXTENDS PoolLife, ProxyPoolProofs

\* Where a thread has given up a node.
Removing == {"dropRecord", "retire"}

\* What the mapping needs besides PoolInv.  A node the pool has never had has
\* no running cooldown, so that it joins as usable or disabled; a removal is
\* about a node the pool has or had, so that no node is given up before it
\* joins.
SeenInv ==
    /\ \A k \in Keys \ NodesSeen : failures[k].cooldown # "active"
    /\ \A t \in Threads : pc[t] \in Removing => op[t].key \in NodesSeen

LifeStep == [Life!LifeNext]_<<Status, Doomed, restarts>>

\* The changes of one node that stays in the pool.
Allowed(from, to) ==
    \/ from = to
    \/ from = "usable" /\ to = "cooling"
    \/ from \in {"usable", "cooling"} /\ to = "disabled"
    \/ from \in {"cooling", "disabled"} /\ to = "usable"

\* A step that changes the status of one node, as allowed, is one of its life.
LEMMA OneNode ==
    ASSUME NEW k \in Keys, restarts' = restarts, Doomed' = Doomed,
           \A j \in Keys \ {k} : StatusOf(j)' = StatusOf(j),
           Allowed(StatusOf(k), StatusOf(k)')
    PROVE  LifeStep
<1> DEFINE to == StatusOf(k)'
<1>1. Status' = [Status EXCEPT ![k] = to]
    BY DEF Status
<1>2. Status[k] = StatusOf(k)
    BY DEF Status
<1>3. CASE StatusOf(k)' = StatusOf(k)
    <2>1. Status' = Status
        BY <1>3 DEF Status
    <2> QED BY <2>1 DEF LifeStep
<1>4. CASE StatusOf(k)' # StatusOf(k)
    <2> HIDE DEF to
    <2>1. \/ Life!Rest(k) \/ Life!Disable(k) \/ Life!Recover(k)
        <3>1. to = StatusOf(k)' BY DEF to
        <3> QED BY <1>1, <1>2, <1>4, <3>1
                DEF Allowed, Life!Rest, Life!Disable, Life!Recover, Life!Change
    <2> QED BY <2>1 DEF LifeStep, Life!LifeNext
<1> QED BY <1>3, <1>4

\* The nodes given up are the same if no removal starts or ends and the vector
\* stays.
LEMMA SameDoomed ==
    ASSUME proxies' = proxies, \A j : GivenUp(j)' <=> GivenUp(j)
    PROVE  Doomed' = Doomed
<1>1. Range(proxies') = Range(proxies)
    OBVIOUS
<1> QED BY <1>1 DEF Doomed

\* A step that leaves the lists and the records alone, and starts or ends no
\* removal, is no step of any life.
LEMMA NoNode ==
    ASSUME UNCHANGED <<proxies, retired, restarts>>,
           \A j \in Keys : /\ failures'[j].disabled = failures[j].disabled
                           /\ failures'[j].cooldown = "active" <=> failures[j].cooldown = "active",
           \A j : GivenUp(j)' <=> GivenUp(j)
    PROVE  LifeStep
<1>1. \A j \in Keys : StatusOf(j)' = StatusOf(j)
    BY DEF StatusOf
<1>2. Status' = Status
    BY <1>1 DEF Status
<1>3. Doomed' = Doomed
    BY SameDoomed
<1> QED BY <1>2, <1>3 DEF LifeStep

\* A thread that neither is in nor begins a removal.
LEMMA NotGivingUp ==
    ASSUME NEW t \in Threads, pc[t] \notin Removing, pc'[t] \notin Removing,
           \A u \in Threads \ {t} : pc'[u] = pc[u] /\ op'[u] = op[u]
    PROVE  \A j : GivenUp(j)' <=> GivenUp(j)
BY DEF GivenUp, Removing

\* Goto to a critical section outside a removal.
LEMMA GotoNotGivingUp ==
    ASSUME TypeOK, NEW t \in Threads, pc[t] \notin Removing, NEW label,
           label \notin Removing, NEW o, Goto(t, label, o)
    PROVE  /\ pc'[t] = label /\ (label # "idle" => op'[t] = o)
           /\ \A u \in Threads \ {t} : pc'[u] = pc[u] /\ op'[u] = op[u]
           /\ \A j : GivenUp(j)' <=> GivenUp(j)
<1>1. /\ pc'[t] = label /\ (label # "idle" => op'[t] = o)
      /\ \A u \in Threads \ {t} : pc'[u] = pc[u] /\ op'[u] = op[u]
    BY DEF Goto, TypeOK
<1> QED BY <1>1, NotGivingUp

\* A report writes the record of one node the pool has or had.
LEMMA ReportLife ==
    ASSUME TypeOK, NEW k \in Keys, NEW r, failures' = [failures EXCEPT ![k] = r],
           UNCHANGED <<proxies, retired, restarts>>,
           \A j : GivenUp(j)' <=> GivenUp(j),
           \/ r.cooldown # "active" /\ ~r.disabled
           \/ r.disabled
           \/ ~failures[k].disabled
    PROVE  LifeStep
<1>1. ASSUME NEW j \in Keys \ {k} PROVE StatusOf(j)' = StatusOf(j)
    BY <1>1 DEF StatusOf, TypeOK
<1>2. failures'[k] = r
    BY DEF TypeOK
<1>3. Allowed(StatusOf(k), StatusOf(k)')
    BY <1>2 DEF StatusOf, Allowed
<1> QED BY <1>1, <1>3, OneNode, SameDoomed

\* Scans thaw at most one record, which the mapping does not see.
LEMMA ScanLife ==
    ASSUME PoolInv, NEW t \in Threads,
           \/ \E tried \in SUBSET NodesSeen : BeginScan(t, tried)
           \/ ScanStep(t)
           \/ EndScan(t)
    PROVE  /\ LifeStep
           /\ \A j : GivenUp(j)' <=> GivenUp(j)
           /\ pc'[t] \notin Removing
           /\ \A u \in Threads \ {t} : pc'[u] = pc[u] /\ op'[u] = op[u]
           /\ UNCHANGED <<proxies, retired>>
           /\ \A j \in Keys : failures'[j].cooldown = "active"
                                <=> failures[j].cooldown = "active"
<1>0. TypeOK /\ BagIndicesInRange
    BY DEF PoolInv
<1>1. ASSUME NEW tried \in SUBSET NodesSeen, BeginScan(t, tried)
      PROVE  /\ pc[t] \notin Removing /\ pc'[t] \notin Removing
             /\ \A u \in Threads \ {t} : pc'[u] = pc[u] /\ op'[u] = op[u]
             /\ UNCHANGED <<proxies, retired, restarts, failures>>
    BY <1>0, <1>1 DEF BeginScan, TypeOK, poolVars, Removing
<1>2. ASSUME EndScan(t)
      PROVE  /\ pc[t] \notin Removing /\ pc'[t] \notin Removing
             /\ \A u \in Threads \ {t} : pc'[u] = pc[u] /\ op'[u] = op[u]
             /\ UNCHANGED <<proxies, retired, restarts, failures>>
    BY <1>0, <1>2 DEF EndScan, Goto, TypeOK, poolVars, Removing
<1>3. ASSUME ScanStep(t)
      PROVE  /\ pc[t] \notin Removing /\ pc'[t] \notin Removing
             /\ \A u \in Threads \ {t} : pc'[u] = pc[u] /\ op'[u] = op[u]
             /\ UNCHANGED <<proxies, retired, restarts>>
             /\ \A j \in Keys : /\ failures'[j].disabled = failures[j].disabled
                                /\ failures'[j].cooldown = "active"
                                      <=> failures[j].cooldown = "active"
    <2>1. PICK i \in Drawable :
            IF PassedOver(t, proxies[i]) THEN Skip(t, proxies[i]) ELSE HandOut(t, proxies[i])
        BY <1>3 DEF ScanStep
    <2>2. pc[t] = "scan" /\ UNCHANGED <<proxies, retired, restarts>>
        BY <1>3 DEF ScanStep, poolVars
    <2>3. CASE Skip(t, proxies[i])
        BY <1>0, <2>2, <2>3 DEF Skip, TypeOK, Removing
    <2>4. CASE HandOut(t, proxies[i])
        <3>1. \A r \in FailureRecord : /\ Thawed(r).disabled = r.disabled
                                       /\ Thawed(r).cooldown = "active" <=> r.cooldown = "active"
            BY DEF Thawed, FailureRecord
        <3>2. failures' = [failures EXCEPT ![proxies[i]] = Thawed(failures[proxies[i]])]
            BY <2>4 DEF HandOut
        <3>3. \A j \in Keys : failures'[j] = failures[j] \/ failures'[j] = Thawed(failures[j])
            BY <1>0, <3>2 DEF TypeOK
        <3>4. \A j \in Keys : failures[j] \in FailureRecord
            BY <1>0 DEF TypeOK
        <3>5. \A j \in Keys : /\ failures'[j].disabled = failures[j].disabled
                              /\ failures'[j].cooldown = "active"
                                    <=> failures[j].cooldown = "active"
            BY <3>1, <3>3, <3>4
        <3> QED BY <1>0, <2>2, <2>4, <3>5 DEF HandOut, TypeOK, Removing
    <2> QED BY <2>1, <2>3, <2>4
<1>4. /\ pc[t] \notin Removing /\ pc'[t] \notin Removing
      /\ \A u \in Threads \ {t} : pc'[u] = pc[u] /\ op'[u] = op[u]
      /\ UNCHANGED <<proxies, retired, restarts>>
      /\ \A j \in Keys : /\ failures'[j].disabled = failures[j].disabled
                         /\ failures'[j].cooldown = "active" <=> failures[j].cooldown = "active"
    BY <1>1, <1>2, <1>3
<1>5. \A j : GivenUp(j)' <=> GivenUp(j)
    BY <1>4, NotGivingUp
<1> QED BY <1>4, <1>5, NoNode

\* A step of one thread keeps SeenInv if the pool forgets no node, a removal it
\* starts is of such a node and no cooldown begins on another.
LEMMA SeenMove ==
    ASSUME SeenInv, NEW t \in Threads,
           \A u \in Threads \ {t} : pc'[u] = pc[u] /\ op'[u] = op[u],
           NodesSeen \subseteq NodesSeen',
           pc'[t] \in Removing => op'[t].key \in NodesSeen',
           \A k \in Keys \ NodesSeen' :
                failures'[k].cooldown = "active" => failures[k].cooldown = "active"
    PROVE  SeenInv'
<1>1. ASSUME NEW u \in Threads, pc'[u] \in Removing
      PROVE  op'[u].key \in NodesSeen'
    BY <1>1 DEF SeenInv
<1>2. ASSUME NEW k \in Keys \ NodesSeen' PROVE failures'[k].cooldown # "active"
    BY <1>2 DEF SeenInv
<1> QED BY <1>1, <1>2 DEF SeenInv

\* The last failed recheck of a disabled node gives it up, if the pool still has
\* it, and changes nothing else.
LEMMA GiveUpFollows ==
    ASSUME TypeOK, SeenInv, NEW t \in Threads, NEW k \in NodesSeen, k \in Keys,
           failures[k].disabled, pc[t] = "idle",
           NEW o, o.key = k, Goto(t, "dropRecord", o),
           UNCHANGED <<proxies, retired, restarts>>,
           \A j \in Keys : /\ failures'[j].disabled = failures[j].disabled
                           /\ failures'[j].cooldown = failures[j].cooldown
    PROVE  LifeStep /\ SeenInv'
<1>1. /\ pc'[t] = "dropRecord" /\ op'[t].key = k
      /\ \A u \in Threads \ {t} : pc'[u] = pc[u] /\ op'[u] = op[u]
    BY DEF Goto, TypeOK
<1>2. \A j : GivenUp(j)' <=> GivenUp(j) \/ j = k
    BY <1>1 DEF GivenUp
<1>3. \A j \in Keys : StatusOf(j)' = StatusOf(j)
    BY DEF StatusOf
<1>4. Status' = Status
    BY <1>3 DEF Status
<1>5. Range(proxies') = Range(proxies) /\ NodesSeen' = NodesSeen
    BY DEF NodesSeen
<1>6. LifeStep
    <2>1. CASE k \in Range(proxies)
        <3>1. Doomed' = Doomed \cup {k}
            BY <1>2, <1>5, <2>1 DEF Doomed
        <3>2. Status[k] = "disabled"
            BY <2>1 DEF Status, StatusOf
        <3>3. Life!Doom(k)
            BY <1>4, <3>1, <3>2 DEF Life!Doom
        <3> QED BY <3>3 DEF LifeStep, Life!LifeNext
    <2>2. CASE k \notin Range(proxies)
        <3>1. Doomed' = Doomed
            BY <1>2, <1>5, <2>2 DEF Doomed
        <3> QED BY <1>4, <3>1 DEF LifeStep
    <2> QED BY <2>1, <2>2
<1>7. SeenInv'
    BY <1>1, <1>5, SeenMove
<1> QED BY <1>6, <1>7

\* Reports of clients and of recheck workers.
LEMMA ReportsFollow ==
    ASSUME PoolInv, SeenInv, NEW t \in Threads, NEW k \in NodesSeen,
           \/ ReportSuccess(t, k)
           \/ ReportFailure(t, k)
           \/ RecheckSuccess(t, k, FALSE)
           \/ RecheckFailure(t, k, FALSE)
    PROVE  LifeStep /\ SeenInv'
<1>0. TypeOK /\ k \in Keys /\ failures[k] \in FailureRecord
    BY DEF PoolInv, TypeOK, NodesSeen, Range
<1>a. ASSUME NEW r, failures' = [failures EXCEPT ![k] = r],
             UNCHANGED <<proxies, retired, restarts>>,
             \/ r.cooldown # "active" /\ ~r.disabled
             \/ r.disabled
             \/ ~failures[k].disabled,
             NEW label \in PCs \ Removing, NEW o, pc[t] = "idle",
             Goto(t, label, o)
      PROVE  LifeStep /\ SeenInv'
    <2>0. pc[t] \notin Removing
        BY <1>a DEF Removing
    <2>1. /\ pc'[t] = label
          /\ \A u \in Threads \ {t} : pc'[u] = pc[u] /\ op'[u] = op[u]
          /\ \A j : GivenUp(j)' <=> GivenUp(j)
        BY <1>0, <1>a, <2>0, GotoNotGivingUp
    <2>2. LifeStep
        BY <1>0, <1>a, <2>1, ReportLife
    <2>3. NodesSeen' = NodesSeen
        BY <1>a DEF NodesSeen
    <2>4. \A j \in Keys \ NodesSeen' : failures'[j] = failures[j]
        BY <1>0, <1>a, <2>3 DEF TypeOK
    <2>5. SeenInv'
        BY <1>a, <2>1, <2>3, <2>4, SeenMove
    <2> QED BY <2>2, <2>5
<1>1. ASSUME ReportSuccess(t, k) PROVE LifeStep /\ SeenInv'
    <2> DEFINE label == IF failures[k].disabled \/ failures[k].recheckFailures > 0
                        THEN "rmDisabled" ELSE "idle"
    <2>1. label \in PCs \ Removing /\ FreshRecord.cooldown # "active" /\ ~FreshRecord.disabled
        BY DEF PCs, Removing, FreshRecord
    <2>2. /\ failures' = [failures EXCEPT ![k] = FreshRecord]
          /\ UNCHANGED <<proxies, retired, restarts>> /\ pc[t] = "idle"
          /\ Goto(t, label, NewOperation(k, 0, TRUE, FALSE))
        BY <1>1 DEF ReportSuccess, poolVars
    <2> HIDE DEF label
    <2> QED BY <1>a, <2>1, <2>2
<1>2. ASSUME ReportFailure(t, k) PROVE LifeStep /\ SeenInv'
    <2> DEFINE r == failures[k]
               n == IF r.disabled THEN r ELSE Failed(r)
               label == IF n.disabled /\ ~r.disabled THEN "putDisabled" ELSE "idle"
    <2>1. label \in PCs \ Removing /\ (n.disabled \/ ~r.disabled)
        BY DEF PCs, Removing
    <2>2. /\ failures' = [failures EXCEPT ![k] = n]
          /\ UNCHANGED <<proxies, retired, restarts>> /\ pc[t] = "idle"
          /\ Goto(t, label, NewOperation(k, 0, TRUE, FALSE))
        BY <1>2 DEF ReportFailure, poolVars
    <2> HIDE DEF label, n
    <2> QED BY <1>a, <2>1, <2>2
<1>3. ASSUME RecheckSuccess(t, k, FALSE) PROVE LifeStep /\ SeenInv'
    <2>1. "rmDisabled" \in PCs \ Removing /\ FreshRecord.cooldown # "active" /\ ~FreshRecord.disabled
        BY DEF PCs, Removing, FreshRecord
    <2>2. /\ failures' = [failures EXCEPT ![k] = FreshRecord]
          /\ UNCHANGED <<proxies, retired, restarts>> /\ pc[t] = "idle"
          /\ Goto(t, "rmDisabled", NewOperation(k, 0, FALSE, TRUE))
        BY <1>3 DEF RecheckSuccess, poolVars
    <2> QED BY <1>a, <2>1, <2>2
<1>4. ASSUME RecheckFailure(t, k, FALSE) PROVE LifeStep /\ SeenInv'
    <2> DEFINE n == failures[k].recheckFailures + 1
               r == [failures[k] EXCEPT !.recheckFailures = n]
               o == NewOperation(k, n, FALSE, FALSE)
    <2>1. /\ failures' = [failures EXCEPT ![k] = r] /\ failures[k].disabled
          /\ UNCHANGED <<proxies, retired, restarts>> /\ pc[t] = "idle"
          /\ Goto(t, IF n >= DeleteAfterFailures THEN "dropRecord" ELSE "putDisabled", o)
        BY <1>4 DEF RecheckFailure, poolVars
    <2>2. r.disabled /\ r.cooldown = failures[k].cooldown
        BY <1>0, <2>1 DEF FailureRecord
    <2>0. n \in Int /\ DeleteAfterFailures \in Int
        BY <1>0, ConstantsAssumption DEF FailureRecord
    <2>3. "putDisabled" \in PCs \ Removing
        BY DEF PCs, Removing
    <2>4. CASE n < DeleteAfterFailures
        <3>1. ~(n >= DeleteAfterFailures)
            <4> HIDE DEF n
            <4> QED BY <2>0, <2>4
        <3>2. Goto(t, "putDisabled", o)
            <4> HIDE DEF n, o
            <4> QED BY <2>1, <3>1
        <3> HIDE DEF r, n, o
        <3> QED BY <1>a, <2>1, <2>2, <2>3, <3>2
    <2>5. CASE n >= DeleteAfterFailures
        <3>1. Goto(t, "dropRecord", o) /\ o.key = k
            BY <2>1, <2>5 DEF NewOperation
        <3>2. \A j \in Keys : /\ failures'[j].disabled = failures[j].disabled
                              /\ failures'[j].cooldown = failures[j].cooldown
            <4> HIDE DEF r
            <4> QED BY <1>0, <2>1, <2>2 DEF TypeOK
        <3> HIDE DEF r, n, o
        <3> QED BY <1>0, <2>1, <3>1, <3>2, GiveUpFollows
    <2> QED BY <2>0, <2>4, <2>5
<1> QED BY <1>1, <1>2, <1>3, <1>4

\* The record goes: until the node goes too it is usable, as after a report of
\* success.
LEMMA DropFollows ==
    ASSUME PoolInv, SeenInv, NEW t \in Threads, DropRecord(t)
    PROVE  LifeStep /\ SeenInv'
<1>k. PICK k \in Keys : k = op[t].key
    BY DEF PoolInv, DropRecord, ThreadsSound, ThreadSound
<1>0. TypeOK /\ k \in NodesSeen
    BY <1>k DEF PoolInv, DropRecord, SeenInv, ThreadsSound, ThreadSound, Removing
<1>1. /\ failures' = [failures EXCEPT ![k] = FreshRecord]
      /\ UNCHANGED <<proxies, retired, restarts>>
      /\ pc'[t] = "retire" /\ op'[t] = op[t] /\ pc[t] = "dropRecord"
      /\ \A u \in Threads \ {t} : pc'[u] = pc[u] /\ op'[u] = op[u]
    BY <1>k, <1>0 DEF DropRecord, Goto, TypeOK, poolVars
<1>2. \A j : GivenUp(j)' <=> GivenUp(j)
    BY <1>1 DEF GivenUp
<1>3. ASSUME NEW j \in Keys \ {k} PROVE StatusOf(j)' = StatusOf(j)
    BY <1>0, <1>1, <1>3 DEF StatusOf, TypeOK
<1>a. failures'[k].disabled = FALSE /\ failures'[k].cooldown = "none"
    BY <1>0, <1>1 DEF TypeOK, FreshRecord
<1>4. Allowed(StatusOf(k), StatusOf(k)')
    BY <1>1, <1>a DEF StatusOf, Allowed
<1>b. Doomed' = Doomed
    BY <1>1, <1>2, SameDoomed
<1>5. LifeStep
    BY <1>1, <1>3, <1>4, <1>b, OneNode
<1>6. NodesSeen' = NodesSeen
    BY <1>1 DEF NodesSeen
<1>7. SeenInv'
    BY <1>k, <1>0, <1>1, <1>6, SeenMove DEF TypeOK
<1> QED BY <1>5, <1>7

\* The node goes, if it is there, whatever reports made of it since it was given
\* up.
LEMMA RetireFollows ==
    ASSUME PoolInv, SeenInv, NEW t \in Threads, Retire(t)
    PROVE  LifeStep /\ SeenInv'
<1>k. PICK k \in Keys : k = op[t].key
    BY DEF PoolInv, Retire, ThreadsSound, ThreadSound
<1>0. /\ TypeOK /\ k \in NodesSeen /\ RetiredNotActive
      /\ proxies \in Seq(Keys) /\ IsInjective(proxies) /\ pc[t] = "retire"
    BY <1>k DEF PoolInv, Retire, SeenInv, ThreadsSound, ThreadSound, TypeOK, NoDuplicateNodes,
       Removing
<1>1. /\ retired' = retired \cup {k} /\ UNCHANGED <<failures, restarts>>
      /\ pc'[t] \notin Removing
      /\ \A u \in Threads \ {t} : pc'[u] = pc[u] /\ op'[u] = op[u]
    BY <1>k, <1>0 DEF Retire, Goto, TypeOK, Removing
<1>2. \A j \in Keys \ {k} : j \in Range(proxies') <=> j \in Range(proxies)
    <2>1. CASE k \in Range(proxies)
        <3>1. proxies' = Without(proxies, k)
            BY <1>k, <2>1 DEF Retire
        <3> QED BY <1>0, <2>1, <3>1, WithoutFacts, WithoutKeeps
    <2>2. CASE k \notin Range(proxies)
        BY <1>k, <2>2 DEF Retire
    <2> QED BY <2>1, <2>2
<1>3. k \notin Range(proxies')
    <2>1. CASE k \in Range(proxies)
        <3>1. proxies' = Without(proxies, k)
            BY <1>k, <2>1 DEF Retire
        <3> QED BY <1>0, <2>1, <3>1, WithoutFacts
    <2>2. CASE k \notin Range(proxies)
        BY <1>k, <2>2 DEF Retire
    <2> QED BY <2>1, <2>2
<1>4. GivenUp(k) /\ \A j : j # k => (GivenUp(j)' <=> GivenUp(j))
    BY <1>k, <1>0, <1>1 DEF GivenUp, Removing
<1>5. ASSUME NEW j \in Keys \ {k} PROVE StatusOf(j)' = StatusOf(j)
    BY <1>1, <1>2 DEF StatusOf
<1>6. StatusOf(k)' = "retired"
    BY <1>1, <1>3 DEF StatusOf
<1>a. Range(proxies') \subseteq Range(proxies)
    <2>1. CASE k \in Range(proxies)
        <3>1. proxies' = Without(proxies, k)
            BY <1>k, <2>1 DEF Retire
        <3> QED BY <1>0, <2>1, <3>1, WithoutFacts
    <2>2. CASE k \notin Range(proxies)
        <3>1. proxies' = proxies
            BY <1>k, <2>2 DEF Retire
        <3> QED BY <3>1
    <2> QED BY <2>1, <2>2
<1>c. Range(proxies) \subseteq Keys
    BY <1>0 DEF Range
<1>b. Doomed' = Doomed \ {k}
    BY <1>2, <1>3, <1>4, <1>a, <1>c DEF Doomed
<1>7. LifeStep
    <2>1. CASE k \in Range(proxies)
        <3>1. k \in Doomed /\ Status[k] \in Life!InPool
            BY <1>4, <2>1 DEF Doomed, Status, StatusOf, Life!InPool
        <3>2. Status' = [Status EXCEPT ![k] = "retired"]
            BY <1>5, <1>6 DEF Status
        <3>3. Life!Leave(k)
            BY <1>1, <1>b, <3>1, <3>2 DEF Life!Leave
        <3> QED BY <3>3 DEF LifeStep, Life!LifeNext
    <2>2. CASE k \notin Range(proxies)
        <3>1. StatusOf(k) = "retired" /\ k \notin Doomed
            BY <1>0, <2>2 DEF StatusOf, NodesSeen, Doomed
        <3>2. Status' = Status /\ Doomed' = Doomed
            BY <1>5, <1>6, <1>b, <3>1 DEF Status
        <3> QED BY <1>1, <3>2 DEF LifeStep
    <2> QED BY <2>1, <2>2
<1>8. NodesSeen \subseteq NodesSeen'
    <2>1. Range(proxies) \subseteq Keys
        BY <1>0 DEF Range
    <2> QED BY <1>1, <1>2, <2>1 DEF NodesSeen
<1>9. SeenInv'
    BY <1>1, <1>8, SeenMove
<1> QED BY <1>7, <1>9

\* Writing the disabled list, resetting the bag and saving.
LEMMA FollowUpsFollow ==
    ASSUME PoolInv, SeenInv, NEW t \in Threads,
           \/ PutDisabled(t) \/ RemoveDisabled(t)
           \/ ReadGeneration(t) \/ ResetSelection(t)
           \/ SaveBegin(t) \/ SaveEnd(t)
           \/ Flush(t)
    PROVE  LifeStep /\ SeenInv'
<1>0. TypeOK /\ op[t] \in Operation
    BY DEF PoolInv, TypeOK
<1>1. Continue(op[t]) \notin Removing
    BY DEF Continue, Removing
<1>2. \E label \in PCs \ Removing : \E o :
        pc[t] \notin Removing /\ Goto(t, label, o)
    <2>1. CASE PutDisabled(t) \/ RemoveDisabled(t)
        BY <1>0, <1>1, <2>1, ContinueFacts DEF PutDisabled, RemoveDisabled, WriteDisabled, Removing
    <2>2. CASE ReadGeneration(t)
        BY <2>2 DEF ReadGeneration, PCs, Removing
    <2>3. CASE ResetSelection(t)
        BY <1>0, <1>1, <2>3, ContinueFacts DEF ResetSelection, Removing
    <2>4. CASE SaveBegin(t)
        BY <2>4 DEF SaveBegin, PCs, Removing
    <2>5. CASE SaveEnd(t)
        BY <1>0, <1>1, <2>5, ContinueFacts DEF SaveEnd, Removing
    <2>6. CASE Flush(t)
        BY <2>6 DEF Flush, PCs, Removing
    <2> QED BY <2>1, <2>2, <2>3, <2>4, <2>5, <2>6
<1>3. UNCHANGED <<proxies, retired, failures, restarts>>
    BY DEF PutDisabled, RemoveDisabled, WriteDisabled, ReadGeneration, ResetSelection,
       SaveBegin, SaveEnd, Flush, poolVars
<1>4. /\ pc'[t] \notin Removing
      /\ \A u \in Threads \ {t} : pc'[u] = pc[u] /\ op'[u] = op[u]
      /\ \A j : GivenUp(j)' <=> GivenUp(j)
    BY <1>0, <1>2, GotoNotGivingUp
<1>5. LifeStep
    BY <1>3, <1>4, NoNode
<1>6. NodesSeen' = NodesSeen
    BY <1>3 DEF NodesSeen
<1>7. SeenInv'
    BY <1>3, <1>4, <1>6, SeenMove
<1> QED BY <1>5, <1>7

\* New nodes join together; each was absent and is usable or disabled then.
LEMMA MergeFollows ==
    ASSUME PoolInv, SeenInv, NEW t \in Threads, NEW source \in SUBSET Keys,
           Merge(t, source)
    PROVE  LifeStep /\ SeenInv'
<1>0. /\ TypeOK /\ proxies \in Seq(Keys) /\ IsInjective(proxies) /\ pc[t] = "idle"
      /\ Added(source) \subseteq Keys /\ Added(source) \cap NodesSeen = {}
      /\ failures \in [Keys -> FailureRecord]
      /\ Range(proxies) \subseteq Keys /\ retired \subseteq Keys
    BY DEF PoolInv, TypeOK, NoDuplicateNodes, Merge, Added, NodesSeen, Range
<1>1. PICK tail \in Seq(Keys) :
        /\ Range(tail) \subseteq Added(source)
        /\ Range(proxies') = Range(proxies) \cup Range(tail)
    <2>1. CASE Added(source) = {}
        <3>1. proxies' = proxies
            BY <2>1 DEF Merge
        <3>2. Range(<<>>) = {} /\ <<>> \in Seq(Keys)
            BY DEF Range
        <3> QED BY <3>1, <3>2
    <2>2. CASE Added(source) # {}
        <3>1. proxies' \in Appended(Added(source))
            BY <2>2 DEF Merge
        <3>2. PICK tail \in Orderings(Added(source)) : proxies' = proxies \o tail
            BY <3>1 DEF Appended
        <3>3. tail \in Seq(Keys) /\ IsInjective(tail) /\ Range(tail) \subseteq Added(source)
            BY <1>0, OrderingsFacts
        <3>4. Range(proxies) \cap Range(tail) = {}
            BY <1>0, <3>3 DEF NodesSeen
        <3>5. Range(proxies \o tail) = Range(proxies) \cup Range(tail)
            BY <1>0, <3>3, <3>4, AppendFacts
        <3> QED BY <3>2, <3>3, <3>5
    <2> QED BY <2>1, <2>2
<1>2. /\ UNCHANGED <<retired, restarts>>
      /\ failures' = [k \in Keys |->
             IF k \in Added(source) /\ disabledByHash[k] # Absent
             THEN DisabledRecord(disabledByHash[k]) ELSE failures[k]]
    BY DEF Merge
<1>3. /\ pc'[t] \notin Removing
      /\ \A u \in Threads \ {t} : pc'[u] = pc[u] /\ op'[u] = op[u]
      /\ \A j : GivenUp(j)' <=> GivenUp(j)
    <2>1. \E label \in {"reset", "save", "idle"} : \E o : Goto(t, label, o)
        <3>1. CASE Added(source) = {}
            BY <3>1 DEF Merge
        <3>2. CASE Added(source) # {}
            BY <3>2 DEF Merge
        <3> QED BY <3>1, <3>2
    <2>2. pc[t] \notin Removing /\ {"reset", "save", "idle"} \cap Removing = {}
        BY <1>0 DEF Removing
    <2> QED BY <1>0, <2>1, <2>2, GotoNotGivingUp
<1>4. ASSUME NEW k \in Range(tail)
      PROVE  StatusOf(k) = "absent" /\ StatusOf(k)' \in {"usable", "disabled"}
    <2>1. k \in Keys /\ k \in Added(source) /\ k \notin NodesSeen
        BY <1>0, <1>1, <1>4
    <2>2. failures'[k].disabled \/ failures'[k].cooldown # "active"
        BY <1>2, <2>1 DEF SeenInv, DisabledRecord
    <2> QED BY <1>1, <1>2, <1>3, <2>1, <2>2 DEF StatusOf, NodesSeen
<1>5. ASSUME NEW k \in Keys \ Range(tail) PROVE StatusOf(k)' = StatusOf(k)
    <2>1. CASE k \in Added(source)
        BY <1>0, <1>1, <1>2, <1>5, <2>1 DEF StatusOf, NodesSeen
    <2>2. CASE k \notin Added(source)
        <3>1. failures'[k] = failures[k]
            BY <1>2, <2>2
        <3> QED BY <1>1, <1>2, <1>3, <1>5, <3>1 DEF StatusOf
    <2> QED BY <2>1, <2>2
<1>a. Doomed' = Doomed
    <2>1. ASSUME NEW k \in Range(tail) PROVE ~GivenUp(k)
        BY <1>0, <1>1, <2>1 DEF SeenInv, GivenUp, Removing
    <2> QED BY <1>1, <1>3, <2>1 DEF Doomed
<1>6. Life!Join(Range(tail))
    <2> DEFINE disabled == {k \in Range(tail) : StatusOf(k)' = "disabled"}
    <2>1. disabled \in SUBSET Range(tail)
        OBVIOUS
    <2>2. \A k \in Range(tail) : Status[k] = "absent"
        BY <1>0, <1>1, <1>4 DEF Status
    <2>3. Status' = [k \in Keys |-> IF k \notin Range(tail) THEN Status[k]
                        ELSE IF k \in disabled THEN "disabled" ELSE "usable"]
        BY <1>4, <1>5 DEF Status
    <2> HIDE DEF disabled
    <2> QED BY <1>2, <1>a, <2>1, <2>2, <2>3 DEF Life!Join
<1>7. LifeStep
    <2>1. Range(tail) \in SUBSET Keys
        BY <1>0, <1>1
    <2> QED BY <1>6, <2>1 DEF LifeStep, Life!LifeNext
<1>8. NodesSeen \subseteq NodesSeen'
    BY <1>1, <1>2 DEF NodesSeen
<1>9. \A k \in Keys : failures'[k].cooldown = "active" => failures[k].cooldown = "active"
    BY <1>2 DEF DisabledRecord
<1>10. SeenInv'
    BY <1>3, <1>8, <1>9, SeenMove
<1> QED BY <1>7, <1>10

\* A cooldown ends.
LEMMA CooldownFollows ==
    ASSUME PoolInv, SeenInv, NEW k \in Keys, CooldownElapses(k)
    PROVE  LifeStep /\ SeenInv'
<1>0. /\ TypeOK /\ failures[k] \in FailureRecord
      /\ UNCHANGED <<proxies, retired, restarts, pc, op>>
      /\ failures' = [failures EXCEPT ![k].cooldown = "expired"]
    BY DEF PoolInv, TypeOK, CooldownElapses, poolVars, threadVars
<1> DEFINE r == [failures[k] EXCEPT !.cooldown = "expired"]
<1>1. /\ failures' = [failures EXCEPT ![k] = r]
      /\ r.cooldown = "expired" /\ r.disabled = failures[k].disabled
    BY <1>0 DEF FailureRecord
<1>2. \A j : GivenUp(j)' <=> GivenUp(j)
    BY <1>0 DEF GivenUp
<1>3. LifeStep
    <2> HIDE DEF r
    <2> QED BY <1>0, <1>1, <1>2, ReportLife
<1>4. NodesSeen' = NodesSeen
    BY <1>0 DEF NodesSeen
<1>5. \A j \in Keys : failures'[j].cooldown = "active" => failures[j].cooldown = "active"
    BY <1>0, <1>1 DEF TypeOK
<1>6. SeenInv'
    BY <1>0, <1>4, <1>5 DEF SeenInv
<1> QED BY <1>3, <1>6

\* A restart finds no cooldown and no removal in progress.
LEMMA RestartFollows ==
    ASSUME Restart PROVE LifeStep /\ SeenInv'
<1>1. PICK f : Construct(f) /\ restarts' = restarts + 1
    BY DEF Restart
<1>2. \A k \in Keys : failures'[k].cooldown = "none"
    BY <1>1 DEF Construct, RestoredRecords, DisabledRecord, FreshRecord
<1>3. \A t \in Threads : pc'[t] = "idle"
    BY <1>1 DEF Construct
<1>4. SeenInv'
    BY <1>2, <1>3 DEF SeenInv, Removing
<1>5. Status' \in [Keys -> Life!Statuses \ {"cooling"}]
    BY <1>2 DEF Status, StatusOf, Life!Statuses
<1>a. Doomed' = {}
    BY <1>3 DEF Doomed, GivenUp
<1>6. Life!StartAgain
    BY <1>1, <1>5, <1>a DEF Life!StartAgain
<1> QED BY <1>4, <1>6 DEF LifeStep, Life!LifeNext

\* Every step of the pool is a step of the lives of its nodes, or none.
LEMMA PoolStepFollows ==
    ASSUME PoolInv, SeenInv, [Next]_vars PROVE LifeStep /\ SeenInv'
<1>0. NodesSeen \subseteq Keys
    BY DEF PoolInv, TypeOK, NodesSeen, Range
<1>s. ASSUME NEW t \in Threads,
             \/ \E tried \in SUBSET NodesSeen : BeginScan(t, tried)
             \/ ScanStep(t)
             \/ EndScan(t)
      PROVE  LifeStep /\ SeenInv'
    <2>1. NodesSeen' = NodesSeen
        BY <1>s, ScanLife DEF NodesSeen
    <2>2. SeenInv'
        BY <1>s, <2>1, ScanLife, SeenMove
    <2> QED BY <1>s, <2>2, ScanLife
<1>1. ASSUME NEW t \in Pickers, PickerCall(t) PROVE LifeStep /\ SeenInv'
    BY <1>1, <1>s DEF PickerCall, Threads
<1>2. ASSUME NEW t \in Reporters, ReporterCall(t) PROVE LifeStep /\ SeenInv'
    BY <1>2, ReportsFollow DEF ReporterCall, Threads
<1>3. ASSUME NEW t \in Workers, WorkerCall(t) PROVE LifeStep /\ SeenInv'
    BY <1>3, ReportsFollow DEF WorkerCall, Threads
<1>4. ASSUME RefresherCall(Refresher) PROVE LifeStep /\ SeenInv'
    BY <1>4, MergeFollows, FollowUpsFollow DEF RefresherCall, Threads
<1>5. ASSUME NEW t \in Threads, Step(t) PROVE LifeStep /\ SeenInv'
    BY <1>5, <1>s, FollowUpsFollow, DropFollows, RetireFollows DEF Step
<1>6. ASSUME NEW k \in Keys, CooldownElapses(k) PROVE LifeStep /\ SeenInv'
    BY <1>6, CooldownFollows
<1>7. CASE Restart
    BY <1>7, RestartFollows
<1>8. CASE UNCHANGED vars
    <2>1. UNCHANGED <<proxies, retired, failures, restarts, pc, op>>
        BY <1>8 DEF vars, poolVars, threadVars
    <2>2. LifeStep
        BY <2>1, NoNode DEF GivenUp
    <2>3. SeenInv'
        BY <2>1 DEF SeenInv, NodesSeen
    <2> QED BY <2>2, <2>3
<1> QED BY <1>1, <1>2, <1>3, <1>4, <1>5, <1>6, <1>7, <1>8 DEF Next

\* The pool implements NodeLife: with any number of nodes and threads, nodes
\* join once, are given up only while they are disabled, and only those leave,
\* for good.
THEOREM PoolImplementsLife == Spec => NodesFollowLifeCycle
<1>1. Init => Life!LifeInit /\ SeenInv
    BY DEF Init, Life!LifeInit, Status, StatusOf, Doomed, SeenInv, FreshRecord, Range, Removing
<1>2. PoolInv /\ SeenInv /\ [Next]_vars => LifeStep /\ SeenInv'
    BY PoolStepFollows
<1> QED BY <1>1, <1>2, PoolInvariant, PTL
        DEF Spec, NodesFollowLifeCycle, Life!LifeSpec, Life!lifeVars, LifeStep

=============================================================================
