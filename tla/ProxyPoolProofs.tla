--------------------------- MODULE ProxyPoolProofs ---------------------------
(* Proofs about ProxyPool for every number of nodes, tasks and workers and *)
(* every threshold.                                                        *)
EXTENDS ProxyPool, FiniteSetTheorems, SequenceTheorems, TLAPS

\* An ordering of a set of keys is a duplicate-free vector of those keys.
LEMMA OrderingsFacts ==
    ASSUME NEW S \in SUBSET Keys, NEW s \in Orderings(S)
    PROVE  s \in Seq(Keys) /\ IsInjective(s) /\ Range(s) \subseteq S
<1>1. Cardinality(S) \in Nat
    BY ConstantsAssumption, FS_Subset, FS_CardinalityType
<1>2. s \in [1..Cardinality(S) -> S] /\ IsInjective(s)
    BY DEF Orderings, Injection
<1>3. s \in Seq(S)
    BY <1>1, <1>2
<1> QED
    BY <1>2, <1>3 DEF Range

\* Removing a key from a duplicate-free vector leaves a duplicate-free vector
\* of the other keys: Retire's filter.
LEMMA WithoutFacts ==
    ASSUME NEW s \in Seq(Keys), IsInjective(s), NEW k \in Range(s)
    PROVE  /\ Without(s, k) \in Seq(Keys)
           /\ IsInjective(Without(s, k))
           /\ Range(Without(s, k)) \subseteq Range(s) \ {k}
<1> DEFINE i == CHOOSE j \in DOMAIN s : s[j] = k
           w == [j \in 1..(Len(s) - 1) |-> IF j < i THEN s[j] ELSE s[j + 1]]
<1>1. i \in 1..Len(s) /\ s[i] = k
    BY DEF Range
<1>2. Len(s) \in Nat /\ DOMAIN s = 1..Len(s) /\ \A j \in 1..Len(s) : s[j] \in Keys
    OBVIOUS
<1>3. \A j \in 1..(Len(s) - 1) : w[j] \in Keys /\ w[j] \in Range(s) \ {k}
    BY <1>1, <1>2 DEF Range, IsInjective
<1>4. w \in Seq(Keys)
    BY <1>2, <1>3
<1>5. \A a, b \in 1..(Len(s) - 1) : w[a] = w[b] => a = b
    BY <1>1, <1>2 DEF IsInjective
<1>6. Without(s, k) = w
    BY DEF Without
<1> QED
    BY <1>3, <1>4, <1>5, <1>6 DEF Range, IsInjective

\* Appending a duplicate-free vector of new keys keeps the keys distinct:
\* Merge's loop.
LEMMA AppendFacts ==
    ASSUME NEW s \in Seq(Keys), IsInjective(s),
           NEW t \in Seq(Keys), IsInjective(t), Range(s) \cap Range(t) = {}
    PROVE  /\ s \o t \in Seq(Keys)
           /\ IsInjective(s \o t)
           /\ Range(s \o t) = Range(s) \cup Range(t)
<1>1. /\ s \o t \in Seq(Keys)
      /\ Len(s \o t) = Len(s) + Len(t)
      /\ \A j \in 1..(Len(s) + Len(t)) :
            (s \o t)[j] = IF j <= Len(s) THEN s[j] ELSE t[j - Len(s)]
    BY ConcatProperties
<1>2. Len(s) \in Nat /\ Len(t) \in Nat /\ DOMAIN s = 1..Len(s) /\ DOMAIN t = 1..Len(t)
      /\ DOMAIN (s \o t) = 1..(Len(s) + Len(t))
    BY <1>1
<1>3. \A j \in 1..Len(s), m \in 1..Len(t) : s[j] # t[m]
    BY <1>2 DEF Range
<1>4. IsInjective(s \o t)
    BY <1>1, <1>2, <1>3 DEF IsInjective
<1>5. Range(s \o t) \subseteq Range(s) \cup Range(t)
    <2> SUFFICES ASSUME NEW j \in 1..(Len(s) + Len(t))
                 PROVE  (s \o t)[j] \in Range(s) \cup Range(t)
        BY <1>2 DEF Range
    <2>1. CASE j <= Len(s)
        BY <2>1, <1>1, <1>2 DEF Range
    <2>2. CASE ~(j <= Len(s))
        <3>1. j - Len(s) \in 1..Len(t)
            BY <2>2, <1>2
        <3> QED
            BY <2>2, <3>1, <1>1, <1>2 DEF Range
    <2> QED BY <2>1, <2>2
<1>6. Range(s) \subseteq Range(s \o t)
    <2> SUFFICES ASSUME NEW j \in 1..Len(s) PROVE s[j] \in Range(s \o t)
        BY <1>2 DEF Range
    <2>1. j \in 1..(Len(s) + Len(t)) /\ (s \o t)[j] = s[j]
        BY <1>1, <1>2
    <2> QED BY <2>1, <1>2 DEF Range
<1>7. Range(t) \subseteq Range(s \o t)
    <2> SUFFICES ASSUME NEW j \in 1..Len(t) PROVE t[j] \in Range(s \o t)
        BY <1>2 DEF Range
    <2>1. /\ j + Len(s) \in 1..(Len(s) + Len(t)) /\ ~(j + Len(s) <= Len(s))
          /\ (j + Len(s)) - Len(s) = j
        BY <1>2
    <2>2. (s \o t)[j + Len(s)] = t[j]
        BY <1>1, <2>1
    <2> QED BY <2>1, <2>2, <1>2 DEF Range
<1> QED
    BY <1>1, <1>4, <1>5, <1>6, <1>7

-----------------------------------------------------------------------------

\* Goto moves one thread and keeps the types of pc and op.
LEMMA GotoFacts ==
    ASSUME TypeOK, NEW t \in Threads, NEW label \in PCs, NEW o \in Operation,
           Goto(t, label, o)
    PROVE  /\ pc' \in [Threads -> PCs]
           /\ op' \in [Threads -> Operation]
           /\ pc'[t] = label
           /\ label # "idle" => op'[t] = o
           /\ \A u \in Threads \ {t} : pc'[u] = pc[u] /\ op'[u] = op[u]
<1>1. NoOperation \in Operation
    BY DEF NoOperation, Operation
<1> QED
    BY <1>1 DEF Goto, TypeOK

\* The critical section a thread continues with is a known one and never the
\* reset itself.
LEMMA ContinueFacts ==
    ASSUME NEW o \in Operation
    PROVE  Continue(o) \in PCs /\ Continue(o) # "reset"
BY DEF Continue, PCs

\* The records, operations and files the actions write have their types.
LEMMA RecordTypes ==
    /\ FreshRecord \in FailureRecord
    /\ \A n \in Nat : DisabledRecord(n) \in FailureRecord
    /\ \A r \in FailureRecord : Thawed(r) \in FailureRecord /\ Failed(r) \in FailureRecord
    /\ \A k \in Keys \cup {NoKey}, n \in Nat, a, b \in BOOLEAN :
            NewOperation(k, n, a, b) \in Operation
    /\ EmptyFile \in PersistedState
<1>1. FreshRecord \in FailureRecord
    BY DEF FreshRecord, FailureRecord
<1>2. ASSUME NEW n \in Nat PROVE DisabledRecord(n) \in FailureRecord
    BY ConstantsAssumption DEF DisabledRecord, FailureRecord
<1>3. ASSUME NEW r \in FailureRecord PROVE Thawed(r) \in FailureRecord
    BY DEF Thawed, FailureRecord
<1>4. ASSUME NEW r \in FailureRecord PROVE Failed(r) \in FailureRecord
    <2> DEFINE s == Thawed(r)
    <2>1. s \in FailureRecord BY <1>3
    <2>2. Failed(r) \in
            {[s EXCEPT !.failures = s.failures + 1],
             [s EXCEPT !.failures = 0, !.cooldowns = s.cooldowns + 1, !.cooldown = "active"],
             [s EXCEPT !.failures = 0, !.cooldowns = s.cooldowns + 1, !.cooldown = "none",
                       !.disabled = TRUE, !.recheckFailures = 0]}
        BY DEF Failed
    <2> HIDE DEF s
    <2>3. [s EXCEPT !.failures = s.failures + 1] \in FailureRecord
        BY <2>1 DEF FailureRecord
    <2>4. ASSUME NEW q \in FailureRecord
          PROVE  /\ [q EXCEPT !.failures = 0] \in FailureRecord
                 /\ [q EXCEPT !.cooldown = "active"] \in FailureRecord
                 /\ [q EXCEPT !.cooldown = "none"] \in FailureRecord
                 /\ [q EXCEPT !.disabled = TRUE] \in FailureRecord
                 /\ [q EXCEPT !.recheckFailures = 0] \in FailureRecord
                 /\ \A n \in Nat : [q EXCEPT !.cooldowns = n] \in FailureRecord
        BY DEF FailureRecord
    <2>5. s.cooldowns + 1 \in Nat
        BY <2>1 DEF FailureRecord
    <2> DEFINE a == [s EXCEPT !.failures = 0, !.cooldowns = s.cooldowns + 1]
    <2>6. a \in FailureRecord
        BY <2>1, <2>4, <2>5
    <2> HIDE DEF a
    <2>7. [a EXCEPT !.cooldown = "active"] \in FailureRecord
        BY <2>4, <2>6
    <2>8. [a EXCEPT !.cooldown = "none"] \in FailureRecord
        BY <2>4, <2>6
    <2>9. [a EXCEPT !.cooldown = "none", !.disabled = TRUE, !.recheckFailures = 0]
            \in FailureRecord
        BY <2>4, <2>8
    <2> QED BY <2>2, <2>3, <2>7, <2>9 DEF a
<1>5. ASSUME NEW k \in Keys \cup {NoKey}, NEW n \in Nat, NEW a \in BOOLEAN, NEW b \in BOOLEAN
      PROVE  NewOperation(k, n, a, b) \in Operation
    BY DEF NewOperation, Operation
<1>6. EmptyFile \in PersistedState
    BY DEF EmptyFile, PersistedState, Absent
<1> QED BY <1>1, <1>2, <1>3, <1>4, <1>5, <1>6

\* If one thread moves soundly and the generation does not fall, every thread
\* stays sound.
LEMMA MoveSound ==
    ASSUME TypeOK, ThreadsSound, NEW t \in Threads,
           generation' \in Nat, generation <= generation',
           \A u \in Threads \ {t} : pc'[u] = pc[u] /\ op'[u] = op[u],
           pc'[t] = "reset" => op'[t].gen <= generation',
           pc'[t] \in {"dropRecord", "retire"} => op'[t].key \in Keys
    PROVE  ThreadsSound'
<1> SUFFICES ASSUME NEW u \in Threads
             PROVE  /\ pc'[u] = "reset" => op'[u].gen <= generation'
                    /\ pc'[u] \in {"dropRecord", "retire"} => op'[u].key \in Keys
    BY DEF ThreadsSound, ThreadSound
<1>1. CASE u = t
    BY <1>1
<1>2. CASE u # t
    <2>1. pc'[u] = pc[u] /\ op'[u] = op[u] /\ op[u].gen \in Nat /\ generation \in Nat
        BY <1>2 DEF TypeOK, Operation
    <2> QED BY <2>1 DEF ThreadsSound, ThreadSound
<1> QED BY <1>1, <1>2

\* A step that leaves the pool and the bag alone keeps the invariant if it
\* keeps the types and starts no reset to a generation ahead of the pool's.
LEMMA QuietStep ==
    ASSUME PoolInv, TypeOK', UNCHANGED <<poolVars, bag>>,
           ThreadsSound'
    PROVE  PoolInv'
BY DEF PoolInv, NoDuplicateNodes, RetiredNotActive, BagIndicesInRange, BagNotAhead,
       poolVars

\* The first start, without a state file, satisfies the invariant.
LEMMA InitInv == Init => PoolInv
<1> SUFFICES ASSUME Init PROVE PoolInv
    OBVIOUS
<1>1. TypeOK
    <2>1. NoOperation \in Operation BY DEF NoOperation, Operation
    <2>2. NoScan \in Scan BY DEF NoScan, Scan
    <2>3. FreshRecord \in FailureRecord /\ EmptyFile \in PersistedState
        BY RecordTypes
    <2>4. failures \in [Keys -> FailureRecord] /\ file \in PersistedState
        BY <2>3 DEF Init
    <2>5. /\ pc \in [Threads -> PCs] /\ op \in [Threads -> Operation]
          /\ scan \in [Threads -> Scan] /\ snap \in [Threads -> PersistedState]
        BY <2>1, <2>2, <2>3 DEF Init, PCs
    <2>6. disabledByHash \in [Keys -> Nat \cup {Absent}]
        BY DEF Init
    <2>7. bag \in [generation : Nat, remaining : SUBSET Nat]
        BY DEF Init
    <2>8. retired \subseteq Keys /\ generation \in Nat /\ restarts \in Nat
        BY DEF Init
    <2>9. unsaved \in BOOLEAN
        BY DEF Init
    <2>10. proxies \in Seq(Keys)
        BY DEF Init
    <2> QED BY <2>4, <2>5, <2>6, <2>7, <2>8, <2>9, <2>10 DEF TypeOK
<1>2. proxies = <<>> /\ retired = {} /\ DOMAIN proxies = {}
    BY DEF Init
<1>3. NoDuplicateNodes /\ RetiredNotActive
    BY <1>2 DEF NoDuplicateNodes, RetiredNotActive, IsInjective, Range
<1>4. BagIndicesInRange /\ BagNotAhead /\ ThreadsSound
    BY DEF Init, BagIndicesInRange, BagNotAhead, ThreadsSound, ThreadSound
<1> QED BY <1>1, <1>3, <1>4 DEF PoolInv

-----------------------------------------------------------------------------
(* One lemma per group of actions.                                         *)

\* A scan draws indices that are in range and leaves the rest of the pool alone.
LEMMA ScanInv ==
    ASSUME PoolInv, NEW t \in Threads,
           \/ \E tried \in SUBSET Keys : BeginScan(t, tried)
           \/ ScanStep(t)
           \/ EndScan(t)
    PROVE  PoolInv'
<1> USE DEF poolVars, threadVars
<1>0. TypeOK /\ BagNotAhead /\ ThreadsSound /\ BagIndicesInRange
    BY DEF PoolInv
<1>1. ASSUME NEW tried \in SUBSET Keys, BeginScan(t, tried) PROVE PoolInv'
    <2>1. TypeOK'
        <3>1. PICK ripe \in SUBSET Keys :
                scan' = [scan EXCEPT ![t].tried = tried, ![t].ripe = ripe]
            BY <1>1 DEF BeginScan
        <3>2. scan' \in [Threads -> Scan]
            <4>1. [scan[t] EXCEPT !.tried = tried, !.ripe = ripe] \in Scan
                BY <1>0 DEF TypeOK, Scan
            <4> QED BY <1>0, <3>1, <4>1 DEF TypeOK
        <3>3. pc' \in [Threads -> PCs]
            BY <1>0, <1>1 DEF BeginScan, TypeOK, PCs
        <3> QED BY <1>0, <1>1, <3>2, <3>3 DEF BeginScan, TypeOK
    <2>2. ThreadsSound'
        BY <1>0, <1>1 DEF BeginScan, TypeOK, ThreadsSound, ThreadSound
    <2> QED BY <1>1, <2>1, <2>2, QuietStep DEF BeginScan
<1>2. ASSUME EndScan(t) PROVE PoolInv'
    <2>1. NoOperation \in Operation /\ "idle" \in PCs
        BY DEF NoOperation, Operation, PCs
    <2>2. /\ pc' \in [Threads -> PCs] /\ op' \in [Threads -> Operation]
          /\ pc'[t] = "idle"
          /\ \A u \in Threads \ {t} : pc'[u] = pc[u] /\ op'[u] = op[u]
        BY <1>0, <1>2, <2>1, GotoFacts DEF EndScan
    <2>3. TypeOK'
        BY <1>0, <1>2, <2>2 DEF EndScan, TypeOK, NoScan, Scan
    <2>4. ThreadsSound'
        BY <1>0, <1>2, <2>2, MoveSound DEF EndScan, TypeOK
    <2> QED BY <1>2, <2>3, <2>4, QuietStep DEF EndScan
<1>3. ASSUME ScanStep(t) PROVE PoolInv'
    <2>1. Drawable \subseteq DOMAIN proxies
        BY <1>0 DEF Drawable, MustRefill, BagIndicesInRange
    <2>2. PICK i \in Drawable :
            /\ bag' = [generation |-> generation, remaining |-> Drawable \ {i}]
            /\ IF PassedOver(t, proxies[i])
               THEN Skip(t, proxies[i]) ELSE HandOut(t, proxies[i])
        BY <1>3 DEF ScanStep
    <2>3. DOMAIN proxies \subseteq Nat /\ proxies[i] \in Keys /\ Len(proxies) \in Nat
        BY <1>0, <2>1, <2>2 DEF TypeOK
    <2>4. UNCHANGED <<proxies, retired, disabledByHash, generation, file, snap, unsaved, restarts>>
        BY <1>3 DEF ScanStep
    <2>5. bag' \in [generation : Nat, remaining : SUBSET Nat]
        BY <1>0, <2>1, <2>2, <2>3 DEF TypeOK
    <2>6. DrawCount(t) \in Nat
        BY <1>0 DEF DrawCount, TypeOK, Scan
    <2>7. /\ pc' \in [Threads -> PCs] /\ op' \in [Threads -> Operation]
          /\ scan' \in [Threads -> Scan] /\ failures' \in [Keys -> FailureRecord]
        <3>1. CASE Skip(t, proxies[i])
            <4>1. [scan[t] EXCEPT !.skipped = @ \cup {proxies[i]},
                                  !.scanned = DrawCount(t)] \in Scan
                BY <1>0, <2>3, <2>6 DEF TypeOK, Scan
            <4>2. scan' \in [Threads -> Scan]
                BY <1>0, <3>1, <4>1 DEF Skip, TypeOK
            <4>3. pc' \in [Threads -> PCs]
                BY <1>0, <3>1 DEF Skip, TypeOK, PCs
            <4> QED BY <1>0, <3>1, <4>2, <4>3 DEF Skip, TypeOK
        <3>2. CASE HandOut(t, proxies[i])
            <4>1. Thawed(failures[proxies[i]]) \in FailureRecord
                BY <1>0, <2>3, RecordTypes DEF TypeOK
            <4> QED BY <1>0, <2>3, <3>2, <4>1
                    DEF HandOut, TypeOK, PCs, Operation
        <3> QED BY <2>2, <3>1, <3>2
    <2>8. TypeOK'
        BY <1>0, <2>4, <2>5, <2>7 DEF TypeOK
    <2>9. BagIndicesInRange' /\ BagNotAhead'
        BY <1>0, <2>1, <2>2, <2>4, <2>7 DEF BagIndicesInRange, BagNotAhead, TypeOK
    <2>10. ThreadsSound'
        BY <1>0, <2>2, <2>4 DEF Skip, HandOut, ThreadsSound, ThreadSound, TypeOK
    <2> QED BY <2>4, <2>8, <2>9, <2>10 DEF PoolInv, NoDuplicateNodes, RetiredNotActive
<1> QED BY <1>1, <1>2, <1>3

\* Reports change one failure record and move the reporting thread to a
\* critical section that is not a reset.
LEMMA ReportInv ==
    ASSUME PoolInv, NEW t \in Threads, NEW k \in Keys, NEW persist \in BOOLEAN,
           \/ ReportSuccess(t, k)
           \/ ReportFailure(t, k)
           \/ RecheckSuccess(t, k, persist)
           \/ RecheckFailure(t, k, persist)
    PROVE  PoolInv'
<1>0. TypeOK /\ BagNotAhead /\ ThreadsSound /\ failures[k] \in FailureRecord
    BY DEF PoolInv, TypeOK
<1>1. \E label \in PCs \ {"reset"}, o \in Operation, r \in FailureRecord :
        /\ o.key = k
        /\ Goto(t, label, o)
        /\ failures' = [failures EXCEPT ![k] = r]
        /\ UNCHANGED <<poolVars, bag, file, scan, snap, unsaved, restarts>>
    <2>1. CASE ReportSuccess(t, k)
        <3> DEFINE label == IF failures[k].disabled \/ failures[k].recheckFailures > 0
                            THEN "rmDisabled" ELSE "idle"
        <3>1. label \in PCs \ {"reset"} BY DEF PCs
        <3>2. NewOperation(k, 0, TRUE, FALSE) \in Operation /\ NewOperation(k, 0, TRUE, FALSE).key = k
            BY RecordTypes DEF NewOperation
        <3> QED BY <2>1, <3>1, <3>2, RecordTypes DEF ReportSuccess
    <2>2. CASE ReportFailure(t, k)
        <3> DEFINE r == failures[k]
                   n == IF r.disabled THEN r ELSE Failed(r)
                   label == IF n.disabled /\ ~r.disabled THEN "putDisabled" ELSE "idle"
        <3>1. label \in PCs \ {"reset"} BY DEF PCs
        <3>2. n \in FailureRecord BY <1>0, RecordTypes
        <3>3. NewOperation(k, 0, TRUE, FALSE) \in Operation /\ NewOperation(k, 0, TRUE, FALSE).key = k
            BY RecordTypes DEF NewOperation
        <3>4. /\ Goto(t, label, NewOperation(k, 0, TRUE, FALSE))
              /\ failures' = [failures EXCEPT ![k] = n]
              /\ UNCHANGED <<poolVars, bag, file, scan, snap, unsaved, restarts>>
            BY <2>2 DEF ReportFailure
        <3> QED BY <3>1, <3>2, <3>3, <3>4
    <2>3. CASE RecheckSuccess(t, k, persist)
        <3>1. "rmDisabled" \in PCs \ {"reset"} BY DEF PCs
        <3>2. NewOperation(k, 0, persist, TRUE) \in Operation /\ NewOperation(k, 0, persist, TRUE).key = k
            BY RecordTypes DEF NewOperation
        <3> QED BY <2>3, <3>1, <3>2, RecordTypes DEF RecheckSuccess
    <2>4. CASE RecheckFailure(t, k, persist)
        <3> DEFINE n == failures[k].recheckFailures + 1
                   label == IF n >= DeleteAfterFailures THEN "dropRecord"
                            ELSE "putDisabled"
                   r == [failures[k] EXCEPT !.recheckFailures = n]
        <3>1. label \in PCs \ {"reset"} BY DEF PCs
        <3>2. n \in Nat BY <1>0 DEF FailureRecord
        <3>3. NewOperation(k, n, persist, FALSE) \in Operation /\ NewOperation(k, n, persist, FALSE).key = k
            BY <3>2, RecordTypes DEF NewOperation
        <3>4. r \in FailureRecord
            <4> HIDE DEF n
            <4> QED BY <1>0, <3>2 DEF FailureRecord
        <3>5. /\ Goto(t, label, NewOperation(k, n, persist, FALSE))
              /\ failures' = [failures EXCEPT ![k] = r]
              /\ UNCHANGED <<poolVars, bag, file, scan, snap, unsaved, restarts>>
            BY <2>4 DEF RecheckFailure
        <3> QED BY <3>1, <3>3, <3>4, <3>5
    <2> QED BY <2>1, <2>2, <2>3, <2>4
<1>2. PICK label \in PCs \ {"reset"}, o \in Operation, r \in FailureRecord :
        /\ o.key = k
        /\ Goto(t, label, o)
        /\ failures' = [failures EXCEPT ![k] = r]
        /\ UNCHANGED <<poolVars, bag, file, scan, snap, unsaved, restarts>>
    BY <1>1
<1>3. /\ pc' \in [Threads -> PCs] /\ op' \in [Threads -> Operation] /\ pc'[t] = label
      /\ label # "idle" => op'[t] = o
      /\ \A u \in Threads \ {t} : pc'[u] = pc[u] /\ op'[u] = op[u]
    BY <1>0, <1>2, GotoFacts
<1>4. TypeOK'
    BY <1>0, <1>2, <1>3 DEF TypeOK, poolVars
<1>5. ThreadsSound'
    BY <1>0, <1>2, <1>3, MoveSound DEF TypeOK, poolVars
<1> QED BY <1>2, <1>4, <1>5, QuietStep

\* A deferred removal first drops the record; a cooldown runs out.
LEMMA DropInv ==
    ASSUME PoolInv,
           \/ \E t \in Threads : DropRecord(t)
           \/ \E k \in Keys : CooldownElapses(k)
    PROVE  PoolInv'
<1>0. TypeOK /\ BagNotAhead /\ ThreadsSound
    BY DEF PoolInv
<1>1. ASSUME NEW t \in Threads, DropRecord(t) PROVE PoolInv'
    <2>1. "retire" \in PCs /\ op[t] \in Operation
        BY <1>0 DEF PCs, TypeOK
    <2>2. /\ pc' \in [Threads -> PCs] /\ op' \in [Threads -> Operation]
          /\ pc'[t] = "retire" /\ op'[t] = op[t]
          /\ \A u \in Threads \ {t} : pc'[u] = pc[u] /\ op'[u] = op[u]
        BY <1>0, <1>1, <2>1, GotoFacts DEF DropRecord
    <2>3. failures' \in [Keys -> FailureRecord]
        BY <1>0, <1>1, RecordTypes DEF DropRecord, TypeOK
    <2>4. TypeOK'
        BY <1>0, <1>1, <2>2, <2>3 DEF DropRecord, TypeOK, poolVars
    <2>5. op[t].key \in Keys
        BY <1>0, <1>1 DEF DropRecord, ThreadsSound, ThreadSound
    <2>6. ThreadsSound'
        BY <1>0, <1>1, <2>2, <2>5, MoveSound DEF DropRecord, TypeOK, poolVars
    <2> QED BY <1>1, <2>4, <2>6, QuietStep DEF DropRecord
<1>2. ASSUME NEW k \in Keys, CooldownElapses(k) PROVE PoolInv'
    <2>1. failures' \in [Keys -> FailureRecord]
        <3> DEFINE r == [failures[k] EXCEPT !.cooldown = "expired"]
        <3>1. r \in FailureRecord
            BY <1>0 DEF TypeOK, FailureRecord
        <3>2. failures' = [failures EXCEPT ![k] = r]
            BY <1>2 DEF CooldownElapses
        <3> HIDE DEF r
        <3> QED BY <1>0, <3>1, <3>2 DEF TypeOK
    <2>2. TypeOK'
        BY <1>0, <1>2, <2>1 DEF CooldownElapses, TypeOK, poolVars, threadVars
    <2>3. ThreadsSound'
        BY <1>0, <1>2 DEF CooldownElapses, ThreadsSound, ThreadSound, poolVars, threadVars
    <2> QED BY <1>2, <2>2, <2>3, QuietStep DEF CooldownElapses
<1> QED BY <1>1, <1>2

\* remove_and_retire: the vector shrinks and the generation moves on, so a bag
\* filled for the longer vector is stale from this step on.
LEMMA RetireInv ==
    ASSUME PoolInv, NEW t \in Threads, Retire(t)
    PROVE  PoolInv'
<1> DEFINE k == op[t].key
<1>0. TypeOK /\ BagNotAhead /\ ThreadsSound /\ NoDuplicateNodes /\ RetiredNotActive /\ BagIndicesInRange
      /\ k \in Keys
    BY DEF PoolInv, Retire, ThreadsSound, ThreadSound
<1>1. /\ disabledByHash' \in [Keys -> Nat \cup {Absent}]
      /\ retired' = retired \cup {k} /\ retired' \subseteq Keys
      /\ UNCHANGED <<bag, failures, file, scan, snap, restarts>>
    BY <1>0 DEF Retire, TypeOK
<1>2. CASE k \in Range(proxies)
    <2>1. /\ proxies' = Without(proxies, k) /\ generation' = generation + 1
          /\ Goto(t, "reset", [op[t] EXCEPT !.gen = generation + 1])
          /\ unsaved' = (unsaved \/ ~op[t].save)
        BY <1>2 DEF Retire, NextGeneration
    <2>2. proxies \in Seq(Keys) /\ IsInjective(proxies) /\ generation \in Nat
        BY <1>0 DEF TypeOK, NoDuplicateNodes
    <2>3. /\ proxies' \in Seq(Keys) /\ IsInjective(proxies')
          /\ Range(proxies') \subseteq Range(proxies) \ {k}
        BY <1>2, <2>1, <2>2, WithoutFacts
    <2>4. "reset" \in PCs /\ [op[t] EXCEPT !.gen = generation + 1] \in Operation
        <3>1. op[t] \in Operation /\ generation + 1 \in Nat
            BY <1>0, <2>2 DEF TypeOK
        <3> QED BY <3>1 DEF PCs, Operation
    <2>5. /\ pc' \in [Threads -> PCs] /\ op' \in [Threads -> Operation]
          /\ op'[t] = [op[t] EXCEPT !.gen = generation + 1]
          /\ \A u \in Threads \ {t} : pc'[u] = pc[u] /\ op'[u] = op[u]
        BY <1>0, <2>1, <2>4, GotoFacts
    <2>6. op'[t].gen = generation + 1
        BY <1>0, <2>2, <2>5 DEF TypeOK, Operation
    <2>7. unsaved' \in BOOLEAN
        BY <2>1
    <2>8. TypeOK'
        BY <1>0, <1>1, <2>1, <2>2, <2>3, <2>5, <2>7 DEF TypeOK
    <2>9. NoDuplicateNodes' /\ RetiredNotActive'
        BY <1>0, <1>1, <2>3 DEF NoDuplicateNodes, RetiredNotActive
    <2>10. bag.generation < generation' /\ bag' = bag
        BY <1>0, <1>1, <2>1, <2>2 DEF BagNotAhead, TypeOK
    <2>11. BagIndicesInRange'
        BY <1>0, <2>1, <2>10, <2>2 DEF BagIndicesInRange, TypeOK
    <2>12. BagNotAhead'
        BY <1>0, <2>1, <2>2, <2>10 DEF BagNotAhead, TypeOK
    <2>13. ThreadsSound'
        <3>1. pc'[t] = "reset" /\ generation' \in Nat /\ generation <= generation'
            BY <1>0, <2>1, <2>2, <2>4, GotoFacts
        <3>2. op'[t].gen <= generation' /\ pc'[t] \notin {"dropRecord", "retire"}
            BY <2>1, <2>2, <2>6, <3>1
        <3> HIDE DEF k
        <3> QED BY <1>0, <2>5, <3>1, <3>2, MoveSound
    <2> QED BY <2>8, <2>9, <2>11, <2>12, <2>13 DEF PoolInv
<1>3. CASE k \notin Range(proxies)
    <2>1. /\ UNCHANGED <<proxies, generation>> /\ Goto(t, "idle", NoOperation)
          /\ unsaved' = TRUE
        BY <1>3 DEF Retire
    <2>2. "idle" \in PCs /\ NoOperation \in Operation
        BY DEF PCs, NoOperation, Operation
    <2>3. /\ pc' \in [Threads -> PCs] /\ op' \in [Threads -> Operation]
          /\ pc'[t] = "idle"
          /\ \A u \in Threads \ {t} : pc'[u] = pc[u] /\ op'[u] = op[u]
        BY <1>0, <2>1, <2>2, GotoFacts
    <2>4. unsaved' \in BOOLEAN
        BY <2>1
    <2>5. TypeOK'
        BY <1>0, <1>1, <2>1, <2>3, <2>4 DEF TypeOK
    <2>6. NoDuplicateNodes' /\ RetiredNotActive' /\ BagIndicesInRange'
        BY <1>0, <1>1, <1>3, <2>1
        DEF NoDuplicateNodes, RetiredNotActive, BagIndicesInRange
    <2>7. BagNotAhead' /\ ThreadsSound'
        BY <1>0, <1>1, <2>1, <2>3, MoveSound DEF BagNotAhead, TypeOK
    <2> QED BY <2>5, <2>6, <2>7 DEF PoolInv
<1> QED BY <1>2, <1>3

\* The critical sections that follow a report: disabled_by_hash, the current
\* generation, the bag, and the state file.
LEMMA FollowUpInv ==
    ASSUME PoolInv, NEW t \in Threads,
           \/ PutDisabled(t) \/ RemoveDisabled(t)
           \/ ReadGeneration(t) \/ ResetSelection(t)
           \/ SaveBegin(t) \/ SaveEnd(t)
    PROVE  PoolInv'
<1>0. /\ TypeOK /\ BagNotAhead /\ ThreadsSound /\ BagIndicesInRange
      /\ NoDuplicateNodes /\ RetiredNotActive
      /\ op[t] \in Operation /\ op[t].gen \in Nat /\ op[t].count \in Nat
      /\ Continue(op[t]) \in PCs
    BY ContinueFacts DEF PoolInv, TypeOK, Operation
<1>1. Continue(op[t]) \notin {"reset", "dropRecord", "retire"}
    BY DEF Continue
<1>2. ASSUME NEW label \in {"putDisabled", "rmDisabled"}, NEW n \in Nat \cup {Absent},
             WriteDisabled(t, label, n)
      PROVE  PoolInv'
    <2>1. /\ pc' \in [Threads -> PCs] /\ op' \in [Threads -> Operation]
          /\ pc'[t] = Continue(op[t])
          /\ \A u \in Threads \ {t} : pc'[u] = pc[u] /\ op'[u] = op[u]
        BY <1>0, <1>2, GotoFacts DEF WriteDisabled
    <2>2. disabledByHash' \in [Keys -> Nat \cup {Absent}]
        BY <1>0, <1>2 DEF WriteDisabled, TypeOK
    <2>3. unsaved' \in BOOLEAN
        BY <1>2 DEF WriteDisabled
    <2>4. UNCHANGED <<proxies, retired, generation, bag, failures, file, scan, snap, restarts>>
        BY <1>2 DEF WriteDisabled
    <2>5. TypeOK'
        BY <1>0, <2>1, <2>2, <2>3, <2>4 DEF TypeOK
    <2>6. ThreadsSound'
        BY <1>0, <1>1, <2>1, <2>4, MoveSound DEF TypeOK
    <2> QED BY <1>0, <2>4, <2>5, <2>6
            DEF PoolInv, NoDuplicateNodes, RetiredNotActive, BagIndicesInRange, BagNotAhead
<1>3. CASE PutDisabled(t)
    BY <1>0, <1>2, <1>3 DEF PutDisabled
<1>4. CASE RemoveDisabled(t)
    BY <1>0, <1>2, <1>4 DEF RemoveDisabled
<1>5. CASE ReadGeneration(t)
    <2> DEFINE o == [op[t] EXCEPT !.gen = generation, !.reset = FALSE]
    <2>1. generation \in Nat BY <1>0 DEF TypeOK
    <2>2. o \in Operation /\ o.gen = generation
        <3>1. [op[t] EXCEPT !.gen = generation] \in Operation
            BY <1>0, <2>1 DEF Operation
        <3> QED BY <1>0, <2>1, <3>1 DEF Operation
    <2>3. "reset" \in PCs BY DEF PCs
    <2> HIDE DEF o
    <2>4. /\ pc' \in [Threads -> PCs] /\ op' \in [Threads -> Operation]
          /\ pc'[t] = "reset" /\ op'[t] = o
          /\ \A u \in Threads \ {t} : pc'[u] = pc[u] /\ op'[u] = op[u]
        BY <1>0, <1>5, <2>2, <2>3, GotoFacts DEF ReadGeneration, o
    <2>5. UNCHANGED <<poolVars, bag, failures, file, scan, snap, unsaved, restarts>>
        BY <1>5 DEF ReadGeneration
    <2>6. TypeOK'
        BY <1>0, <2>4, <2>5 DEF TypeOK, poolVars
    <2>7. generation' = generation /\ op'[t].gen <= generation'
        BY <2>1, <2>2, <2>4, <2>5 DEF poolVars
    <2>8. ThreadsSound'
        BY <1>0, <2>1, <2>4, <2>7, MoveSound
    <2> QED BY <2>5, <2>6, <2>8, QuietStep
<1>6. CASE ResetSelection(t)
    <2>1. /\ pc' \in [Threads -> PCs] /\ op' \in [Threads -> Operation]
          /\ pc'[t] = Continue(op[t])
          /\ \A u \in Threads \ {t} : pc'[u] = pc[u] /\ op'[u] = op[u]
        BY <1>0, <1>6, GotoFacts DEF ResetSelection
    <2>2. UNCHANGED <<poolVars, failures, file, scan, snap, unsaved, restarts>>
        BY <1>6 DEF ResetSelection
    <2>3. bag' = [generation |-> op[t].gen, remaining |-> {}] /\ op[t].gen <= generation
        BY <1>0, <1>6 DEF ResetSelection, ThreadsSound, ThreadSound
    <2>4. bag' \in [generation : Nat, remaining : SUBSET Nat]
        BY <1>0, <2>3
    <2>5. TypeOK'
        BY <1>0, <2>1, <2>2, <2>4 DEF TypeOK, poolVars
    <2>6. ThreadsSound'
        BY <1>0, <1>1, <2>1, <2>2, MoveSound DEF TypeOK, poolVars
    <2>7. BagIndicesInRange' /\ BagNotAhead'
        BY <2>2, <2>3 DEF BagIndicesInRange, BagNotAhead, poolVars
    <2> QED BY <1>0, <2>2, <2>5, <2>6, <2>7
            DEF PoolInv, NoDuplicateNodes, RetiredNotActive, poolVars
<1>7. CASE SaveBegin(t)
    <2>1. [op[t] EXCEPT !.save = FALSE] \in Operation /\ "saving" \in PCs
        BY <1>0 DEF Operation, PCs
    <2>2. /\ pc' \in [Threads -> PCs] /\ op' \in [Threads -> Operation]
          /\ pc'[t] = "saving"
          /\ \A u \in Threads \ {t} : pc'[u] = pc[u] /\ op'[u] = op[u]
        BY <1>0, <1>7, <2>1, GotoFacts DEF SaveBegin
    <2>3. Snapshot \in PersistedState
        BY <1>0 DEF Snapshot, PersistedState, TypeOK, Range
    <2>4. snap' \in [Threads -> PersistedState]
        BY <1>0, <1>7, <2>3 DEF SaveBegin, TypeOK
    <2>5. unsaved' \in BOOLEAN
        BY <1>7 DEF SaveBegin
    <2>6. UNCHANGED <<poolVars, bag, failures, file, scan, restarts>>
        BY <1>7 DEF SaveBegin
    <2>7. TypeOK'
        BY <1>0, <2>2, <2>4, <2>5, <2>6 DEF TypeOK, poolVars
    <2>8. ThreadsSound'
        BY <1>0, <2>2, <2>6, MoveSound DEF TypeOK, poolVars
    <2> QED BY <2>6, <2>7, <2>8, QuietStep
<1>8. CASE SaveEnd(t)
    <2>1. /\ pc' \in [Threads -> PCs] /\ op' \in [Threads -> Operation]
          /\ pc'[t] = Continue(op[t])
          /\ \A u \in Threads \ {t} : pc'[u] = pc[u] /\ op'[u] = op[u]
        BY <1>0, <1>8, GotoFacts DEF SaveEnd
    <2>2. file' \in PersistedState
        BY <1>0, <1>8 DEF SaveEnd, TypeOK
    <2>3. snap' \in [Threads -> PersistedState]
        BY <1>0, <1>8, RecordTypes DEF SaveEnd, TypeOK
    <2>4. unsaved' \in BOOLEAN
        BY <1>0, <1>8 DEF SaveEnd, TypeOK
    <2>5. UNCHANGED <<poolVars, bag, failures, scan, restarts>>
        BY <1>8 DEF SaveEnd
    <2>6. TypeOK'
        BY <1>0, <2>1, <2>2, <2>3, <2>4, <2>5 DEF TypeOK, poolVars
    <2>7. ThreadsSound'
        BY <1>0, <1>1, <2>1, <2>5, MoveSound DEF TypeOK, poolVars
    <2> QED BY <2>5, <2>6, <2>7, QuietStep
<1> QED BY <1>3, <1>4, <1>5, <1>6, <1>7, <1>8

\* merge: the vector grows by keys that are neither known nor retired, and the
\* generation moves on in the same critical section.
LEMMA MergeInv ==
    ASSUME PoolInv, NEW t \in Threads, NEW source \in SUBSET Keys, Merge(t, source)
    PROVE  PoolInv'
<1> DEFINE added == source \ (retired \cup Range(proxies))
           label == IF StateEnabled THEN "save" ELSE "idle"
           o == NewOperation(NoKey, 0, TRUE, FALSE)
<1>0. /\ TypeOK /\ BagNotAhead /\ ThreadsSound /\ BagIndicesInRange
      /\ NoDuplicateNodes /\ RetiredNotActive /\ generation \in Nat
      /\ proxies \in Seq(Keys) /\ IsInjective(proxies)
    BY DEF PoolInv, TypeOK, NoDuplicateNodes
<1>1. failures' \in [Keys -> FailureRecord]
    <2>1. failures' = [k \in Keys |->
                 IF k \in added /\ disabledByHash[k] # Absent
                 THEN DisabledRecord(disabledByHash[k]) ELSE failures[k]]
        BY DEF Merge, Added
    <2>2. ASSUME NEW k \in Keys
          PROVE  (IF k \in added /\ disabledByHash[k] # Absent
                  THEN DisabledRecord(disabledByHash[k]) ELSE failures[k]) \in FailureRecord
        BY <1>0, RecordTypes DEF TypeOK
    <2> QED BY <2>1, <2>2
<1>2. UNCHANGED <<retired, disabledByHash, bag, file, scan, snap, unsaved, restarts>>
    BY DEF Merge
<1>3. CASE added # {}
    <2>1. PICK tail \in Orderings(added) : proxies' = proxies \o tail
        BY <1>3 DEF Merge, Added, Appended
    <2>2. /\ generation' = generation + 1
          /\ Goto(t, "reset", [o EXCEPT !.gen = generation + 1])
        BY <1>3 DEF Merge, Added, NextGeneration
    <2>3. tail \in Seq(Keys) /\ IsInjective(tail) /\ Range(tail) \subseteq added
        BY OrderingsFacts
    <2>4. Range(proxies) \cap Range(tail) = {}
        BY <2>3
    <2>5. /\ proxies' \in Seq(Keys) /\ IsInjective(proxies')
          /\ Range(proxies') = Range(proxies) \cup Range(tail)
        BY <1>0, <2>1, <2>3, <2>4, AppendFacts
    <2>6. /\ [o EXCEPT !.gen = generation + 1] \in Operation
          /\ [o EXCEPT !.gen = generation + 1].gen = generation + 1
          /\ "reset" \in PCs
        <3>1. o \in Operation
            BY RecordTypes
        <3>2. generation + 1 \in Nat
            BY <1>0
        <3> HIDE DEF o
        <3> QED BY <3>1, <3>2 DEF Operation, PCs
    <2> HIDE DEF o
    <2>7. /\ pc' \in [Threads -> PCs] /\ op' \in [Threads -> Operation]
          /\ pc'[t] = "reset" /\ op'[t] = [o EXCEPT !.gen = generation + 1]
          /\ \A u \in Threads \ {t} : pc'[u] = pc[u] /\ op'[u] = op[u]
        BY <1>0, <2>2, <2>6, GotoFacts
    <2>8. TypeOK'
        BY <1>0, <1>1, <1>2, <2>2, <2>5, <2>7 DEF TypeOK
    <2>9. NoDuplicateNodes'
        BY <2>5 DEF NoDuplicateNodes
    <2>10. RetiredNotActive'
        BY <1>0, <1>2, <2>3, <2>5 DEF RetiredNotActive
    <2>11. bag'.generation < generation'
        BY <1>0, <1>2, <2>2 DEF BagNotAhead, TypeOK
    <2>12. BagIndicesInRange' /\ BagNotAhead'
        BY <1>0, <1>2, <2>2, <2>11 DEF BagIndicesInRange, BagNotAhead, TypeOK
    <2>13. /\ generation' \in Nat /\ generation <= generation'
           /\ op'[t].gen <= generation'
        BY <1>0, <2>2, <2>6, <2>7
    <2>14. ThreadsSound'
        BY <1>0, <2>7, <2>13, MoveSound
    <2> QED BY <2>8, <2>9, <2>10, <2>12, <2>14 DEF PoolInv
<1>4. CASE added = {}
    <2>1. UNCHANGED <<proxies, generation>> /\ Goto(t, label, o)
        BY <1>4 DEF Merge, Added
    <2>2. label \in PCs /\ o \in Operation
        BY RecordTypes DEF PCs
    <2>3. /\ pc' \in [Threads -> PCs] /\ op' \in [Threads -> Operation]
          /\ pc'[t] = label
          /\ \A u \in Threads \ {t} : pc'[u] = pc[u] /\ op'[u] = op[u]
        BY <1>0, <2>1, <2>2, GotoFacts
    <2>4. TypeOK'
        BY <1>0, <1>1, <1>2, <2>1, <2>3 DEF TypeOK
    <2>5. ThreadsSound'
        BY <1>0, <2>1, <2>3, MoveSound
    <2> QED BY <1>2, <2>1, <2>4, <2>5, QuietStep DEF poolVars
<1> QED BY <1>3, <1>4

\* A flush only queues a save.
LEMMA FlushInv ==
    ASSUME PoolInv, NEW t \in Threads, Flush(t)
    PROVE  PoolInv'
<1>0. TypeOK /\ ThreadsSound
    BY DEF PoolInv
<1>1. "save" \in PCs /\ NewOperation(NoKey, 0, TRUE, FALSE) \in Operation
    BY RecordTypes DEF PCs
<1>2. /\ pc' \in [Threads -> PCs] /\ op' \in [Threads -> Operation]
      /\ pc'[t] = "save"
      /\ \A u \in Threads \ {t} : pc'[u] = pc[u] /\ op'[u] = op[u]
    BY <1>0, <1>1, GotoFacts DEF Flush
<1>3. UNCHANGED <<poolVars, bag, failures, file, scan, snap, unsaved, restarts>>
    BY DEF Flush
<1>4. TypeOK'
    BY <1>0, <1>2, <1>3 DEF TypeOK, poolVars
<1>5. ThreadsSound'
    BY <1>0, <1>2, <1>3, MoveSound DEF TypeOK, poolVars
<1> QED BY <1>3, <1>4, <1>5, QuietStep

\* A restart rebuilds the pool from whatever snapshot is on disk.
LEMMA RestartInv ==
    ASSUME PoolInv, Restart
    PROVE  PoolInv'
<1>0. TypeOK
    BY DEF PoolInv
<1>a. PICK f \in LoadedStates :
        /\ Construct(f)
        /\ \/ /\ file' = IF StateEnabled
                         THEN [f EXCEPT !.available = RestoredKeys(f)]
                         ELSE file
              /\ unsaved' = FALSE
           \/ SavesFail /\ file' = file /\ unsaved' = TRUE
    BY DEF Restart
<1>1. f \in PersistedState /\ file \in PersistedState
    BY <1>0, RecordTypes DEF TypeOK, LoadedStates
<1>2. Construct(f) /\ restarts' = restarts + 1
    BY <1>a DEF Restart
<1>3. f.retired \subseteq Keys /\ f.disabled \in [Keys -> Nat \cup {Absent}]
    BY <1>1 DEF PersistedState
<1>4. RestoredKeys(f) \subseteq Keys /\ RestoredKeys(f) \cap f.retired = {}
    BY ConstantsAssumption DEF RestoredKeys
<1>5. proxies' \in Seq(Keys) /\ IsInjective(proxies') /\ Range(proxies') \subseteq RestoredKeys(f)
    BY <1>2, <1>4, OrderingsFacts DEF Construct
<1>6. failures' \in [Keys -> FailureRecord]
    <2>1. ASSUME NEW k \in Keys
          PROVE  (IF k \in RestoredKeys(f) /\ f.disabled[k] # Absent
                  THEN DisabledRecord(f.disabled[k]) ELSE FreshRecord) \in FailureRecord
        BY <1>3, RecordTypes
    <2> QED BY <1>2, <2>1 DEF Construct, RestoredRecords
<1>7. file' \in PersistedState
    <2>1. [f EXCEPT !.available = RestoredKeys(f)] \in PersistedState
        BY <1>1, <1>4 DEF PersistedState
    <2>2. file' = file \/ file' = [f EXCEPT !.available = RestoredKeys(f)]
        BY <1>a
    <2> QED BY <1>1, <2>1, <2>2
<1>8. unsaved' \in BOOLEAN
    BY <1>a
<1>9. /\ pc' \in [Threads -> PCs] /\ op' \in [Threads -> Operation]
      /\ scan' \in [Threads -> Scan] /\ snap' \in [Threads -> PersistedState]
    <2>1. "idle" \in PCs /\ NoOperation \in Operation /\ NoScan \in Scan
        BY DEF PCs, NoOperation, Operation, NoScan, Scan
    <2>2. EmptyFile \in PersistedState
        BY RecordTypes
    <2> QED BY <1>2, <2>1, <2>2 DEF Construct
<1>10. /\ generation' = 0 /\ bag' = [generation |-> 0, remaining |-> {}]
       /\ retired' = f.retired /\ disabledByHash' = f.disabled
    BY <1>2 DEF Construct
<1>11. bag' \in [generation : Nat, remaining : SUBSET Nat] /\ restarts' \in Nat
       /\ generation' \in Nat
    BY <1>0, <1>2, <1>10 DEF TypeOK
<1>12. TypeOK'
    BY <1>3, <1>5, <1>6, <1>7, <1>8, <1>9, <1>10, <1>11 DEF TypeOK
<1>13. NoDuplicateNodes' /\ RetiredNotActive'
    BY <1>4, <1>5, <1>10 DEF NoDuplicateNodes, RetiredNotActive
<1>14. BagIndicesInRange' /\ BagNotAhead'
    BY <1>10 DEF BagIndicesInRange, BagNotAhead
<1>15. \A t \in Threads : pc'[t] = "idle"
    BY <1>2 DEF Construct
<1>16. ThreadsSound'
    BY <1>15 DEF ThreadsSound, ThreadSound
<1> QED BY <1>12, <1>13, <1>14, <1>16 DEF PoolInv

-----------------------------------------------------------------------------

\* Every step of every thread, the clock and a restart keep the invariant.
LEMMA StepInv ==
    ASSUME PoolInv, [Next]_vars
    PROVE  PoolInv'
<1>0. TypeOK /\ NodesSeen \subseteq Keys
    BY DEF PoolInv, TypeOK, NodesSeen, Range
<1>1. ASSUME NEW t \in Pickers, PickerCall(t) PROVE PoolInv'
    BY <1>0, <1>1, ScanInv DEF PickerCall, Threads
<1>2. ASSUME NEW t \in Reporters, ReporterCall(t) PROVE PoolInv'
    BY <1>0, <1>2, ReportInv DEF ReporterCall, Threads
<1>3. ASSUME NEW t \in Workers, WorkerCall(t) PROVE PoolInv'
    BY <1>0, <1>3, ReportInv DEF WorkerCall, Threads
<1>4. ASSUME RefresherCall(Refresher) PROVE PoolInv'
    BY <1>4, MergeInv, FlushInv DEF RefresherCall, Threads
<1>5. ASSUME NEW t \in Threads, Step(t) PROVE PoolInv'
    BY <1>5, ScanInv, FollowUpInv, DropInv, RetireInv DEF Step
<1>6. ASSUME NEW k \in Keys, CooldownElapses(k) PROVE PoolInv'
    BY <1>6, DropInv
<1>7. CASE Restart
    BY <1>7, RestartInv
<1>8. CASE UNCHANGED vars
    <2>1. TypeOK' /\ ThreadsSound'
        BY <1>0, <1>8 DEF PoolInv, vars, poolVars, threadVars, TypeOK, ThreadsSound, ThreadSound
    <2> QED BY <1>8, <2>1, QuietStep DEF vars, poolVars
<1> QED BY <1>1, <1>2, <1>3, <1>4, <1>5, <1>6, <1>7, <1>8 DEF Next

\* The inductive invariant holds in every reachable state.
THEOREM PoolInvariant == Spec => []PoolInv
<1>1. PoolInv /\ [Next]_vars => PoolInv'
    BY StepInv
<1> QED BY InitInv, <1>1, PTL DEF Spec

\* Types: every value in the pool, in the threads and on disk is well formed,
\* for any sets of nodes and threads and any thresholds.
THEOREM TypeCorrect == Spec => []TypeOK
<1>1. PoolInv => TypeOK
    BY DEF PoolInv
<1> QED BY PoolInvariant, <1>1, PTL

\* `state.proxies[index]` in next_random_available never panics, however merges,
\* retirements, resets and restarts interleave with scans.
THEOREM IndexSafety == Spec => []BagIndicesInRange
<1>1. PoolInv => BagIndicesInRange
    BY DEF PoolInv
<1> QED BY PoolInvariant, <1>1, PTL

\* A retired node never comes back into the rotation.
THEOREM RetiredStaysOut == Spec => []RetiredNotActive
<1>1. PoolInv => RetiredNotActive
    BY DEF PoolInv
<1> QED BY PoolInvariant, <1>1, PTL

\* No merge and no restore puts the same key into the rotation twice.
THEOREM NodesDistinct == Spec => []NoDuplicateNodes
<1>1. PoolInv => NoDuplicateNodes
    BY DEF PoolInv
<1> QED BY PoolInvariant, <1>1, PTL

-----------------------------------------------------------------------------
(* The nodes the pool has had.                                             *)

\* remove_and_retire takes one node out and leaves the others.
LEMMA WithoutKeeps ==
    ASSUME NEW s \in Seq(Keys), IsInjective(s), NEW k \in Range(s)
    PROVE  Range(s) \ {k} \subseteq Range(Without(s, k))
<1> DEFINE i == CHOOSE j \in DOMAIN s : s[j] = k
           u == Without(s, k)
<1>1. i \in 1..Len(s) /\ s[i] = k /\ Len(s) \in Nat /\ DOMAIN s = 1..Len(s)
    BY DEF Range
<1>2. u = [j \in 1..(Len(s) - 1) |-> IF j < i THEN s[j] ELSE s[j + 1]]
    BY DEF Without
<1> HIDE DEF i, u
<1> SUFFICES ASSUME NEW x \in Range(s) \ {k} PROVE x \in Range(u)
    BY DEF u
<1>3. PICK j \in 1..Len(s) : s[j] = x
    BY <1>1 DEF Range
<1>4. j # i
    BY <1>1, <1>3
<1>5. CASE j < i
    <2>1. j \in 1..(Len(s) - 1) /\ u[j] = x
        BY <1>1, <1>2, <1>3, <1>5
    <2> QED BY <1>2, <2>1 DEF Range
<1>6. CASE j > i
    <2>1. j - 1 \in 1..(Len(s) - 1) /\ ~(j - 1 < i) /\ (j - 1) + 1 = j
        BY <1>1, <1>3, <1>6
    <2>2. u[j - 1] = x
        BY <1>2, <1>3, <2>1
    <2> QED BY <1>2, <2>1, <2>2 DEF Range
<1> QED BY <1>1, <1>4, <1>5, <1>6

\* While the process runs no node the pool has had is forgotten: it is in the
\* vector or retired.
LEMMA NodesStaySeen ==
    ASSUME PoolInv, [Next]_vars, ~Restart
    PROVE  NodesSeen \subseteq NodesSeen'
<1>1. proxies \in Seq(Keys) /\ IsInjective(proxies)
    BY DEF PoolInv, TypeOK, NoDuplicateNodes
<1>2. CASE UNCHANGED <<proxies, retired>>
    BY <1>2 DEF NodesSeen
<1>3. ASSUME NEW t \in Threads, Retire(t)
      PROVE  NodesSeen \subseteq NodesSeen'
    <2>1. /\ retired' = retired \cup {op[t].key}
          /\ \/ proxies' = proxies
             \/ op[t].key \in Range(proxies) /\ proxies' = Without(proxies, op[t].key)
        BY <1>3 DEF Retire
    <2>2. Range(proxies) \ {op[t].key} \subseteq Range(proxies')
        BY <1>1, <2>1, WithoutKeeps
    <2> QED BY <2>1, <2>2 DEF NodesSeen
<1>4. ASSUME NEW t \in Threads, NEW source \in SUBSET Keys, Merge(t, source)
      PROVE  NodesSeen \subseteq NodesSeen'
    <2>1. CASE proxies' = proxies
        BY <1>2, <1>4, <2>1 DEF Merge
    <2>2. CASE proxies' \in Appended(Added(source))
        <3>1. PICK tail \in Orderings(Added(source)) : proxies' = proxies \o tail
            BY <2>2 DEF Appended
        <3>2. Added(source) \in SUBSET Keys /\ Added(source) \cap Range(proxies) = {}
            BY DEF Added
        <3>3. tail \in Seq(Keys) /\ IsInjective(tail) /\ Range(tail) \subseteq Added(source)
            BY <3>2, OrderingsFacts
        <3>4. Range(proxies \o tail) = Range(proxies) \cup Range(tail)
            BY <1>1, <3>2, <3>3, AppendFacts
        <3> QED BY <1>4, <3>1, <3>4 DEF Merge, NodesSeen
    <2> QED BY <1>4, <2>1, <2>2 DEF Merge
<1>5. ASSUME NEW t \in Threads, Step(t), ~Retire(t)
      PROVE  UNCHANGED <<proxies, retired>>
    BY <1>5 DEF Step, ScanStep, EndScan, PutDisabled, RemoveDisabled, WriteDisabled,
                DropRecord, ReadGeneration, ResetSelection, SaveBegin, SaveEnd, poolVars
<1>6. ASSUME \/ \E t \in Pickers : PickerCall(t)
             \/ \E t \in Reporters : ReporterCall(t)
             \/ \E t \in Workers : WorkerCall(t)
             \/ Flush(Refresher)
             \/ \E k \in Keys : CooldownElapses(k)
             \/ UNCHANGED vars
      PROVE  UNCHANGED <<proxies, retired>>
    BY <1>6 DEF PickerCall, BeginScan, ReporterCall, ReportSuccess, ReportFailure, WorkerCall,
                RecheckSuccess, RecheckFailure, Flush, CooldownElapses, vars, poolVars
<1>7. Refresher \in Threads
    BY DEF Threads
<1> QED BY <1>2, <1>3, <1>4, <1>5, <1>6, <1>7 DEF Next, RefresherCall

-----------------------------------------------------------------------------
(* The failure records.                                                    *)

\* What every operation writes into a failure record is well formed.
LEMMA WellFormedWrites ==
    /\ WellFormed(FreshRecord)
    /\ \A n \in Nat : WellFormed(DisabledRecord(n))
    /\ \A r \in FailureRecord : WellFormed(r) =>
         /\ WellFormed(Thawed(r))
         /\ r.disabled \/ WellFormed(Failed(r))
         /\ r.disabled => \A n \in Nat : WellFormed([r EXCEPT !.recheckFailures = n])
         /\ r.cooldown = "active" => WellFormed([r EXCEPT !.cooldown = "expired"])
<1> USE ConstantsAssumption
<1>1. WellFormed(FreshRecord)
    BY DEF WellFormed, FreshRecord
<1>2. ASSUME NEW n \in Nat PROVE WellFormed(DisabledRecord(n))
    BY DEF WellFormed, DisabledRecord
<1>3. ASSUME NEW r \in FailureRecord, WellFormed(r) PROVE WellFormed(Thawed(r))
    BY <1>3 DEF WellFormed, Thawed, FailureRecord
<1>4. ASSUME NEW r \in FailureRecord, WellFormed(r), ~r.disabled
      PROVE  WellFormed(Failed(r))
    <2> DEFINE s == Thawed(r)
               n == s.failures + 1
               c == s.cooldowns + 1
    <2>1. s \in FailureRecord /\ WellFormed(s) /\ ~s.disabled
        BY <1>3, <1>4, RecordTypes DEF Thawed, FailureRecord
    <2>2. CASE ~AtThreshold(n)
        <3>1. Failed(r) = [s EXCEPT !.failures = n]
            BY <2>2 DEF Failed
        <3> HIDE DEF s
        <3> QED BY <2>1, <2>2, <3>1 DEF WellFormed, FailureRecord, AtThreshold
    <2>3. CASE AtThreshold(n) /\ c < DisableAfterCooldowns
        <3>1. Failed(r) = [s EXCEPT !.failures = 0, !.cooldowns = c,
                                    !.cooldown = "active"]
            BY <2>3 DEF Failed
        <3> HIDE DEF s
        <3> QED BY <2>1, <2>3, <3>1 DEF WellFormed, FailureRecord
    <2>4. CASE AtThreshold(n) /\ ~(c < DisableAfterCooldowns)
        <3>1. Failed(r) = [s EXCEPT !.failures = 0, !.cooldowns = c,
                                    !.cooldown = "none", !.disabled = TRUE,
                                    !.recheckFailures = 0]
            BY <2>4 DEF Failed
        <3> HIDE DEF s
        <3> QED BY <2>1, <2>4, <3>1 DEF WellFormed, FailureRecord
    <2> QED BY <2>2, <2>3, <2>4
<1>5. ASSUME NEW r \in FailureRecord, WellFormed(r), r.disabled, NEW n \in Nat
      PROVE  WellFormed([r EXCEPT !.recheckFailures = n])
    BY <1>5 DEF WellFormed, FailureRecord
<1>6. ASSUME NEW r \in FailureRecord, WellFormed(r), r.cooldown = "active"
      PROVE  WellFormed([r EXCEPT !.cooldown = "expired"])
    BY <1>6 DEF WellFormed, FailureRecord
<1> QED BY <1>1, <1>2, <1>3, <1>4, <1>5, <1>6

\* Writing one well-formed record keeps all of them so.
LEMMA WriteOne ==
    ASSUME TypeOK, RecordsWellFormed, NEW k \in Keys, NEW x, WellFormed(x),
           failures' = [failures EXCEPT ![k] = x]
    PROVE  RecordsWellFormed'
BY DEF TypeOK, RecordsWellFormed

\* Every step writes well-formed records only.
LEMMA RecordsStep ==
    ASSUME PoolInv, RecordsWellFormed, [Next]_vars
    PROVE  RecordsWellFormed'
<1>0. /\ TypeOK /\ ThreadsSound /\ NodesSeen \subseteq Keys
      /\ \A k \in Keys : failures[k] \in FailureRecord /\ WellFormed(failures[k])
      /\ \A k \in Keys : failures[k].recheckFailures + 1 \in Nat
    BY DEF PoolInv, TypeOK, NodesSeen, Range, RecordsWellFormed, FailureRecord
<1>1. ASSUME failures' = failures PROVE RecordsWellFormed'
    BY <1>1 DEF RecordsWellFormed
<1>2. ASSUME NEW t, NEW k \in Keys, ReportSuccess(t, k) PROVE RecordsWellFormed'
    BY <1>0, <1>2, WellFormedWrites, WriteOne DEF ReportSuccess
<1>3. ASSUME NEW t, NEW k \in Keys, ReportFailure(t, k) PROVE RecordsWellFormed'
    BY <1>0, <1>3, WellFormedWrites, WriteOne DEF ReportFailure
<1>4. ASSUME NEW t, NEW k \in Keys, RecheckSuccess(t, k, FALSE)
      PROVE  RecordsWellFormed'
    BY <1>0, <1>4, WellFormedWrites, WriteOne DEF RecheckSuccess
<1>5. ASSUME NEW t, NEW k \in Keys, RecheckFailure(t, k, FALSE)
      PROVE  RecordsWellFormed'
    <2> DEFINE x == [failures[k] EXCEPT !.recheckFailures =
                        failures[k].recheckFailures + 1]
    <2>1. failures' = [failures EXCEPT ![k] = x] /\ failures[k].disabled
        BY <1>0, <1>5 DEF RecheckFailure, TypeOK
    <2>2. WellFormed(x)
        BY <1>0, <2>1, WellFormedWrites
    <2> HIDE DEF x
    <2> QED BY <1>0, <2>1, <2>2, WriteOne
<1>6. ASSUME NEW t \in Threads, DropRecord(t) PROVE RecordsWellFormed'
    <2>1. op[t].key \in Keys
        BY <1>0, <1>6 DEF DropRecord, ThreadsSound, ThreadSound
    <2> QED BY <1>0, <1>6, <2>1, WellFormedWrites, WriteOne DEF DropRecord
<1>7. ASSUME NEW t \in Threads, ScanStep(t) PROVE RecordsWellFormed'
    <2>1. PICK i \in Drawable :
            Skip(t, proxies[i]) \/ HandOut(t, proxies[i])
        BY <1>7 DEF ScanStep
    <2>2. proxies[i] \in Keys
        BY <1>0, <2>1
           DEF PoolInv, Drawable, MustRefill, BagIndicesInRange, TypeOK
    <2>3. CASE Skip(t, proxies[i])
        BY <1>1, <2>3 DEF Skip
    <2>4. CASE HandOut(t, proxies[i])
        BY <1>0, <2>2, <2>4, WellFormedWrites, WriteOne DEF HandOut
    <2> QED BY <2>1, <2>3, <2>4
<1>8. ASSUME NEW k \in Keys, CooldownElapses(k) PROVE RecordsWellFormed'
    <2> DEFINE x == [failures[k] EXCEPT !.cooldown = "expired"]
    <2>1. failures' = [failures EXCEPT ![k] = x] /\ failures[k].cooldown = "active"
        BY <1>0, <1>8 DEF CooldownElapses, TypeOK
    <2>2. WellFormed(x)
        BY <1>0, <2>1, WellFormedWrites
    <2> HIDE DEF x
    <2> QED BY <1>0, <2>1, <2>2, WriteOne
<1>9. ASSUME NEW t, NEW source, Merge(t, source) PROVE RecordsWellFormed'
    <2>1. ASSUME NEW k \in Keys PROVE WellFormed(failures'[k])
        <3>1. disabledByHash[k] = Absent \/ disabledByHash[k] \in Nat
            BY <1>0 DEF TypeOK
        <3>2. \/ failures'[k] = failures[k]
              \/ /\ disabledByHash[k] # Absent
                 /\ failures'[k] = DisabledRecord(disabledByHash[k])
            BY <1>9 DEF Merge
        <3> QED BY <1>0, <3>1, <3>2, WellFormedWrites
    <2> QED BY <2>1 DEF RecordsWellFormed
<1>10. CASE Restart
    <2>1. PICK f \in LoadedStates : Construct(f)
        BY <1>10 DEF Restart
    <2>2. f.disabled \in [Keys -> Nat \cup {Absent}]
        BY <1>0, RecordTypes DEF TypeOK, LoadedStates, PersistedState
    <2>3. ASSUME NEW k \in Keys PROVE WellFormed(failures'[k])
        <3>1. \/ failures'[k] = FreshRecord
              \/ f.disabled[k] \in Nat /\ failures'[k] = DisabledRecord(f.disabled[k])
            BY <2>1, <2>2 DEF Construct, RestoredRecords
        <3> QED BY <3>1, WellFormedWrites
    <2> QED BY <2>3 DEF RecordsWellFormed
<1>11. CASE UNCHANGED vars
    BY <1>1, <1>11 DEF vars
<1>12. ASSUME NEW t \in Threads, Step(t) PROVE RecordsWellFormed'
    BY <1>1, <1>6, <1>7, <1>12
       DEF Step, EndScan, PutDisabled, RemoveDisabled, WriteDisabled, Retire,
           ReadGeneration, ResetSelection, SaveBegin, SaveEnd
<1>13. ASSUME \/ \E t \in Pickers : PickerCall(t)
              \/ \E t \in Reporters : ReporterCall(t)
              \/ \E t \in Workers : WorkerCall(t)
              \/ RefresherCall(Refresher)
       PROVE  RecordsWellFormed'
    BY <1>0, <1>1, <1>2, <1>3, <1>4, <1>5, <1>9, <1>13
       DEF PickerCall, BeginScan, ReporterCall, WorkerCall, RefresherCall, Flush
<1> QED BY <1>8, <1>10, <1>11, <1>12, <1>13 DEF Next

\* The counters of the failure records never pass their thresholds and no
\* record is left half reset, for any number of concurrent reports.
THEOREM RecordsSound == Spec => []RecordsWellFormed
<1>1. Init => RecordsWellFormed
    BY WellFormedWrites DEF Init, RecordsWellFormed
<1>2. PoolInv /\ RecordsWellFormed /\ [Next]_vars => RecordsWellFormed'
    BY RecordsStep
<1> QED BY PoolInvariant, <1>1, <1>2, PTL DEF Spec

-----------------------------------------------------------------------------
(* The state file while the process runs.                                  *)

\* A vector made from a set by Orderings holds all of it.
LEMMA OrderingsOnto ==
    ASSUME NEW S \in SUBSET Keys, NEW s \in Orderings(S)
    PROVE  Range(s) = S
<1>1. IsFiniteSet(S) /\ Cardinality(S) \in Nat
    BY ConstantsAssumption, FS_Subset, FS_CardinalityType
<1>2. Cardinality(1..Cardinality(S)) = Cardinality(S)
    BY <1>1, FS_Interval
<1>3. s \in Injection(1..Cardinality(S), S)
    BY DEF Orderings
<1>4. s \in Surjection(1..Cardinality(S), S)
    BY <1>1, <1>2, <1>3, FS_Injection
<1>5. s \in [1..Cardinality(S) -> S] /\ \A k \in S : \E i \in 1..Cardinality(S) : s[i] = k
    BY <1>4 DEF Surjection
<1> QED BY <1>5 DEF Range

\* Goto moves one thread, whatever its operation is.
LEMMA GotoMoves ==
    ASSUME TypeOK, NEW t \in Threads, NEW label, NEW o, Goto(t, label, o)
    PROVE  /\ pc'[t] = label
           /\ op'[t] = IF label = "idle" THEN NoOperation ELSE o
           /\ \A u \in Threads \ {t} : pc'[u] = pc[u] /\ op'[u] = op[u]
BY DEF TypeOK, Goto

\* Where a thread neither carries a save nor is on its way to one.
Calm == {"idle", "scan", "returned", "exhausted"}

\* A thread is about to save, or will be.
Pending == \E t \in Threads : pc[t] = "save" \/ op[t].save

\* At most one thread writes, and it writes for a configured file.
SaversSound ==
    /\ \A t, u \in Threads : pc[t] = "saving" /\ pc[u] = "saving" => t = u
    /\ \A t \in Threads : pc[t] \in {"save", "saving"} => StateEnabled
    /\ \A t \in Threads : pc[t] \in Calm => ~op[t].save

\* A state for which no save is due is the one being written, or else the one
\* on disk.
SavesCurrent ==
    StateEnabled /\ ~unsaved /\ ~Pending =>
        /\ \A t \in Threads : pc[t] = "saving" => snap[t] = Snapshot
        /\ PersistenceHeld \/ file = Snapshot

\* The inductive invariant of the saves.
PersistInv == SaversSound /\ SavesCurrent

\* A step of one thread that writes no file keeps the invariant if what it
\* changes is marked as unsaved or will be saved, and no due save is forgotten.
LEMMA DueSave ==
    ASSUME TypeOK, PersistInv, NEW t \in Threads,
           \A u \in Threads \ {t} : pc'[u] = pc[u] /\ op'[u] = op[u],
           pc[t] # "saving", pc'[t] # "saving",
           pc'[t] = "save" => StateEnabled,
           pc'[t] \in Calm => ~op'[t].save,
           UNCHANGED <<file, snap>>,
           \/ /\ UNCHANGED <<proxies, retired, disabledByHash, unsaved>>
              /\ pc[t] = "save" \/ op[t].save => pc'[t] = "save" \/ op'[t].save
           \/ unsaved'
           \/ pc'[t] = "save" \/ op'[t].save
           \/ ~StateEnabled
    PROVE  PersistInv'
<1>1. SaversSound'
    <2>1. ASSUME NEW u \in Threads, NEW v \in Threads, pc'[u] = "saving", pc'[v] = "saving"
          PROVE  u = v
        BY <2>1 DEF PersistInv, SaversSound
    <2>2. ASSUME NEW u \in Threads, pc'[u] \in {"save", "saving"} PROVE StateEnabled
        BY <2>2 DEF PersistInv, SaversSound
    <2>3. ASSUME NEW u \in Threads, pc'[u] \in Calm PROVE ~op'[u].save
        BY <2>3 DEF PersistInv, SaversSound
    <2> QED BY <2>1, <2>2, <2>3 DEF SaversSound
<1>2. SavesCurrent'
    <2> SUFFICES ASSUME StateEnabled, ~unsaved', ~Pending'
                 PROVE  /\ \A u \in Threads : pc'[u] = "saving" => snap'[u] = Snapshot'
                        /\ PersistenceHeld' \/ file' = Snapshot'
        BY DEF SavesCurrent
    <2>1. pc'[t] # "save" /\ ~op'[t].save
        BY DEF Pending
    <2>2. UNCHANGED <<proxies, retired, disabledByHash, unsaved>> /\ pc[t] # "save" /\ ~op[t].save
        BY <2>1
    <2>3. ~Pending
        <3> SUFFICES ASSUME NEW u \in Threads PROVE ~(pc[u] = "save" \/ op[u].save)
            BY DEF Pending
        <3>1. CASE u = t
            BY <2>2, <3>1
        <3>2. CASE u # t
            BY <3>2 DEF Pending
        <3> QED BY <3>1, <3>2
    <2>4. Snapshot' = Snapshot
        BY <2>2 DEF Snapshot
    <2>5. \A u \in Threads : pc'[u] = "saving" <=> pc[u] = "saving"
        OBVIOUS
    <2> QED BY <2>2, <2>3, <2>4, <2>5 DEF PersistInv, SavesCurrent, PersistenceHeld
<1> QED BY <1>1, <1>2 DEF PersistInv

\* Scans and the steps of a report that touch neither the state nor the file.
LEMMA CalmSteps ==
    ASSUME PoolInv, PersistInv, NEW t \in Threads,
           \/ \E tried : BeginScan(t, tried)
           \/ ScanStep(t)
           \/ EndScan(t)
           \/ \E k : ReportSuccess(t, k) \/ ReportFailure(t, k)
           \/ \E k : RecheckSuccess(t, k, FALSE) \/ RecheckFailure(t, k, FALSE)
           \/ DropRecord(t)
           \/ ReadGeneration(t)
           \/ ResetSelection(t)
           \/ Flush(t)
    PROVE  PersistInv'
<1>0. TypeOK /\ op[t] \in Operation
    BY DEF PoolInv, TypeOK
<1> USE DEF poolVars
<1>1. ASSUME NEW tried, BeginScan(t, tried) PROVE PersistInv'
    <2>1. /\ pc[t] = "idle" /\ pc'[t] \in {"exhausted", "scan"}
          /\ op' = op /\ \A u \in Threads \ {t} : pc'[u] = pc[u]
          /\ UNCHANGED <<file, snap, proxies, retired, disabledByHash, unsaved>>
        BY <1>0, <1>1 DEF BeginScan, TypeOK
    <2>2. ~op[t].save
        BY <2>1 DEF PersistInv, SaversSound, Calm
    <2> QED BY <1>0, <2>1, <2>2, DueSave
<1>2. CASE ScanStep(t)
    <2>1. PICK i \in Drawable : Skip(t, proxies[i]) \/ HandOut(t, proxies[i])
        BY <1>2 DEF ScanStep
    <2>2. /\ pc[t] = "scan" /\ pc'[t] \in {"exhausted", "scan", "returned"}
          /\ op'[t].save = op[t].save
          /\ \A u \in Threads \ {t} : pc'[u] = pc[u] /\ op'[u] = op[u]
          /\ UNCHANGED <<file, snap, proxies, retired, disabledByHash, unsaved>>
        BY <1>0, <1>2, <2>1 DEF ScanStep, Skip, HandOut, TypeOK, Operation
    <2>3. ~op[t].save
        BY <2>2 DEF PersistInv, SaversSound, Calm
    <2> QED BY <1>0, <2>2, <2>3, DueSave
<1>3. CASE EndScan(t)
    <2>1. /\ pc[t] \in Calm /\ pc'[t] = "idle" /\ op'[t] = NoOperation
          /\ \A u \in Threads \ {t} : pc'[u] = pc[u] /\ op'[u] = op[u]
          /\ UNCHANGED <<file, snap, proxies, retired, disabledByHash, unsaved>>
        BY <1>0, <1>3, GotoMoves DEF EndScan, Calm
    <2>2. ~op[t].save /\ ~op'[t].save
        BY <2>1 DEF PersistInv, SaversSound, NoOperation
    <2> QED BY <1>0, <2>1, <2>2, DueSave DEF Calm
<1>4. ASSUME NEW label \in {"idle", "rmDisabled", "putDisabled", "dropRecord"}, NEW o,
             pc[t] = "idle", Goto(t, label, o),
             UNCHANGED <<poolVars, file, snap, unsaved>>
      PROVE  PersistInv'
    <2>1. /\ pc'[t] = label
          /\ label = "idle" => op'[t] = NoOperation
          /\ \A u \in Threads \ {t} : pc'[u] = pc[u] /\ op'[u] = op[u]
        BY <1>0, <1>4, GotoMoves
    <2>2. ~op[t].save
        BY <1>4 DEF PersistInv, SaversSound, Calm
    <2>3. pc'[t] \in Calm => ~op'[t].save
        BY <2>1 DEF NoOperation, Calm
    <2>4. /\ pc[t] # "saving" /\ pc'[t] # "saving" /\ pc'[t] # "save" /\ pc[t] # "save"
          /\ UNCHANGED <<file, snap, proxies, retired, disabledByHash, unsaved>>
        BY <1>4, <2>1
    <2> QED BY <1>0, <2>1, <2>2, <2>3, <2>4, DueSave
<1>5. ASSUME NEW k, ReportSuccess(t, k) PROVE PersistInv'
    BY <1>4, <1>5 DEF ReportSuccess
<1>6. ASSUME NEW k, ReportFailure(t, k) PROVE PersistInv'
    BY <1>4, <1>6 DEF ReportFailure
<1>7. ASSUME NEW k, RecheckSuccess(t, k, FALSE) PROVE PersistInv'
    BY <1>4, <1>7 DEF RecheckSuccess
<1>8. ASSUME NEW k, RecheckFailure(t, k, FALSE) PROVE PersistInv'
    BY <1>4, <1>8 DEF RecheckFailure
<1>9. CASE DropRecord(t)
    <2>1. /\ pc[t] = "dropRecord" /\ pc'[t] = "retire" /\ op'[t] = op[t]
          /\ \A u \in Threads \ {t} : pc'[u] = pc[u] /\ op'[u] = op[u]
          /\ UNCHANGED <<file, snap, proxies, retired, disabledByHash, unsaved>>
        BY <1>0, <1>9, GotoMoves DEF DropRecord
    <2> QED BY <1>0, <2>1, DueSave DEF Calm
<1>10. CASE ReadGeneration(t)
    <2>1. /\ pc[t] = "readGeneration" /\ pc'[t] = "reset" /\ op'[t].save = op[t].save
          /\ \A u \in Threads \ {t} : pc'[u] = pc[u] /\ op'[u] = op[u]
          /\ UNCHANGED <<file, snap, proxies, retired, disabledByHash, unsaved>>
        <3>1. /\ pc[t] = "readGeneration" /\ pc'[t] = "reset"
              /\ op'[t] = [op[t] EXCEPT !.gen = generation, !.reset = FALSE]
              /\ \A u \in Threads \ {t} : pc'[u] = pc[u] /\ op'[u] = op[u]
            BY <1>0, <1>10, GotoMoves DEF ReadGeneration
        <3> QED BY <1>0, <1>10, <3>1 DEF ReadGeneration, Operation
    <2> QED BY <1>0, <2>1, DueSave DEF Calm
<1>11. CASE ResetSelection(t)
    <2>1. /\ pc[t] = "reset" /\ pc'[t] = Continue(op[t])
          /\ op'[t] = IF Continue(op[t]) = "idle" THEN NoOperation ELSE op[t]
          /\ \A u \in Threads \ {t} : pc'[u] = pc[u] /\ op'[u] = op[u]
          /\ UNCHANGED <<file, snap, proxies, retired, disabledByHash, unsaved>>
        BY <1>0, <1>11, GotoMoves DEF ResetSelection
    <2> QED BY <1>0, <2>1, DueSave DEF Calm, Continue, NoOperation
<1>12. CASE Flush(t)
    <2>1. /\ pc[t] = "idle" /\ pc'[t] = "save" /\ StateEnabled
          /\ \A u \in Threads \ {t} : pc'[u] = pc[u] /\ op'[u] = op[u]
          /\ UNCHANGED <<file, snap, proxies, retired, disabledByHash, unsaved>>
        BY <1>0, <1>12, GotoMoves DEF Flush
    <2> QED BY <1>0, <2>1, DueSave DEF Calm
<1> QED BY <1>1, <1>2, <1>3, <1>5, <1>6, <1>7, <1>8, <1>9, <1>10, <1>11, <1>12

\* The steps that change the state that is saved.
LEMMA StateWrites ==
    ASSUME PoolInv, PersistInv, NEW t \in Threads,
           \/ PutDisabled(t) \/ RemoveDisabled(t)
           \/ Retire(t)
           \/ \E source : Merge(t, source)
    PROVE  PersistInv'
<1>0. TypeOK /\ op[t] \in Operation
    BY DEF PoolInv, TypeOK
<1>1. ASSUME NEW label \in {"putDisabled", "rmDisabled"}, NEW n, WriteDisabled(t, label, n)
      PROVE  PersistInv'
    <2>1. /\ pc[t] = label /\ pc'[t] = Continue(op[t])
          /\ op'[t] = IF Continue(op[t]) = "idle" THEN NoOperation ELSE op[t]
          /\ \A u \in Threads \ {t} : pc'[u] = pc[u] /\ op'[u] = op[u]
          /\ unsaved' = (unsaved \/ ~op[t].save)
          /\ UNCHANGED <<file, snap>>
        BY <1>0, <1>1, GotoMoves DEF WriteDisabled
    <2>2. CASE op[t].save /\ StateEnabled
        <3>1. pc'[t] = "save" /\ pc[t] # "saving"
            BY <2>1, <2>2 DEF Continue
        <3> QED BY <1>0, <2>1, <2>2, <3>1, DueSave DEF Calm
    <2>3. CASE ~(op[t].save /\ StateEnabled)
        <3>1. /\ pc'[t] \notin {"save", "saving"} /\ pc[t] # "saving"
              /\ pc'[t] \in Calm => ~op'[t].save
            BY <2>1, <2>3 DEF Continue, Calm, NoOperation
        <3>2. unsaved' \/ ~StateEnabled
            BY <2>1, <2>3
        <3> QED BY <1>0, <2>1, <3>1, <3>2, DueSave
    <2> QED BY <2>2, <2>3
<1>2. CASE Retire(t)
    <2>1. pc[t] = "retire" /\ UNCHANGED <<file, snap>>
        BY <1>2 DEF Retire
    <2>2. CASE op[t].key \in Range(proxies)
        <3>1. /\ pc'[t] = "reset" /\ op'[t].save = op[t].save
              /\ \A u \in Threads \ {t} : pc'[u] = pc[u] /\ op'[u] = op[u]
              /\ unsaved' = (unsaved \/ ~op[t].save)
            BY <1>0, <1>2, <2>2, GotoMoves DEF Retire, Operation
        <3> QED BY <1>0, <2>1, <3>1, DueSave DEF Calm
    <2>3. CASE op[t].key \notin Range(proxies)
        <3>1. /\ pc'[t] = "idle" /\ op'[t] = NoOperation /\ unsaved' = TRUE
              /\ \A u \in Threads \ {t} : pc'[u] = pc[u] /\ op'[u] = op[u]
            BY <1>0, <1>2, <2>3, GotoMoves DEF Retire
        <3> QED BY <1>0, <2>1, <3>1, DueSave DEF Calm, NoOperation
    <2> QED BY <2>2, <2>3
<1>3. ASSUME NEW source, Merge(t, source) PROVE PersistInv'
    <2>1. pc[t] = "idle" /\ UNCHANGED <<file, snap, retired, disabledByHash, unsaved>>
        BY <1>3 DEF Merge
    <2>0. ~op[t].save
        BY <2>1 DEF PersistInv, SaversSound, Calm
    <2>2. CASE Added(source) # {}
        <3>1. /\ pc'[t] = "reset" /\ op'[t].save
              /\ \A u \in Threads \ {t} : pc'[u] = pc[u] /\ op'[u] = op[u]
            BY <1>0, <1>3, <2>2, GotoMoves DEF Merge, NewOperation
        <3> QED BY <1>0, <2>1, <3>1, DueSave DEF Calm
    <2>3. CASE Added(source) = {}
        <3>1. /\ pc'[t] = IF StateEnabled THEN "save" ELSE "idle"
              /\ pc'[t] = "idle" => op'[t] = NoOperation
              /\ \A u \in Threads \ {t} : pc'[u] = pc[u] /\ op'[u] = op[u]
            BY <1>0, <1>3, <2>3, GotoMoves DEF Merge
        <3> QED BY <1>0, <2>0, <2>1, <3>1, DueSave DEF Calm, NoOperation
    <2> QED BY <2>2, <2>3
<1> QED BY <1>1, <1>2, <1>3 DEF PutDisabled, RemoveDisabled

\* The snapshot is the state when the only writer takes it, and it is on disk
\* when the writer ends, unless the write failed.
LEMMA Saves ==
    ASSUME PoolInv, PersistInv, NEW t \in Threads, SaveBegin(t) \/ SaveEnd(t)
    PROVE  PersistInv'
<1>0. TypeOK /\ op[t] \in Operation
    BY DEF PoolInv, TypeOK
<1> USE DEF poolVars
<1>1. CASE SaveBegin(t)
    <2>1. /\ pc[t] = "save" /\ pc'[t] = "saving" /\ ~op'[t].save
          /\ \A u \in Threads \ {t} : pc'[u] = pc[u] /\ op'[u] = op[u]
          /\ \A u \in Threads : pc[u] # "saving"
          /\ snap'[t] = Snapshot
          /\ UNCHANGED <<proxies, retired, disabledByHash>>
        BY <1>0, <1>1, GotoMoves DEF SaveBegin, PersistenceHeld, TypeOK, Operation
    <2>2. Snapshot' = Snapshot
        BY <2>1 DEF Snapshot
    <2>3. SaversSound'
        BY <2>1 DEF PersistInv, SaversSound, Calm
    <2>4. SavesCurrent'
        BY <2>1, <2>2 DEF SavesCurrent, PersistenceHeld
    <2> QED BY <2>3, <2>4 DEF PersistInv
<1>2. CASE SaveEnd(t)
    <2>1. /\ pc[t] = "saving" /\ pc'[t] = Continue(op[t])
          /\ op'[t] = IF Continue(op[t]) = "idle" THEN NoOperation ELSE op[t]
          /\ \A u \in Threads \ {t} : pc'[u] = pc[u] /\ op'[u] = op[u]
          /\ UNCHANGED <<proxies, retired, disabledByHash>>
          /\ \/ file' = snap[t] /\ unsaved' = unsaved
             \/ unsaved' = TRUE
        BY <1>0, <1>2, GotoMoves DEF SaveEnd
    <2>2. /\ Snapshot' = Snapshot
          /\ \A u \in Threads \ {t} : pc[u] # "saving"
          /\ StateEnabled
        BY <2>1 DEF Snapshot, PersistInv, SaversSound
    <2>3. SaversSound'
        BY <2>1, <2>2 DEF PersistInv, SaversSound, Calm, Continue, NoOperation
    <2>4. Pending => Pending'
        <3> SUFFICES ASSUME NEW u \in Threads, pc[u] = "save" \/ op[u].save
                     PROVE  \E v \in Threads : pc'[v] = "save" \/ op'[v].save
            BY DEF Pending
        <3>1. CASE u = t
            BY <2>1, <2>2, <3>1 DEF Continue
        <3>2. CASE u # t
            BY <2>1, <3>2
        <3> QED BY <3>1, <3>2
    <2>5. SavesCurrent'
        <3> SUFFICES ASSUME ~unsaved', ~Pending'
                     PROVE  (\A u \in Threads : pc'[u] # "saving") /\ file' = Snapshot'
            BY DEF SavesCurrent
        <3>1. \A u \in Threads : pc'[u] # "saving"
            BY <2>1, <2>2 DEF Continue
        <3>2. file' = snap[t] /\ ~unsaved
            BY <2>1
        <3>3. snap[t] = Snapshot
            BY <2>1, <2>2, <2>4, <3>2 DEF PersistInv, SavesCurrent
        <3> QED BY <2>2, <3>1, <3>2, <3>3
    <2> QED BY <2>3, <2>5 DEF PersistInv
<1> QED BY <1>1, <1>2

\* The constructor saves what it restored.
LEMMA RestartSaves ==
    ASSUME PoolInv, Restart
    PROVE  PersistInv'
<1>1. PICK f \in LoadedStates :
        /\ Construct(f)
        /\ \/ /\ file' = IF StateEnabled
                         THEN [f EXCEPT !.available = RestoredKeys(f)]
                         ELSE file
              /\ unsaved' = FALSE
           \/ unsaved' = TRUE
    BY DEF Restart
<1>2. f \in PersistedState
    BY RecordTypes DEF PoolInv, TypeOK, LoadedStates
<1>3. /\ \A t \in Threads : pc'[t] = "idle" /\ op'[t] = NoOperation
      /\ retired' = f.retired /\ disabledByHash' = f.disabled
      /\ proxies' \in Orderings(RestoredKeys(f))
    BY <1>1 DEF Construct
<1>4. Range(proxies') = RestoredKeys(f)
    BY <1>3, OrderingsOnto, ConstantsAssumption DEF RestoredKeys
<1>5. Snapshot' = [f EXCEPT !.available = RestoredKeys(f)]
    BY <1>2, <1>3, <1>4 DEF Snapshot, PersistedState
<1>6. SaversSound'
    BY <1>3 DEF SaversSound, NoOperation
<1>7. SavesCurrent'
    BY <1>1, <1>3, <1>5 DEF SavesCurrent
<1> QED BY <1>6, <1>7 DEF PersistInv

\* Every step keeps the invariant of the saves.
LEMMA PersistStep ==
    ASSUME PoolInv, PersistInv, [Next]_vars
    PROVE  PersistInv'
<1>1. ASSUME NEW t \in Pickers, PickerCall(t) PROVE PersistInv'
    BY <1>1, CalmSteps DEF PickerCall, Threads
<1>2. ASSUME NEW t \in Reporters, ReporterCall(t) PROVE PersistInv'
    BY <1>2, CalmSteps DEF ReporterCall, Threads
<1>3. ASSUME NEW t \in Workers, WorkerCall(t) PROVE PersistInv'
    BY <1>3, CalmSteps DEF WorkerCall, Threads
<1>4. ASSUME RefresherCall(Refresher) PROVE PersistInv'
    BY <1>4, CalmSteps, StateWrites DEF RefresherCall, Threads
<1>5. ASSUME NEW t \in Threads, Step(t) PROVE PersistInv'
    BY <1>5, CalmSteps, StateWrites, Saves DEF Step
<1>6. ASSUME UNCHANGED <<proxies, retired, disabledByHash, file, pc, op, snap, unsaved>>
      PROVE  PersistInv'
    BY <1>6 DEF PersistInv, SaversSound, SavesCurrent, Pending, Snapshot, PersistenceHeld
<1>7. ASSUME NEW k \in Keys, CooldownElapses(k) PROVE PersistInv'
    BY <1>6, <1>7 DEF CooldownElapses, poolVars, threadVars
<1>8. CASE UNCHANGED vars
    BY <1>6, <1>8 DEF vars, poolVars, threadVars
<1> QED BY <1>1, <1>2, <1>3, <1>4, <1>5, <1>7, <1>8, RestartSaves DEF Next

\* The invariant of the saves holds in every reachable state.
THEOREM PersistInvariant == Spec => []PersistInv
<1>1. Init => PersistInv
    <2> SUFFICES ASSUME Init PROVE PersistInv
        OBVIOUS
    <2>1. SaversSound
        BY DEF Init, SaversSound, NoOperation
    <2>2. Range(proxies) = {}
        BY DEF Init, Range
    <2>3. file = Snapshot
        BY <2>2 DEF Init, Snapshot, EmptyFile
    <2>4. \A t \in Threads : pc[t] # "saving"
        BY DEF Init
    <2> QED BY <2>1, <2>3, <2>4 DEF PersistInv, SavesCurrent
<1>2. PoolInv /\ PersistInv /\ [Next]_vars => PersistInv'
    BY PersistStep
<1> QED BY PoolInvariant, <1>1, <1>2, PTL DEF Spec

\* Two concurrent saves never leave the older snapshot on disk, for any number
\* of threads and wherever a write fails or the process starts again.
THEOREM FileCurrent == Spec => []FileFollowsState
<1>1. PersistInv => FileFollowsState
    BY DEF PersistInv, SavesCurrent, FileFollowsState, Pending, PersistenceHeld
<1> QED BY PersistInvariant, <1>1, PTL

\* The pool after a start is the pool before it: every node whose persisted form
\* can be rebuilt is there, disabled with its count of failed rechecks if it was
\* on the disabled list and with a clean record otherwise, and what was retired
\* still is.
Restored ==
    /\ Range(proxies') = Range(proxies) \cap Restorable
    /\ retired' = retired
    /\ disabledByHash' = disabledByHash
    /\ \A k \in Range(proxies') :
        failures'[k] = IF disabledByHash[k] = Absent THEN FreshRecord
                       ELSE DisabledRecord(disabledByHash[k])

\* A start on a file that holds the pool's state restores the pool.
LEMMA RestartFromSnapshot ==
    ASSUME StateEnabled, ~LoadsFail, PoolInv, file = Snapshot, Restart
    PROVE  Restored
<1>1. PICK f \in LoadedStates : Construct(f)
    BY DEF Restart
<1>2. f = Snapshot
    BY <1>1 DEF LoadedStates
<1>3. RestoredKeys(f) = Range(proxies) \cap Restorable /\ RestoredKeys(f) \subseteq Keys
    BY <1>2, ConstantsAssumption DEF RestoredKeys, Snapshot, PoolInv, RetiredNotActive
<1>4. Range(proxies') = RestoredKeys(f)
    BY <1>1, <1>3, OrderingsOnto DEF Construct
<1>5. retired' = retired /\ disabledByHash' = disabledByHash /\ failures' = RestoredRecords(f)
    BY <1>1, <1>2 DEF Construct, Snapshot
<1>6. \A k \in RestoredKeys(f) :
        failures'[k] = IF disabledByHash[k] = Absent THEN FreshRecord
                       ELSE DisabledRecord(disabledByHash[k])
    BY <1>2, <1>3, <1>5 DEF RestoredRecords, Snapshot
<1> QED BY <1>3, <1>4, <1>5, <1>6 DEF Restored

\* Nothing but a start of the process counts as one.
LEMMA OnlyRestartCounts ==
    ASSUME [Next]_vars, restarts' # restarts
    PROVE  Restart
BY DEF Next, Step, PickerCall, BeginScan, ReporterCall, ReportSuccess, ReportFailure,
       WorkerCall, RecheckSuccess, RecheckFailure, RefresherCall, Flush, Merge, ScanStep,
       EndScan, PutDisabled, RemoveDisabled, WriteDisabled, DropRecord, Retire,
       ReadGeneration, ResetSelection, SaveBegin, SaveEnd, CooldownElapses, vars

\* No operation that saves is under way and the last one was saved.
Settled == ~unsaved /\ \A t \in Threads : pc[t] \in Calm

\* What a start of the process may not do to a settled pool: lose a node, forget
\* that one was disabled or retired, or bring one back.
SettledRestored == restarts' # restarts /\ Settled => Restored

\* Saving and restoring are inverse to each other: a process that dies while no
\* save is due starts again with the pool it had, whatever happened before.
THEOREM RestartRestores ==
    StateEnabled /\ ~LoadsFail => (Spec => [][SettledRestored]_vars)
<1> SUFFICES ASSUME StateEnabled, ~LoadsFail PROVE Spec => [][SettledRestored]_vars
    OBVIOUS
<1>1. ASSUME PoolInv, PersistInv, [Next]_vars, restarts' # restarts, Settled PROVE Restored
    <2>1. Restart
        BY <1>1, OnlyRestartCounts
    <2>2. ~Pending /\ ~PersistenceHeld
        BY <1>1 DEF Settled, Calm, Pending, PersistenceHeld, PersistInv, SaversSound
    <2>3. file = Snapshot
        BY <1>1, <2>2 DEF Settled, PersistInv, SavesCurrent
    <2> QED BY <1>1, <2>1, <2>3, RestartFromSnapshot
<1>2. PoolInv /\ PersistInv /\ [Next]_vars => [SettledRestored]_vars
    BY <1>1 DEF SettledRestored
<1> QED BY PoolInvariant, PersistInvariant, <1>2, PTL DEF Spec

-----------------------------------------------------------------------------
(* The retirements on disk.                                                *)

\* The retirements on disk are known to the pool and to a save under way.
DurableInv ==
    /\ file.retired \subseteq retired
    /\ \A t \in Threads : pc[t] = "saving" =>
            file.retired \subseteq snap[t].retired /\ snap[t].retired \subseteq retired
    /\ ~StateEnabled => file.retired = {}

\* Retirements only accumulate while the process runs, and a save writes those
\* of a moment after the last one on disk.
LEMMA DurableStep ==
    ASSUME ~LoadsFail, PoolInv, PersistInv, DurableInv, [Next]_vars
    PROVE  DurableInv' /\ file.retired \subseteq file'.retired
<1>0. TypeOK
    BY DEF PoolInv
<1> USE DEF poolVars
<1>1. ASSUME NEW t \in Threads, retired \subseteq retired', UNCHANGED <<file, snap>>,
             \A u \in Threads \ {t} : pc'[u] = pc[u], pc'[t] # "saving"
      PROVE  DurableInv' /\ file.retired \subseteq file'.retired
    BY <1>1 DEF DurableInv
<1>2. ASSUME NEW t \in Threads, NEW label, NEW o, Goto(t, label, o), label # "saving",
             retired \subseteq retired', UNCHANGED <<file, snap>>
      PROVE  DurableInv' /\ file.retired \subseteq file'.retired
    BY <1>0, <1>1, <1>2, GotoMoves
<1>3. ASSUME NEW t \in Pickers, PickerCall(t)
      PROVE  DurableInv' /\ file.retired \subseteq file'.retired
    <2>1. /\ UNCHANGED <<retired, file, snap>> /\ t \in Threads
          /\ \A u \in Threads \ {t} : pc'[u] = pc[u]
          /\ pc'[t] # "saving"
        BY <1>0, <1>3 DEF PickerCall, BeginScan, TypeOK, Threads
    <2> QED BY <1>1, <2>1
<1>4. ASSUME NEW t \in Reporters, ReporterCall(t)
      PROVE  DurableInv' /\ file.retired \subseteq file'.retired
    BY <1>2, <1>4 DEF ReporterCall, ReportSuccess, ReportFailure, Threads
<1>5. ASSUME NEW t \in Workers, WorkerCall(t)
      PROVE  DurableInv' /\ file.retired \subseteq file'.retired
    BY <1>2, <1>5 DEF WorkerCall, RecheckSuccess, RecheckFailure, Threads
<1>6. ASSUME RefresherCall(Refresher)
      PROVE  DurableInv' /\ file.retired \subseteq file'.retired
    BY <1>2, <1>6 DEF RefresherCall, Flush, Merge, Threads
<1>7. ASSUME NEW t \in Threads,
             \/ EndScan(t) \/ PutDisabled(t) \/ RemoveDisabled(t) \/ DropRecord(t)
             \/ Retire(t) \/ ReadGeneration(t) \/ ResetSelection(t)
      PROVE  DurableInv' /\ file.retired \subseteq file'.retired
    <2>1. Continue(op[t]) # "saving"
        BY DEF Continue
    <2> QED BY <1>2, <1>7, <2>1
            DEF EndScan, PutDisabled, RemoveDisabled, WriteDisabled, DropRecord, Retire,
                ReadGeneration, ResetSelection
<1>8. ASSUME NEW t \in Threads, ScanStep(t)
      PROVE  DurableInv' /\ file.retired \subseteq file'.retired
    <2>1. /\ UNCHANGED <<retired, file, snap>>
          /\ \A u \in Threads \ {t} : pc'[u] = pc[u]
          /\ pc'[t] # "saving"
        BY <1>0, <1>8 DEF ScanStep, Skip, HandOut, TypeOK
    <2> QED BY <1>1, <2>1
<1>9. ASSUME NEW t \in Threads, SaveBegin(t)
      PROVE  DurableInv' /\ file.retired \subseteq file'.retired
    <2>1. /\ \A u \in Threads : pc[u] # "saving"
          /\ \A u \in Threads \ {t} : pc'[u] = pc[u]
          /\ snap'[t].retired = retired
          /\ UNCHANGED <<retired, file>>
        BY <1>0, <1>9, GotoMoves DEF SaveBegin, PersistenceHeld, Snapshot, TypeOK
    <2> QED BY <2>1 DEF DurableInv
<1>10. ASSUME NEW t \in Threads, SaveEnd(t)
       PROVE  DurableInv' /\ file.retired \subseteq file'.retired
    <2>1. /\ pc[t] = "saving" /\ pc'[t] = Continue(op[t])
          /\ \A u \in Threads \ {t} : pc'[u] = pc[u]
          /\ UNCHANGED retired
          /\ file' = snap[t] \/ file' = file
        BY <1>0, <1>10, GotoMoves DEF SaveEnd
    <2>2. /\ \A u \in Threads : pc'[u] # "saving"
          /\ StateEnabled
        BY <2>1 DEF PersistInv, SaversSound, Continue
    <2> QED BY <2>1, <2>2 DEF DurableInv
<1>11. CASE Restart
    <2>1. PICK f \in LoadedStates :
            /\ Construct(f)
            /\ \/ file' = IF StateEnabled
                          THEN [f EXCEPT !.available = RestoredKeys(f)] ELSE file
               \/ file' = file
        BY <1>11 DEF Restart
    <2>2. f \in PersistedState /\ f = IF StateEnabled THEN file ELSE EmptyFile
        BY <1>0, RecordTypes DEF LoadedStates, TypeOK
    <2>3. file'.retired = file.retired
        BY <2>1, <2>2 DEF PersistedState
    <2>4. file.retired = f.retired
        BY <2>2 DEF DurableInv, EmptyFile
    <2>5. retired' = f.retired /\ \A t \in Threads : pc'[t] # "saving"
        BY <2>1 DEF Construct
    <2> QED BY <2>3, <2>4, <2>5 DEF DurableInv
<1>12. ASSUME UNCHANGED <<retired, file, snap, pc>>
       PROVE  DurableInv' /\ file.retired \subseteq file'.retired
    BY <1>12 DEF DurableInv
<1>13. ASSUME NEW k \in Keys, CooldownElapses(k)
       PROVE  DurableInv' /\ file.retired \subseteq file'.retired
    BY <1>12, <1>13 DEF CooldownElapses, threadVars
<1>14. CASE UNCHANGED vars
    BY <1>12, <1>14 DEF vars, threadVars
<1> QED BY <1>3, <1>4, <1>5, <1>6, <1>7, <1>8, <1>9, <1>10, <1>11, <1>13, <1>14
        DEF Next, Step

\* A retirement that reached the disk stays there, whatever is saved later and
\* wherever the process dies, as long as the file can be read at a start.
THEOREM RetirementDurable == ~LoadsFail => (Spec => RetirementIsDurable)
<1> SUFFICES ASSUME ~LoadsFail PROVE Spec => RetirementIsDurable
    OBVIOUS
<1>1. Init => DurableInv
    BY DEF Init, DurableInv, EmptyFile
<1>2. PoolInv /\ PersistInv /\ DurableInv /\ [Next]_vars => DurableInv'
    BY DurableStep
<1>3. PoolInv /\ PersistInv /\ DurableInv /\ [Next]_vars
        => [file.retired \subseteq file'.retired]_vars
    BY DurableStep
<1> QED BY PoolInvariant, PersistInvariant, <1>1, <1>2, <1>3, PTL
        DEF Spec, RetirementIsDurable

\* A node whose retirement reached the disk is never in the pool again: not by a
\* merge of a source that still lists it, not by a restart of any number, not
\* by a save of an older snapshot.
THEOREM SavedRetirementFinal ==
    ~LoadsFail => (Spec => [](file.retired \cap Range(proxies) = {}))
<1> SUFFICES ASSUME ~LoadsFail PROVE Spec => [](file.retired \cap Range(proxies) = {})
    OBVIOUS
<1>1. Init => DurableInv
    BY DEF Init, DurableInv, EmptyFile
<1>2. PoolInv /\ PersistInv /\ DurableInv /\ [Next]_vars => DurableInv'
    BY DurableStep
<1>3. PoolInv /\ DurableInv => file.retired \cap Range(proxies) = {}
    BY DEF PoolInv, DurableInv, RetiredNotActive
<1> QED BY PoolInvariant, PersistInvariant, <1>1, <1>2, <1>3, PTL DEF Spec

-----------------------------------------------------------------------------
(* The rounds of the bag and the scans that use them.                      *)

\* Where a thread has, or still holds the locals of, a scan.
Scanning == {"scan", "returned", "exhausted"}

\* The bag has been drawn from since it was filled for the current vector.
BagPartial ==
    BagCurrent => bag.remaining = {} \/ Cardinality(bag.remaining) < Len(proxies)

\* A scan either has not refilled the bag, and then cannot reach the end of the
\* vector before it does, or every index it drew since led to a skipped node.
Round(t) ==
    /\ proxies # <<>>
    /\ scan[t].skipped \subseteq Range(proxies)
    /\ BagCurrent =>
        \/ scan[t].scanned + Cardinality(bag.remaining) < Len(proxies)
        \/ /\ scan[t].scanned + Cardinality(bag.remaining) = Len(proxies)
           /\ \A i \in DOMAIN proxies \ bag.remaining : proxies[i] \in scan[t].skipped

\* One scan runs at a time and the locals of a scan are fresh when it begins.
ScansSound ==
    /\ \A t, u \in Threads : pc[t] = "scan" /\ pc[u] = "scan" => t = u
    /\ \A t \in Threads : pc[t] \notin Scanning => scan[t] = NoScan

\* The inductive invariant of the scans.
RoundInv ==
    /\ ScansSound
    /\ BagPartial
    /\ \A t \in Threads : pc[t] = "scan" => Round(t)

\* What a step may not do: give up before every node was looked at.
GivesUpLast ==
    \A t \in Threads :
        pc[t] = "scan" /\ pc'[t] = "exhausted" => scan'[t].skipped = Range(proxies)

\* The indices left in a current bag are a finite set.
LEMMA BagFinite ==
    ASSUME PoolInv, BagCurrent
    PROVE  /\ Len(proxies) \in Nat /\ DOMAIN proxies = 1..Len(proxies)
           /\ bag.remaining \subseteq DOMAIN proxies
           /\ IsFiniteSet(bag.remaining) /\ Cardinality(bag.remaining) \in Nat
<1>1. Len(proxies) \in Nat /\ DOMAIN proxies = 1..Len(proxies)
    BY DEF PoolInv, TypeOK
<1>2. bag.remaining \subseteq DOMAIN proxies
    BY DEF PoolInv, BagIndicesInRange, BagCurrent
<1>3. IsFiniteSet(1..Len(proxies))
    BY <1>1, FS_Interval
<1>4. IsFiniteSet(bag.remaining)
    BY <1>1, <1>2, <1>3, FS_Subset
<1> QED BY <1>1, <1>2, <1>4, FS_CardinalityType

\* A step of a thread outside its scans keeps the invariant if it leaves the
\* vector and the bag alone, or if no scan runs and it empties the bag or makes
\* it stale.
LEMMA QuietRound ==
    ASSUME RoundInv, NEW t \in Threads,
           pc[t] # "scan", pc'[t] \notin Scanning,
           scan'[t] = NoScan,
           \A u \in Threads \ {t} : pc'[u] = pc[u] /\ scan'[u] = scan[u],
           \/ UNCHANGED <<proxies, generation, bag>>
           \/ ~SelectionHeld /\ (BagCurrent' => bag'.remaining = {})
    PROVE  RoundInv' /\ GivesUpLast
<1>1. ScansSound'
    BY DEF RoundInv, ScansSound, Scanning
<1>2. GivesUpLast
    BY DEF GivesUpLast, Scanning
<1>3. \A u \in Threads : pc'[u] = "scan" => pc[u] = "scan" /\ u # t /\ scan'[u] = scan[u]
    BY DEF Scanning
<1>4. CASE UNCHANGED <<proxies, generation, bag>>
    <2>1. BagPartial'
        BY <1>4 DEF RoundInv, BagPartial, BagCurrent
    <2>2. ASSUME NEW u \in Threads, pc'[u] = "scan" PROVE Round(u)'
        BY <1>3, <1>4, <2>2 DEF RoundInv, Round, BagCurrent
    <2> QED BY <1>1, <1>2, <2>1, <2>2 DEF RoundInv
<1>5. CASE ~SelectionHeld /\ (BagCurrent' => bag'.remaining = {})
    <2>1. BagPartial'
        BY <1>5 DEF BagPartial
    <2>2. \A u \in Threads : pc'[u] # "scan"
        BY <1>3, <1>5 DEF SelectionHeld
    <2> QED BY <1>1, <1>2, <2>1, <2>2 DEF RoundInv
<1> QED BY <1>4, <1>5

\* A scan that begins holds the vector and has drawn nothing.
LEMMA BeginRound ==
    ASSUME PoolInv, RoundInv, NEW t \in Threads, NEW tried, BeginScan(t, tried)
    PROVE  RoundInv' /\ GivesUpLast
<1>1. /\ pc[t] = "idle" /\ ~SelectionHeld
      /\ pc'[t] = IF proxies = <<>> THEN "exhausted" ELSE "scan"
      /\ UNCHANGED <<proxies, generation, bag>>
      /\ \A u \in Threads \ {t} : pc'[u] = pc[u] /\ scan'[u] = scan[u]
      /\ scan'[t].skipped = scan[t].skipped /\ scan'[t].scanned = scan[t].scanned
    BY DEF PoolInv, TypeOK, Scan, BeginScan, poolVars
<1>2. scan'[t].skipped = {} /\ scan'[t].scanned = 0
    BY <1>1 DEF RoundInv, ScansSound, Scanning, NoScan
<1>3. \A u \in Threads \ {t} : pc'[u] # "scan"
    BY <1>1 DEF SelectionHeld
<1>4. ScansSound'
    BY <1>1, <1>3 DEF RoundInv, ScansSound, Scanning
<1>5. BagPartial' /\ (BagCurrent' <=> BagCurrent)
    BY <1>1 DEF RoundInv, BagPartial, BagCurrent
<1>6. ASSUME pc'[t] = "scan" PROVE Round(t)'
    <2>1. proxies # <<>>
        BY <1>1, <1>6
    <2>2. proxies \in Seq(Keys)
        BY DEF PoolInv, TypeOK
    <2>3. Len(proxies) > 0
        BY <2>1, <2>2
    <2>4. ASSUME BagCurrent PROVE 0 + Cardinality(bag.remaining) < Len(proxies)
        BY <2>3, <2>4, BagFinite, FS_EmptySet DEF RoundInv, BagPartial
    <2> QED BY <1>1, <1>2, <1>5, <2>1, <2>4 DEF Round
<1>7. GivesUpLast
    BY <1>1 DEF GivesUpLast
<1> QED BY <1>3, <1>4, <1>5, <1>6, <1>7 DEF RoundInv

\* One draw: a skipped node leaves the round and joins the nodes looked at.
LEMMA DrawRound ==
    ASSUME PoolInv, RoundInv, NEW t \in Threads, ScanStep(t)
    PROVE  RoundInv' /\ GivesUpLast
<1>0. TypeOK /\ Round(t) /\ pc[t] = "scan"
    BY DEF PoolInv, RoundInv, ScanStep
<1>1. PICK i \in Drawable :
        /\ bag' = [generation |-> generation, remaining |-> Drawable \ {i}]
        /\ IF PassedOver(t, proxies[i])
           THEN Skip(t, proxies[i]) ELSE HandOut(t, proxies[i])
    BY DEF ScanStep
<1>2. UNCHANGED <<proxies, generation>>
    BY DEF ScanStep, poolVars
<1>3. bag'.generation = generation' /\ bag'.remaining = Drawable \ {i} /\ BagCurrent'
    BY <1>1, <1>2 DEF BagCurrent
<1>4. Len(proxies) \in Nat /\ DOMAIN proxies = 1..Len(proxies) /\ Drawable \subseteq DOMAIN proxies
    BY <1>0 DEF PoolInv, TypeOK, Drawable, MustRefill, BagIndicesInRange
<1>5. IsFiniteSet(DOMAIN proxies) /\ Cardinality(DOMAIN proxies) = Len(proxies)
    <2>1. \A n \in Nat : IsFiniteSet(1..n) /\ Cardinality(1..n) = n
        BY FS_Interval
    <2> QED BY <1>4, <2>1
<1>6. /\ IsFiniteSet(Drawable) /\ Cardinality(Drawable) \in Nat
      /\ Cardinality(Drawable) <= Len(proxies)
      /\ IsFiniteSet(Drawable \ {i}) /\ Cardinality(Drawable \ {i}) \in Nat
      /\ Cardinality(Drawable \ {i}) = Cardinality(Drawable) - 1
    BY <1>4, <1>5, FS_Subset, FS_CardinalityType, FS_RemoveElement
<1>7. Cardinality(bag'.remaining) = Cardinality(Drawable) - 1
    BY <1>3, <1>6
<1>8. BagPartial'
    BY <1>2, <1>6, <1>7 DEF BagPartial
<1>9. \A u \in Threads \ {t} : pc[u] # "scan"
    BY <1>0 DEF RoundInv, ScansSound
<1>10. CASE HandOut(t, proxies[i])
    <2>1. /\ pc'[t] = "returned" /\ scan' = scan
          /\ \A u \in Threads \ {t} : pc'[u] = pc[u]
        BY <1>0, <1>10 DEF HandOut, TypeOK
    <2>2. ScansSound' /\ GivesUpLast /\ \A u \in Threads : pc'[u] # "scan"
        BY <1>9, <2>1 DEF RoundInv, ScansSound, GivesUpLast, Scanning
    <2> QED BY <1>8, <2>2 DEF RoundInv
<1>11. CASE Skip(t, proxies[i])
    <2> DEFINE s == scan[t].scanned
               n == Len(proxies)
    <2>1. /\ pc'[t] = IF DrawCount(t) >= n THEN "exhausted" ELSE "scan"
          /\ scan'[t].skipped = scan[t].skipped \cup {proxies[i]}
          /\ scan'[t].scanned = DrawCount(t)
          /\ \A u \in Threads \ {t} : pc'[u] = pc[u] /\ scan'[u] = scan[u]
        BY <1>0, <1>11 DEF Skip, TypeOK, Scan
    <2>2. ScansSound'
        BY <1>9, <2>1 DEF RoundInv, ScansSound, Scanning
    <2>3. scan'[t].skipped \subseteq Range(proxies)
        BY <1>0, <1>4, <2>1 DEF Round, Range
    <2>4. s \in Nat
        BY <1>0 DEF TypeOK, Scan
    <2>5. \/ /\ DrawCount(t) = 1 /\ Drawable = DOMAIN proxies
          \/ /\ DrawCount(t) = s + 1 /\ Drawable = bag.remaining
             /\ BagCurrent
        BY DEF DrawCount, Drawable, MustRefill, BagCurrent
    <2>6. \/ DrawCount(t) + Cardinality(bag'.remaining) < n
          \/ /\ DrawCount(t) + Cardinality(bag'.remaining) = n
             /\ \A j \in DOMAIN proxies \ bag'.remaining : proxies[j] \in scan'[t].skipped
        <3>1. CASE DrawCount(t) = 1 /\ Drawable = DOMAIN proxies
            <4>1. DrawCount(t) + Cardinality(bag'.remaining) = n
                BY <1>4, <1>5, <1>7, <3>1
            <4>2. \A j \in DOMAIN proxies \ bag'.remaining : j = i
                BY <1>3, <3>1
            <4> QED BY <2>1, <4>1, <4>2
        <3>2. CASE DrawCount(t) = s + 1 /\ Drawable = bag.remaining /\ BagCurrent
            <4>1. DrawCount(t) + Cardinality(bag'.remaining) = s + Cardinality(bag.remaining)
                BY <1>6, <1>7, <2>4, <3>2
            <4>2. CASE s + Cardinality(bag.remaining) < n
                BY <4>1, <4>2
            <4>3. CASE /\ s + Cardinality(bag.remaining) = n
                       /\ \A j \in DOMAIN proxies \ bag.remaining : proxies[j] \in scan[t].skipped
                <5>1. \A j \in DOMAIN proxies \ bag'.remaining :
                        j = i \/ j \in DOMAIN proxies \ bag.remaining
                    BY <1>3, <3>2
                <5>2. \A j \in DOMAIN proxies \ bag'.remaining : proxies[j] \in scan'[t].skipped
                    BY <2>1, <4>3, <5>1
                <5> QED BY <4>1, <4>3, <5>2
            <4> QED BY <1>0, <3>2, <4>2, <4>3 DEF Round
        <3> QED BY <2>5, <3>1, <3>2
    <2>7. Round(t)'
        BY <1>0, <1>2, <2>1, <2>3, <2>6 DEF Round
    <2>8. ASSUME DrawCount(t) >= n PROVE scan'[t].skipped = Range(proxies)
        <3>1. DrawCount(t) \in Nat
            BY <2>4, <2>5
        <3>2. Cardinality(bag'.remaining) = 0
            <4>1. Cardinality(bag'.remaining) \in Nat
                BY <1>3, <1>6
            <4> QED BY <1>4, <2>6, <2>8, <3>1, <4>1
        <3>3. bag'.remaining = {}
            <4>1. IsFiniteSet(bag'.remaining)
                BY <1>3, <1>6, FS_Subset
            <4> QED BY <3>2, <4>1, FS_EmptySet
        <3>4. \A j \in DOMAIN proxies : proxies[j] \in scan'[t].skipped
            BY <1>4, <2>6, <2>8, <3>1, <3>2, <3>3
        <3> QED BY <2>3, <3>4 DEF Range
    <2>9. GivesUpLast
        BY <1>9, <2>1, <2>8 DEF GivesUpLast
    <2> QED BY <1>8, <1>9, <2>1, <2>2, <2>7, <2>9 DEF RoundInv
<1> QED BY <1>1, <1>10, <1>11

\* Every step keeps the invariant of the scans and gives up last.
LEMMA RoundStep ==
    ASSUME PoolInv, RoundInv, [Next]_vars
    PROVE  RoundInv' /\ GivesUpLast
<1>0. TypeOK /\ BagNotAhead
    BY DEF PoolInv
<1> USE DEF poolVars
<1>1. ASSUME NEW t \in Threads, NEW label, NEW o, Goto(t, label, o),
             pc[t] \notin Scanning, label \notin Scanning, UNCHANGED scan,
             \/ UNCHANGED <<proxies, generation, bag>>
             \/ ~SelectionHeld /\ (BagCurrent' => bag'.remaining = {})
      PROVE  RoundInv' /\ GivesUpLast
    <2>1. pc'[t] = label /\ \A u \in Threads \ {t} : pc'[u] = pc[u]
        BY <1>0, <1>1, GotoMoves
    <2>2. scan'[t] = NoScan
        BY <1>1 DEF RoundInv, ScansSound
    <2> QED BY <1>1, <2>1, <2>2, QuietRound DEF Scanning
<1>2. ASSUME NEW t \in Pickers, PickerCall(t) PROVE RoundInv' /\ GivesUpLast
    BY <1>2, BeginRound DEF PickerCall, Threads
<1>a. ASSUME NEW t \in Threads, NEW o,
             NEW label \in {"idle", "rmDisabled", "putDisabled", "dropRecord", "save"},
             Goto(t, label, o), pc[t] = "idle", UNCHANGED <<poolVars, bag, scan>>
      PROVE  RoundInv' /\ GivesUpLast
    BY <1>1, <1>a DEF Scanning
<1>3. ASSUME NEW t \in Reporters, ReporterCall(t) PROVE RoundInv' /\ GivesUpLast
    BY <1>a, <1>3 DEF ReporterCall, ReportSuccess, ReportFailure, Threads
<1>4. ASSUME NEW t \in Workers, WorkerCall(t) PROVE RoundInv' /\ GivesUpLast
    BY <1>a, <1>4 DEF WorkerCall, RecheckSuccess, RecheckFailure, Threads
<1>5. ASSUME RefresherCall(Refresher) PROVE RoundInv' /\ GivesUpLast
    <2>1. CASE Flush(Refresher)
        BY <1>a, <2>1 DEF Flush, Threads
    <2>2. ASSUME NEW source, Merge(Refresher, source) PROVE RoundInv' /\ GivesUpLast
        <3>1. CASE Added(source) = {}
            <4>1. UNCHANGED <<poolVars, bag, scan>>
                BY <2>2, <3>1 DEF Merge
            <4> QED BY <1>a, <2>2, <3>1, <4>1 DEF Merge, Threads
        <3>2. CASE Added(source) # {}
            <4>1. ~BagCurrent'
                BY <1>0, <2>2, <3>2 DEF Merge, BagCurrent, BagNotAhead, NextGeneration, TypeOK
            <4> QED BY <1>1, <2>2, <3>2, <4>1 DEF Merge, Threads, Scanning, StateWritable
        <3> QED BY <3>1, <3>2
    <2> QED BY <1>5, <2>1, <2>2 DEF RefresherCall
<1>6. ASSUME NEW t \in Threads, EndScan(t) PROVE RoundInv' /\ GivesUpLast
    <2>1. /\ pc'[t] = "idle" /\ \A u \in Threads \ {t} : pc'[u] = pc[u]
          /\ scan' = [scan EXCEPT ![t] = NoScan] /\ pc[t] # "scan"
          /\ UNCHANGED <<proxies, generation, bag>>
        BY <1>0, <1>6, GotoMoves DEF EndScan
    <2> QED BY <1>0, <2>1, QuietRound DEF Scanning, TypeOK
<1>7. ASSUME NEW t \in Threads,
             \/ PutDisabled(t) \/ RemoveDisabled(t) \/ DropRecord(t) \/ ReadGeneration(t)
             \/ SaveBegin(t) \/ SaveEnd(t) \/ ResetSelection(t)
      PROVE  RoundInv' /\ GivesUpLast
    <2>1. Continue(op[t]) \notin Scanning
        BY DEF Continue, Scanning
    <2>2. CASE ResetSelection(t)
        BY <1>1, <2>1, <2>2 DEF ResetSelection, Scanning
    <2> QED BY <1>1, <1>7, <2>1, <2>2
            DEF PutDisabled, RemoveDisabled, WriteDisabled, DropRecord, ReadGeneration,
                SaveBegin, SaveEnd, Scanning
<1>8. ASSUME NEW t \in Threads, Retire(t) PROVE RoundInv' /\ GivesUpLast
    <2>1. CASE op[t].key \notin Range(proxies)
        BY <1>1, <1>8, <2>1 DEF Retire, Scanning
    <2>2. CASE op[t].key \in Range(proxies)
        <3>1. ~BagCurrent'
            BY <1>0, <1>8, <2>2 DEF Retire, BagCurrent, BagNotAhead, NextGeneration, TypeOK
        <3> QED BY <1>1, <1>8, <2>2, <3>1 DEF Retire, Scanning, StateWritable
    <2> QED BY <2>1, <2>2
<1>9. CASE Restart
    <2>1. PICK f \in LoadedStates : Construct(f)
        BY <1>9 DEF Restart
    <2>2. \A t \in Threads : pc'[t] = "idle" /\ scan'[t] = NoScan
        BY <2>1 DEF Construct
    <2>3. BagPartial'
        BY <2>1 DEF Construct, BagPartial
    <2> QED BY <2>2, <2>3 DEF RoundInv, ScansSound, GivesUpLast
<1>10. ASSUME UNCHANGED <<proxies, generation, bag, pc, scan>>
       PROVE  RoundInv' /\ GivesUpLast
    BY <1>10 DEF RoundInv, ScansSound, BagPartial, BagCurrent, Round, GivesUpLast
<1>11. ASSUME NEW k \in Keys, CooldownElapses(k) PROVE RoundInv' /\ GivesUpLast
    BY <1>10, <1>11 DEF CooldownElapses, threadVars
<1>12. CASE UNCHANGED vars
    BY <1>10, <1>12 DEF vars, threadVars
<1> QED BY <1>2, <1>3, <1>4, <1>5, <1>6, <1>7, <1>8, <1>9, <1>11, <1>12, DrawRound
        DEF Next, Step

\* A usable node is never missed: a scan reports exhaustion only after it drew
\* every node of the vector, wherever the bag was when the scan began.
THEOREM ScansComplete == Spec => ExhaustedOnlyAfterAllSkipped
<1>1. Init => RoundInv
    BY DEF Init, RoundInv, ScansSound, BagPartial
<1>2. PoolInv /\ RoundInv /\ [Next]_vars => RoundInv'
    BY RoundStep
<1>3. PoolInv /\ RoundInv /\ [Next]_vars
        => [\A t \in Threads :
              pc[t] = "scan" /\ pc'[t] = "exhausted" => scan'[t].skipped = Range(proxies)]_vars
    BY RoundStep DEF GivesUpLast
<1> QED BY PoolInvariant, <1>1, <1>2, <1>3, PTL DEF Spec, ExhaustedOnlyAfterAllSkipped

\* A scan that goes on has not drawn as often as the vector is long.
DrawsShort ==
    \A t \in Threads : pc[t] = "scan" => scan[t].scanned < Len(proxies)

\* next_random_available holds two locks in a loop whose counter the bag sets
\* back to one when it is refilled: the loop always has an index to draw, and
\* draws less than twice per node.
DrawsLimited ==
    \A t \in Threads : pc[t] = "scan" =>
        Drawable # {} /\ DrawsLeft(t) \in 1..(2 * Len(proxies) - 1)

\* While a scan holds its locks no other thread changes what it works on.
LEMMA LocksHold ==
    ASSUME PoolInv, RoundInv, [Next]_vars, NEW t \in Threads,
           pc[t] = "scan", pc'[t] = "scan"
    PROVE  ScanStep(t) \/ (UNCHANGED <<proxies, generation, bag>> /\ scan'[t] = scan[t])
<1> DEFINE Still == UNCHANGED <<proxies, generation, bag>> /\ scan'[t] = scan[t]
<1> USE DEF poolVars
<1>1. SelectionHeld /\ ~StateWritable
    BY DEF SelectionHeld, StateWritable
<1>2. ASSUME NEW u \in Pickers, PickerCall(u) PROVE FALSE
    BY <1>1, <1>2 DEF PickerCall, BeginScan
<1>3. ASSUME NEW u \in Reporters, ReporterCall(u) PROVE Still
    BY <1>3 DEF ReporterCall, ReportSuccess, ReportFailure
<1>4. ASSUME NEW u \in Workers, WorkerCall(u) PROVE Still
    BY <1>4 DEF WorkerCall, RecheckSuccess, RecheckFailure
<1>5. ASSUME RefresherCall(Refresher) PROVE Still
    BY <1>1, <1>5 DEF RefresherCall, Flush, Merge
<1>6. ASSUME NEW u \in Threads, ScanStep(u) PROVE ScanStep(t)
    BY <1>6 DEF RoundInv, ScansSound, ScanStep
<1>7. ASSUME NEW u \in Threads, EndScan(u) PROVE Still
    <2>1. u # t /\ scan' = [scan EXCEPT ![u] = NoScan]
        BY <1>7 DEF EndScan
    <2> QED BY <1>7, <2>1 DEF EndScan, PoolInv, TypeOK
<1>8. ASSUME NEW u \in Threads,
             PutDisabled(u) \/ RemoveDisabled(u) \/ ResetSelection(u) \/ Retire(u)
      PROVE  FALSE
    BY <1>1, <1>8 DEF PutDisabled, RemoveDisabled, WriteDisabled, ResetSelection, Retire
<1>9. ASSUME NEW u \in Threads,
             DropRecord(u) \/ ReadGeneration(u) \/ SaveBegin(u) \/ SaveEnd(u)
      PROVE  Still
    BY <1>9 DEF DropRecord, ReadGeneration, SaveBegin, SaveEnd
<1>10. ASSUME NEW k \in Keys, CooldownElapses(k) PROVE Still
    BY <1>10 DEF CooldownElapses, threadVars
<1>11. ASSUME Restart PROVE FALSE
    BY <1>11 DEF Restart, Construct
<1>12. CASE UNCHANGED vars
    BY <1>12 DEF vars, threadVars
<1> QED BY <1>2, <1>3, <1>4, <1>5, <1>6, <1>7, <1>8, <1>9, <1>10, <1>11, <1>12
        DEF Next, Step

\* A scan begins with a call, and with nothing drawn.
LEMMA ScanBegins ==
    ASSUME PoolInv, RoundInv, [Next]_vars, NEW t \in Threads,
           pc[t] # "scan", pc'[t] = "scan"
    PROVE  scan'[t].scanned = 0 /\ proxies' # <<>>
<1>0. TypeOK
    BY DEF PoolInv
<1>1. ASSUME NEW u \in Threads, NEW label, NEW o, Goto(u, label, o), label # "scan"
      PROVE  FALSE
    BY <1>0, <1>1, GotoMoves
<1>2. ASSUME NEW u \in Pickers, PickerCall(u)
      PROVE  scan'[t].scanned = 0 /\ proxies' # <<>>
    <2>1. PICK tried \in SUBSET NodesSeen : BeginScan(u, tried)
        BY <1>2 DEF PickerCall
    <2>2. u = t /\ proxies # <<>> /\ proxies' = proxies
        BY <1>0, <2>1 DEF BeginScan, TypeOK, Threads, poolVars
    <2>3. scan'[t].scanned = scan[t].scanned
        BY <1>0, <2>1, <2>2 DEF BeginScan, TypeOK, Scan
    <2>4. scan[t] = NoScan
        BY <2>1, <2>2 DEF BeginScan, RoundInv, ScansSound, Scanning
    <2> QED BY <2>2, <2>3, <2>4 DEF NoScan
<1>3. ASSUME NEW u \in Reporters, ReporterCall(u) PROVE FALSE
    BY <1>1, <1>3 DEF ReporterCall, ReportSuccess, ReportFailure, Threads
<1>4. ASSUME NEW u \in Workers, WorkerCall(u) PROVE FALSE
    BY <1>1, <1>4 DEF WorkerCall, RecheckSuccess, RecheckFailure, Threads
<1>5. ASSUME RefresherCall(Refresher) PROVE FALSE
    BY <1>1, <1>5 DEF RefresherCall, Flush, Merge, Threads
<1>6. ASSUME NEW u \in Threads, ScanStep(u) PROVE FALSE
    BY <1>0, <1>6 DEF ScanStep, Skip, HandOut, TypeOK
<1>7. ASSUME NEW o PROVE Continue(o) # "scan"
    BY DEF Continue
<1>8. ASSUME NEW u \in Threads,
             \/ EndScan(u) \/ PutDisabled(u) \/ RemoveDisabled(u) \/ DropRecord(u)
             \/ Retire(u) \/ ReadGeneration(u) \/ ResetSelection(u)
             \/ SaveBegin(u) \/ SaveEnd(u)
      PROVE  FALSE
    BY <1>1, <1>7, <1>8
       DEF EndScan, PutDisabled, RemoveDisabled, WriteDisabled, DropRecord, Retire,
           ReadGeneration, ResetSelection, SaveBegin, SaveEnd
<1>9. ASSUME NEW k \in Keys, CooldownElapses(k) PROVE FALSE
    BY <1>9 DEF CooldownElapses, threadVars
<1>10. ASSUME Restart PROVE FALSE
    BY <1>10 DEF Restart, Construct
<1>11. CASE UNCHANGED vars
    BY <1>11 DEF vars, threadVars
<1> QED BY <1>2, <1>3, <1>4, <1>5, <1>6, <1>8, <1>9, <1>10, <1>11 DEF Next, Step

\* A draw that does not end the scan takes one off what is left: from the bag
\* the scan found, then from a full round.
LEMMA OneDraw ==
    ASSUME PoolInv, RoundInv, DrawsShort, NEW t \in Threads, ScanStep(t), pc'[t] = "scan"
    PROVE  scan'[t].scanned < Len(proxies') /\ DrawsLeft(t)' = DrawsLeft(t) - 1
<1> DEFINE s == scan[t].scanned
           n == Len(proxies)
           left == Cardinality(bag.remaining)
<1>0. TypeOK /\ Round(t) /\ pc[t] = "scan" /\ s \in Nat /\ s < n /\ proxies' = proxies
    BY DEF PoolInv, RoundInv, DrawsShort, ScanStep, TypeOK, Scan, poolVars
<1>1. PICK i \in Drawable :
        /\ bag' = [generation |-> generation, remaining |-> Drawable \ {i}]
        /\ Skip(t, proxies[i])
    BY <1>0 DEF ScanStep, HandOut, TypeOK
<1>2. scan'[t].scanned = DrawCount(t) /\ ~(DrawCount(t) >= n)
    BY <1>0, <1>1 DEF Skip, TypeOK, Scan
<1>3. BagCurrent' /\ bag'.remaining = Drawable \ {i}
    BY <1>1 DEF BagCurrent, ScanStep, poolVars
<1>4. n \in Nat /\ DOMAIN proxies = 1..n /\ Drawable \subseteq DOMAIN proxies
    BY <1>0 DEF PoolInv, TypeOK, Drawable, MustRefill, BagIndicesInRange
<1>5. IsFiniteSet(DOMAIN proxies) /\ Cardinality(DOMAIN proxies) = n
    <2>1. \A m \in Nat : IsFiniteSet(1..m) /\ Cardinality(1..m) = m
        BY FS_Interval
    <2> QED BY <1>4, <2>1
<1>6. IsFiniteSet(Drawable) /\ Cardinality(Drawable) \in Nat
    BY <1>4, <1>5, FS_Subset, FS_CardinalityType
<1>7. Cardinality(bag'.remaining) = Cardinality(Drawable) - 1
    BY <1>3, <1>6, FS_RemoveElement
<1>8. DrawsLeft(t)' = IF DrawCount(t) + Cardinality(bag'.remaining) = n
                      THEN Cardinality(bag'.remaining) ELSE Cardinality(bag'.remaining) + n
    BY <1>0, <1>2, <1>3 DEF DrawsLeft
<1>9. CASE MustRefill
    <2>1. DrawCount(t) = 1 /\ Cardinality(bag'.remaining) = n - 1
        BY <1>5, <1>7, <1>9 DEF DrawCount, Drawable
    <2>2. DrawsLeft(t) = n
        <3>1. CASE ~BagCurrent
            BY <3>1 DEF DrawsLeft
        <3>2. CASE BagCurrent /\ bag.remaining = {}
            <4>1. left = 0
                BY <3>2, FS_EmptySet
            <4> QED BY <1>0, <1>4, <3>2, <4>1 DEF DrawsLeft
        <3> QED BY <1>9, <3>1, <3>2 DEF MustRefill, BagCurrent
    <2> QED BY <1>0, <1>2, <1>4, <1>8, <2>1, <2>2
<1>10. CASE ~MustRefill
    <2>1. /\ DrawCount(t) = s + 1 /\ BagCurrent
          /\ left \in Nat /\ Cardinality(bag'.remaining) = left - 1
        BY <1>6, <1>7, <1>10 DEF DrawCount, Drawable, MustRefill, BagCurrent
    <2>2. DrawsLeft(t) = IF s + left = n THEN left ELSE left + n
        BY <2>1 DEF DrawsLeft
    <2>3. DrawsLeft(t)' = IF (s + 1) + (left - 1) = n THEN left - 1 ELSE (left - 1) + n
        BY <1>8, <2>1
    <2>4. scan'[t].scanned < Len(proxies')
        BY <1>0, <1>2, <1>4, <2>1
    <2> HIDE DEF s, n, left
    <2>5. DrawsLeft(t)' = DrawsLeft(t) - 1
        BY <1>0, <1>4, <2>1, <2>2, <2>3
    <2> QED BY <2>4, <2>5
<1> QED BY <1>9, <1>10

\* Every step keeps the count of draws below the length of the vector, and the
\* draws left count down.
LEMMA DrawsStep ==
    ASSUME PoolInv, RoundInv, DrawsShort, [Next]_vars
    PROVE  DrawsShort' /\ DrawsCount
<1>0. PoolInv'
    BY StepInv
<1>1. ASSUME NEW t \in Threads, pc[t] = "scan", pc'[t] = "scan", ~ScanStep(t)
      PROVE  scan'[t].scanned < Len(proxies') /\ DrawsLeft(t)' = DrawsLeft(t)
    <2>1. UNCHANGED <<proxies, generation, bag>> /\ scan'[t] = scan[t]
        BY <1>1, LocksHold
    <2> QED BY <1>1, <2>1 DEF DrawsShort, DrawsLeft, BagCurrent
<1>2. ASSUME NEW t \in Threads, pc'[t] = "scan" PROVE scan'[t].scanned < Len(proxies')
    <2>1. CASE pc[t] # "scan"
        <3>1. scan'[t].scanned = 0 /\ proxies' # <<>>
            BY <1>2, <2>1, ScanBegins
        <3>2. proxies' \in Seq(Keys)
            BY <1>0 DEF PoolInv, TypeOK
        <3> QED BY <3>1, <3>2
    <2> QED BY <1>1, <1>2, <2>1, OneDraw
<1>3. DrawsCount
    BY <1>1, OneDraw DEF DrawsCount
<1> QED BY <1>2, <1>3 DEF DrawsShort

\* The draws left lie between one and twice the vector's length.
LEMMA DrawsInRange ==
    ASSUME PoolInv, RoundInv, DrawsShort
    PROVE  DrawsLimited
<1> SUFFICES ASSUME NEW t \in Threads, pc[t] = "scan"
             PROVE  Drawable # {} /\ DrawsLeft(t) \in 1..(2 * Len(proxies) - 1)
    BY DEF DrawsLimited
<1> DEFINE s == scan[t].scanned
           n == Len(proxies)
           left == Cardinality(bag.remaining)
<1>1. Round(t) /\ s \in Nat /\ n \in Nat /\ s < n
    BY DEF PoolInv, TypeOK, Scan, RoundInv, DrawsShort
<1>2. Drawable # {}
    <2>1. DOMAIN proxies = 1..n
        BY DEF PoolInv, TypeOK
    <2>2. 1 \in DOMAIN proxies
        BY <1>1, <2>1
    <2> QED BY <2>2 DEF Drawable, MustRefill
<1>3. CASE ~BagCurrent
    <2>1. DrawsLeft(t) = n
        BY <1>3 DEF DrawsLeft
    <2> QED BY <1>1, <1>2, <2>1
<1>4. CASE BagCurrent
    <2>1. left \in Nat
        BY <1>4, BagFinite
    <2>2. s + left < n \/ s + left = n
        BY <1>1, <1>4 DEF Round
    <2>3. DrawsLeft(t) = IF s + left = n THEN left ELSE left + n
        BY <1>4 DEF DrawsLeft
    <2> QED BY <1>1, <1>2, <2>1, <2>2, <2>3
<1> QED BY <1>3, <1>4

\* A scan ends: it can always draw, it has less than twice as many draws left as
\* there are nodes, each of its steps uses one up, and no other thread adds to
\* them or changes the vector under it.  (That a scan does take its steps is
\* a matter of fairness and not stated.)
THEOREM ScansEnd == Spec => []DrawsLimited /\ ScansCountDown
<1>1. Init => RoundInv /\ DrawsShort
    BY DEF Init, RoundInv, ScansSound, BagPartial, DrawsShort
<1>2. PoolInv /\ RoundInv /\ [Next]_vars => RoundInv'
    BY RoundStep
<1>3. PoolInv /\ RoundInv /\ DrawsShort /\ [Next]_vars => DrawsShort' /\ [DrawsCount]_vars
    BY DrawsStep
<1>4. PoolInv /\ RoundInv /\ DrawsShort => DrawsLimited
    BY DrawsInRange
<1> QED BY PoolInvariant, <1>1, <1>2, <1>3, <1>4, PTL DEF Spec, ScansCountDown

-----------------------------------------------------------------------------
(* The two lists of disabled nodes.                                        *)

\* Between the two critical sections of a report the lists may differ.
Apart == {"putDisabled", "rmDisabled"}

\* The lists agree on k, or a report on k is between its critical sections.
ListsSettled(k) ==
    \/ \E t \in Threads : pc[t] \in Apart /\ op[t].key = k
    \/ failures[k].disabled <=> disabledByHash[k] # Absent

\* A report that is under way is about a node the pool has had and will write
\* what the failure record says; a node the pool has not had is not disabled,
\* whatever disabled_by_hash remembers of it, so that the merge decides.
ReportsSound ==
    \A t \in Threads : pc[t] \in Apart =>
        /\ t \in Reporters
        /\ op[t].key \in NodesSeen
        /\ failures[op[t].key].disabled <=> pc[t] = "putDisabled"

AgreeInv ==
    /\ \A t \in Threads : pc[t] \notin {"dropRecord", "retire"}
    /\ ReportsSound
    /\ \A k \in Range(proxies) : ListsSettled(k)
    /\ \A k \in Keys \ NodesSeen : ~failures[k].disabled

\* No rechecks, and reports that follow one another.
OneReporter == Workers = {} /\ \A r, s \in Reporters : r = s

\* A step that begins and ends no report, changes no list and moves no node.
LEMMA QuietLists ==
    ASSUME PoolInv, AgreeInv,
           \A u \in Threads :
             \/ pc'[u] = pc[u] /\ op'[u] = op[u]
             \/ pc[u] \notin Apart /\ pc'[u] \notin Apart \cup {"dropRecord", "retire"},
           \A k \in Keys : failures'[k].disabled = failures[k].disabled,
           UNCHANGED <<proxies, retired, disabledByHash>>
    PROVE  AgreeInv'
<1>1. NodesSeen' = NodesSeen /\ NodesSeen \subseteq Keys /\ Range(proxies)' = Range(proxies)
      /\ Range(proxies) \subseteq Keys
    BY DEF NodesSeen, PoolInv, TypeOK, Range
<1>2. ReportsSound'
    BY <1>1 DEF ReportsSound, AgreeInv
<1>3. ASSUME NEW k \in Range(proxies) PROVE ListsSettled(k)'
    BY <1>1, <1>3 DEF AgreeInv, ListsSettled
<1> QED BY <1>1, <1>2, <1>3 DEF AgreeInv

\* A report writes the failure record and leaves the list for later.
LEMMA ReportBegins ==
    ASSUME PoolInv, AgreeInv, OneReporter, NEW t \in Reporters, NEW k \in NodesSeen,
           pc[t] = "idle", pc'[t] \in Apart, op'[t].key = k,
           \A u \in Threads \ {t} : pc'[u] = pc[u] /\ op'[u] = op[u],
           \A x \in Keys \ {k} : failures'[x].disabled = failures[x].disabled,
           failures'[k].disabled <=> pc'[t] = "putDisabled",
           UNCHANGED <<proxies, retired, disabledByHash>>
    PROVE  AgreeInv'
<1>1. NodesSeen' = NodesSeen /\ NodesSeen \subseteq Keys /\ Range(proxies)' = Range(proxies)
      /\ Range(proxies) \subseteq Keys /\ t \in Threads
    BY DEF NodesSeen, PoolInv, TypeOK, Range, Threads
<1>2. \A u \in Threads : pc[u] \notin Apart
    BY DEF AgreeInv, ReportsSound, OneReporter, Apart
<1>3. ReportsSound'
    BY <1>1, <1>2 DEF ReportsSound
<1>4. ASSUME NEW x \in Range(proxies) PROVE ListsSettled(x)'
    BY <1>1, <1>2 DEF AgreeInv, ListsSettled
<1>5. \A u \in Threads : pc'[u] \notin {"dropRecord", "retire"}
    BY DEF AgreeInv, Apart
<1> QED BY <1>1, <1>3, <1>4, <1>5 DEF AgreeInv

\* The reports: of a success, which enables the node again, and of a failure,
\* which may be the one that disables it.
LEMMA ReportAgrees ==
    ASSUME PoolInv, AgreeInv, OneReporter, NEW t \in Reporters, ReporterCall(t)
    PROVE  AgreeInv'
<1>1. TypeOK /\ t \in Threads /\ NodesSeen \subseteq Keys
    BY DEF PoolInv, TypeOK, NodesSeen, Range, Threads
<1>2. PICK k \in NodesSeen : ReportSuccess(t, k) \/ ReportFailure(t, k)
    BY DEF ReporterCall
<1>3. k \in Keys /\ failures[k] \in FailureRecord /\ failures \in [Keys -> FailureRecord]
    BY <1>1 DEF TypeOK
<1>4. CASE ReportSuccess(t, k)
    <2> DEFINE label == IF failures[k].disabled \/ failures[k].recheckFailures > 0
                        THEN "rmDisabled" ELSE "idle"
    <2>1. /\ pc[t] = "idle" /\ Goto(t, label, NewOperation(k, 0, TRUE, FALSE))
          /\ failures' = [failures EXCEPT ![k] = FreshRecord]
          /\ UNCHANGED <<proxies, retired, disabledByHash>>
        BY <1>4 DEF ReportSuccess, poolVars
    <2>2. /\ ~failures'[k].disabled
          /\ \A x \in Keys \ {k} : failures'[x].disabled = failures[x].disabled
        BY <1>3, <2>1 DEF FreshRecord
    <2>3. CASE label = "rmDisabled"
        <3>1. /\ pc'[t] = "rmDisabled" /\ op'[t] = NewOperation(k, 0, TRUE, FALSE)
              /\ \A u \in Threads \ {t} : pc'[u] = pc[u] /\ op'[u] = op[u]
            <4>1. Goto(t, "rmDisabled", NewOperation(k, 0, TRUE, FALSE))
                BY <2>1, <2>3
            <4> QED BY <1>1, <4>1, GotoMoves DEF NewOperation
        <3> QED BY <2>1, <2>2, <3>1, ReportBegins DEF NewOperation, Apart
    <2>4. CASE label = "idle"
        <3>1. /\ pc'[t] = "idle"
              /\ \A u \in Threads \ {t} : pc'[u] = pc[u] /\ op'[u] = op[u]
            BY <1>1, <2>1, <2>4, GotoMoves
        <3>2. \A x \in Keys : failures'[x].disabled = failures[x].disabled
            BY <1>3, <2>1, <2>4 DEF FreshRecord, FailureRecord
        <3> QED BY <2>1, <3>1, <3>2, QuietLists DEF Apart
    <2> QED BY <2>3, <2>4
<1>5. CASE ReportFailure(t, k)
    <2> DEFINE r == failures[k]
               n == IF r.disabled THEN r ELSE Failed(r)
               label == IF n.disabled /\ ~r.disabled THEN "putDisabled" ELSE "idle"
    <2>1. /\ pc[t] = "idle" /\ Goto(t, label, NewOperation(k, 0, TRUE, FALSE))
          /\ failures' = [failures EXCEPT ![k] = n]
          /\ UNCHANGED <<proxies, retired, disabledByHash>>
        BY <1>5 DEF ReportFailure, poolVars
    <2>2. n \in FailureRecord
        BY <1>3, RecordTypes
    <2>3. /\ failures'[k] = n
          /\ \A x \in Keys \ {k} : failures'[x].disabled = failures[x].disabled
        BY <1>3, <2>1
    <2>4. CASE n.disabled /\ ~r.disabled
        <3>1. /\ pc'[t] = "putDisabled" /\ op'[t] = NewOperation(k, 0, TRUE, FALSE)
              /\ \A u \in Threads \ {t} : pc'[u] = pc[u] /\ op'[u] = op[u]
            <4>1. Goto(t, "putDisabled", NewOperation(k, 0, TRUE, FALSE))
                BY <2>1, <2>4
            <4> QED BY <1>1, <4>1, GotoMoves DEF NewOperation
        <3> QED BY <2>1, <2>3, <2>4, <3>1, ReportBegins DEF NewOperation, Apart
    <2>5. CASE ~(n.disabled /\ ~r.disabled)
        <3>1. /\ pc'[t] = "idle"
              /\ \A u \in Threads \ {t} : pc'[u] = pc[u] /\ op'[u] = op[u]
            BY <1>1, <2>1, <2>5, GotoMoves
        <3>2. n.disabled = r.disabled
            BY <1>3, <2>2, <2>5 DEF FailureRecord
        <3>3. \A x \in Keys : failures'[x].disabled = failures[x].disabled
            BY <1>3, <2>3, <3>2
        <3> QED BY <2>1, <3>1, <3>3, QuietLists DEF Apart
    <2> QED BY <2>4, <2>5
<1> QED BY <1>2, <1>4, <1>5

\* The second critical section brings the list in line with the record: no
\* other report has touched the record since.
LEMMA ReportEnds ==
    ASSUME PoolInv, AgreeInv, OneReporter, NEW t \in Threads,
           PutDisabled(t) \/ RemoveDisabled(t)
    PROVE  AgreeInv'
<1> DEFINE k == op[t].key
<1>1. TypeOK /\ NodesSeen \subseteq Keys /\ Range(proxies) \subseteq Keys
    BY DEF PoolInv, TypeOK, NodesSeen, Range
<1>2. /\ pc[t] \in Apart /\ Goto(t, Continue(op[t]), op[t])
      /\ UNCHANGED <<proxies, retired, failures>>
      /\ \/ pc[t] = "putDisabled" /\ disabledByHash' = [disabledByHash EXCEPT ![k] = op[t].count]
         \/ pc[t] = "rmDisabled" /\ disabledByHash' = [disabledByHash EXCEPT ![k] = Absent]
    BY DEF PutDisabled, RemoveDisabled, WriteDisabled, Apart
<1>3. /\ pc'[t] \notin Apart \cup {"dropRecord", "retire"}
      /\ \A u \in Threads \ {t} : pc'[u] = pc[u] /\ op'[u] = op[u]
    BY <1>1, <1>2, GotoMoves DEF Continue, Apart
<1>4. /\ t \in Reporters /\ k \in NodesSeen
      /\ failures[k].disabled <=> pc[t] = "putDisabled"
    BY <1>2 DEF AgreeInv, ReportsSound
<1>5. \A u \in Threads \ {t} : pc[u] \notin Apart
    BY <1>4 DEF AgreeInv, ReportsSound, OneReporter
<1>6. op[t].count \in Nat /\ op[t].count # Absent /\ disabledByHash \in [Keys -> Nat \cup {Absent}]
    BY <1>1 DEF TypeOK, Operation, Absent
<1>7. failures[k].disabled <=> disabledByHash'[k] # Absent
    BY <1>1, <1>2, <1>4, <1>6
<1>8. \A x \in Keys \ {k} : disabledByHash'[x] = disabledByHash[x]
    BY <1>2, <1>6
<1>9. Range(proxies)' = Range(proxies) /\ NodesSeen' = NodesSeen
    BY <1>2 DEF NodesSeen
<1>10. ASSUME NEW x \in Range(proxies) PROVE ListsSettled(x)'
    <2>1. CASE x = k
        BY <1>2, <1>7, <2>1 DEF ListsSettled
    <2>2. CASE x # k
        <3>1. ListsSettled(x)
            BY DEF AgreeInv
        <3>2. failures[x].disabled <=> disabledByHash[x] # Absent
            BY <1>5, <2>2, <3>1 DEF ListsSettled
        <3> QED BY <1>1, <1>2, <1>8, <2>2, <3>2 DEF ListsSettled
    <2> QED BY <2>1, <2>2
<1>11. ReportsSound'
    BY <1>3, <1>5 DEF ReportsSound
<1> QED BY <1>2, <1>3, <1>9, <1>10, <1>11 DEF AgreeInv

\* A node that joins is disabled exactly when disabled_by_hash names it: the
\* merge overrides the record it finds, which is not disabled.
LEMMA MergeAgrees ==
    ASSUME PoolInv, AgreeInv, NEW source \in SUBSET Keys, Merge(Refresher, source)
    PROVE  AgreeInv'
<1> DEFINE t == Refresher
           added == Added(source)
<1>1. /\ TypeOK /\ t \in Threads /\ IsInjective(proxies) /\ proxies \in Seq(Keys)
      /\ NodesSeen \subseteq Keys /\ Range(proxies) \subseteq Keys
    BY DEF PoolInv, TypeOK, NoDuplicateNodes, Threads, NodesSeen, Range
<1>2. /\ added \subseteq Keys /\ added \cap NodesSeen = {}
      /\ pc[t] = "idle" /\ retired' = retired /\ disabledByHash' = disabledByHash
      /\ failures' = [k \in Keys |->
                 IF k \in added /\ disabledByHash[k] # Absent
                 THEN DisabledRecord(disabledByHash[k]) ELSE failures[k]]
    BY DEF Merge, Added, NodesSeen
<1>3. /\ pc'[t] \notin Apart \cup {"dropRecord", "retire"}
      /\ \A u \in Threads \ {t} : pc'[u] = pc[u] /\ op'[u] = op[u]
    <2>1. PICK label \in {"reset", "save", "idle"} : \E o : Goto(t, label, o)
        BY DEF Merge
    <2> QED BY <1>1, <2>1, GotoMoves DEF Apart
<1>4. Range(proxies)' = Range(proxies) \cup added
    <2>1. CASE added = {}
        BY <2>1 DEF Merge
    <2>2. CASE added # {}
        <3>1. PICK tail \in Orderings(added) : proxies' = proxies \o tail
            BY <2>2 DEF Merge, Appended
        <3>2. tail \in Seq(Keys) /\ IsInjective(tail) /\ Range(tail) = added
            BY <1>2, OrderingsFacts, OrderingsOnto
        <3>3. Range(proxies) \cap Range(tail) = {}
            BY <1>2, <3>2 DEF NodesSeen
        <3> QED BY <1>1, <3>1, <3>2, <3>3, AppendFacts
    <2> QED BY <2>1, <2>2
<1>5. NodesSeen' = NodesSeen \cup added
    BY <1>2, <1>4 DEF NodesSeen
<1>6. \A k \in Keys \ added : failures'[k] = failures[k]
    BY <1>2
<1>7. \A k \in added : failures'[k].disabled <=> disabledByHash'[k] # Absent
    <2> SUFFICES ASSUME NEW k \in added
                 PROVE  failures'[k].disabled <=> disabledByHash'[k] # Absent
        OBVIOUS
    <2>1. ~failures[k].disabled
        BY <1>2 DEF AgreeInv
    <2> QED BY <1>2, <2>1 DEF DisabledRecord
<1>8. ReportsSound'
    <2> SUFFICES ASSUME NEW u \in Threads, pc'[u] \in Apart
                 PROVE  /\ u \in Reporters /\ op'[u].key \in NodesSeen'
                        /\ failures'[op'[u].key].disabled <=> pc'[u] = "putDisabled"
        BY DEF ReportsSound
    <2>1. pc'[u] = pc[u] /\ op'[u] = op[u]
        BY <1>3
    <2>2. /\ u \in Reporters /\ op[u].key \in NodesSeen
          /\ failures[op[u].key].disabled <=> pc[u] = "putDisabled"
        BY <2>1 DEF AgreeInv, ReportsSound
    <2> QED BY <1>1, <1>2, <1>5, <1>6, <2>1, <2>2
<1>9. ASSUME NEW k \in Range(proxies)' PROVE ListsSettled(k)'
    <2>1. CASE k \in added
        BY <1>7, <2>1 DEF ListsSettled
    <2>2. CASE k \in Range(proxies)
        <3>1. k \in NodesSeen /\ k \in Keys \ added
            BY <1>1, <1>2, <2>2 DEF NodesSeen
        <3>2. CASE failures[k].disabled <=> disabledByHash[k] # Absent
            BY <1>2, <1>6, <3>1, <3>2 DEF ListsSettled
        <3>3. ASSUME NEW u \in Threads, pc[u] \in Apart, op[u].key = k
              PROVE  ListsSettled(k)'
            <4>1. u # t
                BY <1>2, <3>3 DEF Apart
            <4> QED BY <1>3, <3>3, <4>1 DEF ListsSettled
        <3> QED BY <2>2, <3>2, <3>3 DEF AgreeInv, ListsSettled
    <2> QED BY <1>4, <2>1, <2>2
<1>10. \A u \in Threads : pc'[u] \notin {"dropRecord", "retire"}
    BY <1>3 DEF AgreeInv
<1>11. \A k \in Keys \ NodesSeen' : ~failures'[k].disabled
    BY <1>5, <1>6 DEF AgreeInv
<1> QED BY <1>8, <1>9, <1>10, <1>11 DEF AgreeInv

\* The constructor disables the restored nodes the file names as disabled.
LEMMA RestartAgrees ==
    ASSUME PoolInv, Restart
    PROVE  AgreeInv'
<1>1. PICK f \in LoadedStates : Construct(f)
    BY DEF Restart
<1>2. f \in PersistedState
    BY <1>1 DEF LoadedStates, PoolInv, TypeOK, PersistedState, EmptyFile
<1>3. RestoredKeys(f) \in SUBSET Keys
    BY <1>2, ConstantsAssumption DEF RestoredKeys
<1>4. Range(proxies)' = RestoredKeys(f)
    <2>1. proxies' \in Orderings(RestoredKeys(f))
        BY <1>1 DEF Construct
    <2> QED BY <1>3, <2>1, OrderingsOnto
<1>5. /\ \A t \in Threads : pc'[t] = "idle"
      /\ disabledByHash' = f.disabled /\ failures' = RestoredRecords(f)
    BY <1>1 DEF Construct
<1>6. \A k \in Keys : failures'[k].disabled <=> k \in RestoredKeys(f) /\ f.disabled[k] # Absent
    BY <1>5 DEF RestoredRecords, DisabledRecord, FreshRecord
<1>7. RestoredKeys(f) \subseteq NodesSeen'
    BY <1>4 DEF NodesSeen
<1> QED BY <1>3, <1>4, <1>5, <1>6, <1>7 DEF AgreeInv, ReportsSound, ListsSettled, Apart

LEMMA AgreeStep ==
    ASSUME PoolInv, AgreeInv, OneReporter, [Next]_vars
    PROVE  AgreeInv'
<1>1. TypeOK /\ failures \in [Keys -> FailureRecord] /\ Refresher \in Threads
    BY DEF PoolInv, TypeOK, Threads
<1>2. ASSUME NEW t \in Pickers, PickerCall(t) PROVE AgreeInv'
    <2>1. /\ pc[t] = "idle" /\ pc'[t] \in {"exhausted", "scan"} /\ t \in Threads
          /\ \A u \in Threads \ {t} : pc'[u] = pc[u] /\ op'[u] = op[u]
          /\ UNCHANGED <<proxies, retired, disabledByHash, failures>>
        BY <1>1, <1>2 DEF PickerCall, BeginScan, poolVars, TypeOK, Threads
    <2> QED BY <2>1, QuietLists DEF Apart
<1>3. ASSUME NEW t \in Threads, ScanStep(t) PROVE AgreeInv'
    <2>1. PICK i \in Drawable : IF PassedOver(t, proxies[i])
                                THEN Skip(t, proxies[i]) ELSE HandOut(t, proxies[i])
        BY <1>3 DEF ScanStep
    <2>2. /\ pc[t] = "scan" /\ pc'[t] \in {"exhausted", "scan", "returned"}
          /\ \A u \in Threads \ {t} : pc'[u] = pc[u] /\ op'[u] = op[u]
          /\ UNCHANGED <<proxies, retired, disabledByHash>>
        BY <1>1, <1>3, <2>1 DEF ScanStep, Skip, HandOut, poolVars, TypeOK
    <2>3. \/ failures' = failures
          \/ failures' = [failures EXCEPT ![proxies[i]] = Thawed(@)]
        BY <2>1 DEF Skip, HandOut
    <2>4. ASSUME NEW k \in Keys PROVE failures'[k].disabled = failures[k].disabled
        <3>1. failures'[k] = failures[k] \/ failures'[k] = Thawed(failures[k])
            BY <1>1, <2>3
        <3>2. failures[k] \in FailureRecord
            BY <1>1
        <3> QED BY <3>1, <3>2 DEF Thawed, FailureRecord
    <2> QED BY <2>2, <2>4, QuietLists DEF Apart
<1>4. ASSUME NEW t \in Threads,
             EndScan(t) \/ ReadGeneration(t) \/ ResetSelection(t) \/ SaveBegin(t) \/ SaveEnd(t)
      PROVE  AgreeInv'
    <2>1. PICK label \in {"idle", "reset", "saving", Continue(op[t])} : \E o : Goto(t, label, o)
        BY <1>4 DEF EndScan, ReadGeneration, ResetSelection, SaveBegin, SaveEnd
    <2>2. label \notin Apart \cup {"dropRecord", "retire"}
        BY <2>1 DEF Continue, Apart
    <2>3. /\ pc'[t] = label
          /\ \A u \in Threads \ {t} : pc'[u] = pc[u] /\ op'[u] = op[u]
        BY <1>1, <2>1, GotoMoves
    <2>4. pc[t] \notin Apart /\ UNCHANGED <<proxies, retired, disabledByHash, failures>>
        BY <1>4 DEF EndScan, ReadGeneration, ResetSelection, SaveBegin, SaveEnd, poolVars, Apart
    <2> QED BY <2>2, <2>3, <2>4, QuietLists
<1>5. ASSUME Flush(Refresher) PROVE AgreeInv'
    <2>1. /\ pc'[Refresher] = "save" /\ pc[Refresher] = "idle"
          /\ \A u \in Threads \ {Refresher} : pc'[u] = pc[u] /\ op'[u] = op[u]
          /\ UNCHANGED <<proxies, retired, disabledByHash, failures>>
        BY <1>1, <1>5, GotoMoves DEF Flush, poolVars
    <2> QED BY <2>1, QuietLists DEF Apart
<1>6. ASSUME NEW k \in Keys, CooldownElapses(k) PROVE AgreeInv'
    <2>1. \A x \in Keys : failures'[x].disabled = failures[x].disabled
        BY <1>1, <1>6 DEF CooldownElapses, FailureRecord
    <2> QED BY <1>6, <2>1, QuietLists DEF CooldownElapses, threadVars, poolVars
<1>7. CASE UNCHANGED vars
    BY <1>7, QuietLists DEF vars, threadVars, poolVars
<1>8. ASSUME NEW t \in Threads PROVE ~DropRecord(t) /\ ~Retire(t)
    BY DEF AgreeInv, DropRecord, Retire
<1>9. ~(\E t \in Workers : WorkerCall(t))
    BY DEF OneReporter
<1> QED BY <1>2, <1>3, <1>4, <1>5, <1>6, <1>7, <1>8, <1>9,
           ReportAgrees, ReportEnds, MergeAgrees, RestartAgrees
        DEF Next, Step, RefresherCall

\* With one reporting thread and no rechecks the rotation and the state file
\* agree on which nodes are disabled whenever nothing is under way, through
\* merges, failed saves and restarts: what separates the two lists is two
\* threads between the critical sections of their reports, nothing else.
THEOREM ListsAgree == OneReporter => (Spec => []DisabledListsAgree)
<1> SUFFICES ASSUME OneReporter PROVE Spec => []DisabledListsAgree
    OBVIOUS
<1>1. Init => AgreeInv
    BY DEF Init, AgreeInv, ReportsSound, FreshRecord, Apart, Range
<1>2. PoolInv /\ AgreeInv /\ [Next]_vars => AgreeInv'
    BY AgreeStep
<1>3. AgreeInv => DisabledListsAgree
    BY DEF AgreeInv, ListsSettled, DisabledListsAgree, Apart
<1> QED BY PoolInvariant, <1>1, <1>2, <1>3, PTL DEF Spec

=============================================================================
