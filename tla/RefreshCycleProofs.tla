-------------------------- MODULE RefreshCycleProofs --------------------------
(* Proofs about the refresh on top of the pool, for every pool, number of  *)
(* workers and number of refreshes.                                        *)
EXTENDS RefreshCycle, PoolLifeProofs

\* Where the threads of each kind can be.  Reports of clients ask for a save and
\* reports of workers do not; only a worker takes a node out of the pool; the
\* refresh task uses the pool in two of its phases.
ClientPlaces == {"idle", "putDisabled", "rmDisabled", "save", "saving"}
WorkerPlaces == {"idle", "putDisabled", "rmDisabled", "dropRecord", "retire",
                 "readGeneration", "reset"}
RefresherPlaces == {"idle", "reset", "save", "saving"}

Clients == Pickers \cup Reporters

ClientSound(label, o) ==
    /\ label \in ClientPlaces
    /\ ~o.reset
    /\ label \in {"putDisabled", "rmDisabled"} => o.save

PlacesSound ==
    /\ \A t \in Clients : ClientSound(pc[t], op[t])
    /\ \A w \in Workers : pc[w] \in WorkerPlaces /\ ~op[w].save
    /\ pc[Refresher] \in RefresherPlaces /\ ~op[Refresher].reset
    /\ phase \notin {"merging", "flushing"} => pc[Refresher] = "idle"

\* The workers run in two phases, report in one, and each finishes its report
\* before it goes on.
WorkersSound ==
    /\ phase \notin {"check", "rechecking"} => AllJoined
    /\ phase = "check" => \A w \in Workers : pc[w] = "idle"
    /\ \A w \in Workers : worker[w].at = "probing" <=> worker[w].key \in Keys
    /\ \A w \in Workers : pc[w] # "idle" => worker[w].at = "ready"
    /\ phase \notin {"check", "listing", "rechecking"} => queue = {}
    /\ phase # "check" => spare = NoSpare

\* Worker w probes node k, or is taking it out of the pool.
Retiring(w) == pc[w] \in {"dropRecord", "retire"}
Holds(w, k) ==
    \/ worker[w].at = "probing" /\ worker[w].key = k
    \/ Retiring(w) /\ op[w].key = k

\* A node under recheck is in the queue or with one worker, and stays in the pool
\* until that worker takes it out.
HeldOnce ==
    /\ phase = "rechecking" =>
        /\ \A v, w \in Workers, k \in Keys : Holds(v, k) /\ Holds(w, k) => v = w
        /\ \A w \in Workers, k \in Keys : Holds(w, k) => k \notin queue
        /\ queue \subseteq Range(proxies)
        /\ \A w \in Workers, k \in Keys : Holds(w, k) => k \in Range(proxies)
    /\ phase = "listing" => queue \cup active \subseteq Range(proxies)

\* The inductive invariant.
RefreshInv == PoolInv /\ RefreshTypeOK /\ PlacesSound /\ WorkersSound /\ HeldOnce

-----------------------------------------------------------------------------

\* The kinds of threads.
LEMMA Kinds ==
    /\ Workers \subseteq Threads /\ Clients \subseteq Threads /\ Refresher \in Threads
    /\ Threads = Clients \cup Workers \cup {Refresher}
    /\ Clients \cap Workers = {} /\ Refresher \notin Clients /\ Refresher \notin Workers
BY ThreadsAssumption DEF Threads, Clients

\* A phase without copies of its nodes.
LEMMA SpareType == NoSpare \in [Keys -> Nat] /\ \A k \in Keys : NoSpare[k] = 0
BY DEF NoSpare

\* A step that leaves the pool alone leaves its invariant alone.
LEMMA PoolStays ==
    ASSUME PoolInv, UNCHANGED vars
    PROVE  PoolInv' /\ TypeOK' /\ UNCHANGED <<pc, op, proxies>>
BY StepInv DEF PoolInv, vars, poolVars, threadVars

\* The types of the refresh's own variables.
LEMMA WorkerTypes ==
    ASSUME RefreshInv
    PROVE  /\ worker \in [Workers -> [at : {"ready", "take", "probing", "done"},
                                      key : Keys \cup {NoKey}]]
           /\ NoKey \notin Keys /\ queue \subseteq Keys /\ active \subseteq Keys
BY ConstantsAssumption DEF RefreshInv, RefreshTypeOK

\* Ready and Done are places of a worker that holds nothing.
LEMMA RestingWorkers ==
    ASSUME NEW x \in {Ready, Done}
    PROVE  /\ x \in [at : {"ready", "take", "probing", "done"}, key : Keys \cup {NoKey}]
           /\ x.at # "probing" /\ x.key \notin Keys /\ x.at \in {"ready", "done"}
BY ConstantsAssumption DEF Ready, Done

\* Before a phase of probing and after it nobody holds a node.
LEMMA NobodyHolds ==
    ASSUME RefreshInv, phase \notin {"check", "rechecking"}
    PROVE  /\ \A w \in Workers : worker[w] = Done /\ pc[w] = "idle" /\ worker[w].at = "done"
           /\ \A w \in Workers, k \in Keys : ~Holds(w, k)
BY DEF RefreshInv, WorkersSound, AllJoined, Done, Holds, Retiring

\* The refresh task goes from one phase to another that uses no worker.
LEMMA PhaseMoves ==
    ASSUME RefreshInv, UNCHANGED <<vars, worker, history>>,
           phase \notin {"check", "rechecking"} \/ AllJoined,
           phase' \in Phases \ {"check", "rechecking"},
           pc[Refresher] = "idle",
           queue' \subseteq Keys, spare' = NoSpare, active' \subseteq Keys,
           stopChecks' \in BOOLEAN, rounds' \in Nat, reports' \in Nat,
           phase' # "listing" => queue' = {},
           phase' = "listing" => queue' \cup active' \subseteq Range(proxies)
    PROVE  RefreshInv'
<1>1. PoolInv' /\ TypeOK' /\ UNCHANGED <<pc, op, proxies>>
    BY PoolStays DEF RefreshInv
<1>2. RefreshTypeOK'
    BY <1>1, SpareType DEF RefreshInv, RefreshTypeOK, history
<1>3. PlacesSound'
    BY <1>1 DEF RefreshInv, PlacesSound
<1>4. AllJoined /\ AllJoined'
    BY <1>1 DEF RefreshInv, WorkersSound, AllJoined
<1>5. WorkersSound'
    BY <1>1, <1>4 DEF RefreshInv, WorkersSound, AllJoined, Phases
<1>6. \A w \in Workers, k \in Keys : ~Holds(w, k)'
    BY <1>4 DEF AllJoined, Holds, Retiring, Done
<1>7. HeldOnce'
    BY <1>1, <1>6 DEF HeldOnce
<1> QED BY <1>1, <1>2, <1>3, <1>5, <1>7 DEF RefreshInv

\* A phase of probing starts on a queue of nodes.
LEMMA ProbingStarts ==
    ASSUME RefreshInv, UNCHANGED <<vars, bounds, history>>,
           phase \notin {"check", "rechecking"}, pc[Refresher] = "idle",
           phase' \in {"check", "rechecking"}, active' \subseteq Keys,
           NEW nodes \in SUBSET Keys, StartWorkers(nodes),
           spare' \in [Keys -> Nat], phase' = "rechecking" => spare' = NoSpare,
           phase' = "rechecking" => nodes \subseteq Range(proxies)
    PROVE  RefreshInv'
<1>1. PoolInv' /\ TypeOK' /\ UNCHANGED <<pc, op, proxies>>
    BY PoolStays DEF RefreshInv
<1>2. \A w \in Workers : worker'[w] = Ready /\ pc'[w] = "idle"
    BY <1>1, NobodyHolds DEF StartWorkers
<1>3. RefreshTypeOK'
    <2>1. worker' \in [Workers -> [at : {"ready", "take", "probing", "done"},
                                   key : Keys \cup {NoKey}]]
        BY RestingWorkers DEF StartWorkers
    <2> QED
        BY <1>1, <2>1 DEF RefreshInv, RefreshTypeOK, history, bounds, Phases, StartWorkers
<1>4. PlacesSound'
    BY <1>1 DEF RefreshInv, PlacesSound
<1>5. WorkersSound'
    BY <1>1, <1>2, RestingWorkers DEF WorkersSound
<1>6. \A w \in Workers, k \in Keys : ~Holds(w, k)'
    BY <1>2, RestingWorkers DEF Holds, Retiring
<1>7. HeldOnce'
    BY <1>1, <1>6 DEF HeldOnce, StartWorkers
<1> QED BY <1>1, <1>3, <1>4, <1>5, <1>7 DEF RefreshInv

\* The steps of the refresh task that do not use the pool.
LEMMA TaskInv ==
    ASSUME RefreshInv,
           \/ \E source \in SUBSET Keys : Load(source)
           \/ LoadFails \/ NoTarget \/ EndCheck \/ EndMerge
           \/ ListNodes \/ (\E k \in Keys : ListNode(k)) \/ StartRecheck
           \/ EndRefresh \/ NextRefresh \/ LastSleep
    PROVE  RefreshInv'
<1>1. /\ queue \subseteq Keys /\ active \subseteq Keys /\ stopChecks \in BOOLEAN
      /\ rounds \in Nat /\ reports \in Nat /\ phase \in Phases
      /\ Range(proxies) \subseteq Keys
    BY DEF RefreshInv, PoolInv, TypeOK, RefreshTypeOK, Range
<1>2. /\ phase \notin {"check", "listing", "rechecking"} => queue = {}
      /\ phase \notin {"merging", "flushing"} => pc[Refresher] = "idle"
      /\ phase = "listing" => queue \cup active \subseteq Range(proxies)
      /\ phase # "check" => spare = NoSpare
    BY DEF RefreshInv, PlacesSound, WorkersSound, HeldOnce
<1>3. CASE \E source \in SUBSET Keys : Load(source)
    <2>1. PICK source \in SUBSET Keys : Load(source)
        BY <1>3
    <2>2. CASE HealthCheckEnabled /\ source # {}
        <3>1. PICK more \in [source -> 0..MaxCopies] :
                 spare' = [k \in Keys |-> IF k \in source THEN more[k] ELSE 0]
            BY <2>1, <2>2 DEF Load
        <3>2. spare' \in [Keys -> Nat]
            BY <3>1, RefreshAssumption
        <3>3. /\ phase \in {"start", "load"} /\ phase' = "check" /\ active' = {}
              /\ StartWorkers(source) /\ UNCHANGED <<vars, bounds, history>>
            BY <2>1, <2>2 DEF Load
        <3> QED BY <1>1, <1>2, <3>2, <3>3, ProbingStarts
    <2>3. CASE ~(HealthCheckEnabled /\ source # {})
        BY <1>1, <1>2, <2>1, <2>3, PhaseMoves DEF Load, bounds, Phases
    <2> QED BY <2>2, <2>3
<1>4. CASE LoadFails \/ NoTarget
    BY <1>1, <1>2, <1>4, PhaseMoves DEF LoadFails, NoTarget, bounds, Phases
<1>5. CASE EndCheck
    BY <1>1, <1>2, <1>5, PhaseMoves DEF EndCheck, bounds, Phases
<1>6. CASE EndMerge \/ EndRefresh
    BY <1>1, <1>2, <1>6, PhaseMoves DEF EndMerge, EndRefresh, bounds, Phases
<1>7. CASE ListNodes
    BY <1>1, <1>2, <1>7, PhaseMoves DEF ListNodes, bounds, Phases
<1>8. CASE \E k \in Keys : ListNode(k)
    <2>1. PICK k \in Keys : ListNode(k)
        BY <1>8
    <2>2. queue' \subseteq queue \cup {k} /\ k \in active /\ active' \subseteq active
        BY <2>1 DEF ListNode
    <2>3. phase = "listing" /\ phase' = "listing" /\ UNCHANGED <<vars, spare, worker, history>>
          /\ stopChecks' = stopChecks /\ rounds' = rounds /\ reports' = reports
        BY <2>1 DEF ListNode, bounds
    <2> QED
        BY <1>1, <1>2, <2>2, <2>3, PhaseMoves DEF Phases
<1>9. CASE StartRecheck
    <2>1. PICK valid \in TargetOutcomes :
             IF queue = {} \/ ~valid
             THEN /\ phase' = "wait"
                  /\ queue' = {}
                  /\ UNCHANGED <<stopChecks, worker>>
             ELSE /\ phase' = "rechecking"
                  /\ StartWorkers(queue)
        BY <1>9 DEF StartRecheck
    <2>2. phase = "listing" /\ UNCHANGED <<vars, spare, active, bounds, history>>
        BY <1>9 DEF StartRecheck
    <2>3. CASE queue = {} \/ ~valid
        BY <1>1, <1>2, <2>1, <2>2, <2>3, PhaseMoves DEF bounds, Phases
    <2>4. CASE ~(queue = {} \/ ~valid)
        BY <1>1, <1>2, <2>1, <2>2, <2>4, ProbingStarts, SpareType
    <2> QED BY <2>3, <2>4
<1>10. CASE NextRefresh
    BY <1>1, <1>2, <1>10, PhaseMoves DEF NextRefresh, Phases
<1>11. CASE LastSleep
    BY <1>1, <1>2, <1>11, PhaseMoves DEF LastSleep, Phases, allVars, refreshVars, bounds
<1> QED BY <1>3, <1>4, <1>5, <1>6, <1>7, <1>8, <1>9, <1>10, <1>11

-----------------------------------------------------------------------------
(* The workers.                                                            *)

WorkerRecord == [at : {"ready", "take", "probing", "done"}, key : Keys \cup {NoKey}]

\* What the invariant says of one worker that is not resting.
LEMMA BusyWorker ==
    ASSUME RefreshInv, NEW w \in Workers, worker[w].at # "done"
    PROVE  /\ phase \in {"check", "rechecking"} /\ phase \in Phases
           /\ worker[w].at # "ready" => pc[w] = "idle"
           /\ worker[w].at = "probing" =>
                /\ worker[w].key \in Keys
                /\ Holds(w, worker[w].key)
                /\ phase = "rechecking" => worker[w].key \in Range(proxies)
<1>1. phase \in {"check", "rechecking"} /\ phase \in Phases
    BY NobodyHolds DEF RefreshInv, RefreshTypeOK
<1>2. worker[w].at # "ready" => pc[w] = "idle"
    BY DEF RefreshInv, WorkersSound
<1>3. ASSUME worker[w].at = "probing"
      PROVE  worker[w].key \in Keys /\ Holds(w, worker[w].key)
    BY <1>3 DEF RefreshInv, WorkersSound, Holds
<1>4. ASSUME worker[w].at = "probing", phase = "rechecking"
      PROVE  worker[w].key \in Range(proxies)
    BY <1>3, <1>4 DEF RefreshInv, HeldOnce
<1> QED BY <1>1, <1>2, <1>3, <1>4

\* A worker moves on without a report: a node it takes for a recheck leaves the
\* queue.
LEMMA WorkerMoves ==
    ASSUME RefreshInv, UNCHANGED <<vars, phase, bounds, history>>,
           NEW w \in Workers, NEW x \in WorkerRecord,
           worker[w].at # "done", pc[w] = "idle",
           worker' = [worker EXCEPT ![w] = x],
           x.at = "probing" <=> x.key \in Keys,
           phase = "rechecking" /\ x.at = "probing" => x.key \in queue \ queue',
           spare' \in [Keys -> Nat], phase = "rechecking" => spare' = NoSpare,
           queue' \subseteq queue, stopChecks' \in BOOLEAN, active' \subseteq Keys
    PROVE  RefreshInv'
<1>1. PoolInv' /\ TypeOK' /\ UNCHANGED <<pc, op, proxies>>
    BY PoolStays DEF RefreshInv
<1>2. worker \in [Workers -> WorkerRecord] /\ queue \subseteq Keys
    BY WorkerTypes DEF WorkerRecord
<1>3. phase \in {"check", "rechecking"}
    BY BusyWorker
<1>4. RefreshTypeOK'
    <2>1. worker' \in [Workers -> WorkerRecord]
        BY <1>2
    <2> QED
        BY <1>1, <1>2, <2>1 DEF RefreshInv, RefreshTypeOK, history, bounds, WorkerRecord
<1>5. PlacesSound'
    BY <1>1 DEF RefreshInv, PlacesSound
<1>6. worker'[w] = x /\ \A v \in Workers \ {w} : worker'[v] = worker[v]
    BY <1>2
<1>7. WorkersSound'
    BY <1>1, <1>3, <1>6 DEF RefreshInv, WorkersSound
<1>8. phase = "rechecking" => \A v \in Workers, k \in Keys :
         Holds(v, k)' => \/ v # w /\ Holds(v, k)
                         \/ v = w /\ k \in queue \ queue'
    BY <1>1, <1>6 DEF Holds, Retiring
<1>9. HeldOnce'
    BY <1>1, <1>3, <1>8 DEF RefreshInv, HeldOnce
<1> QED BY <1>1, <1>4, <1>5, <1>7, <1>9 DEF RefreshInv

\* A worker reports on the node it probed, and may go on to retire it.
LEMMA WorkerReports ==
    ASSUME RefreshInv, PoolInv', NEW w \in Workers, NEW x \in WorkerRecord,
           phase = "rechecking", worker[w].at = "probing",
           worker' = [worker EXCEPT ![w] = x], x.at = "ready", x.key \notin Keys,
           pc'[w] \in WorkerPlaces, ~op'[w].save,
           pc'[w] \in {"dropRecord", "retire"} => op'[w].key = worker[w].key,
           \A u \in Threads \ {w} : pc'[u] = pc[u] /\ op'[u] = op[u],
           streak' \in [Keys -> Nat], failed' \in [Keys -> Nat],
           UNCHANGED <<proxies, phase, queue, spare, stopChecks, active, rounds, reports, cooled>>
    PROVE  RefreshInv'
<1>2. worker \in [Workers -> WorkerRecord] /\ queue \subseteq Keys
    BY WorkerTypes DEF WorkerRecord
<1>3. worker[w].key \in Keys /\ Holds(w, worker[w].key)
    BY BusyWorker
<1>4. RefreshTypeOK'
    <2>1. worker' \in [Workers -> WorkerRecord]
        BY <1>2
    <2> QED
        BY <2>1 DEF RefreshInv, RefreshTypeOK, WorkerRecord, PoolInv
<1>5. PlacesSound'
    BY Kinds DEF RefreshInv, PlacesSound
<1>6. worker'[w] = x /\ \A v \in Workers \ {w} : worker'[v] = worker[v]
    BY <1>2
<1>7. WorkersSound'
    BY <1>6, Kinds DEF RefreshInv, WorkersSound
<1>8. \A v \in Workers, k \in Keys : Holds(v, k)' => Holds(v, k)
    <2> SUFFICES ASSUME NEW v \in Workers, NEW k \in Keys, Holds(v, k)'
                 PROVE  Holds(v, k)
        OBVIOUS
    <2>1. CASE v = w
        BY <1>3, <1>6, <2>1 DEF Holds, Retiring
    <2>2. CASE v # w
        BY <1>6, <2>2, Kinds DEF Holds, Retiring
    <2> QED BY <2>1, <2>2
<1>9. HeldOnce'
    BY <1>8 DEF RefreshInv, HeldOnce
<1> QED BY <1>4, <1>5, <1>7, <1>9 DEF RefreshInv

\* The reports of a worker are steps of the pool.
LEMMA WorkerInv ==
    ASSUME RefreshInv, NEW w \in Workers, WorkerStep(w)
    PROVE  RefreshInv' /\ [Next]_vars
<1>1. /\ worker \in [Workers -> WorkerRecord] /\ queue \subseteq Keys /\ active \subseteq Keys
      /\ stopChecks \in BOOLEAN /\ streak \in [Keys -> Nat] /\ NoKey \notin Keys
      /\ failed \in [Keys -> Nat] /\ spare \in [Keys -> Nat]
      /\ phase = "rechecking" => spare = NoSpare
      /\ w \in Threads
    BY WorkerTypes, Kinds DEF WorkerRecord, RefreshInv, RefreshTypeOK, WorkersSound
<1>2. \A a \in {"ready", "take", "done"} :
         /\ [at |-> a, key |-> NoKey] \in WorkerRecord
         /\ [at |-> a, key |-> NoKey].at # "probing"
         /\ [at |-> a, key |-> NoKey].key \notin Keys
    BY <1>1 DEF WorkerRecord
<1>3. CASE CheckStop(w)
    <2>1. PICK a \in {"take", "done"} : worker' = [worker EXCEPT ![w] = [at |-> a, key |-> NoKey]]
        BY <1>3 DEF CheckStop, SetWorker
    <2> QED
        BY <1>1, <1>2, <1>3, <2>1, WorkerMoves DEF CheckStop
<1>4. CASE TakeNode(w)
    <2>1. worker[w].at = "take" /\ pc[w] = "idle"
          /\ UNCHANGED <<vars, phase, stopChecks, active, bounds, history>>
        BY <1>4, BusyWorker DEF TakeNode
    <2>2. CASE UNCHANGED <<queue, spare>> /\ SetWorker(w, "done", NoKey)
        BY <1>1, <1>2, <2>1, <2>2, WorkerMoves DEF SetWorker
    <2>3. ASSUME NEW k \in queue, SetWorker(w, "probing", k),
                 IF spare[k] > 0
                 THEN spare' = [spare EXCEPT ![k] = @ - 1] /\ UNCHANGED queue
                 ELSE queue' = queue \ {k} /\ UNCHANGED spare
          PROVE  RefreshInv' /\ [Next]_vars
        <3>1. [at |-> "probing", key |-> k] \in WorkerRecord
            BY <1>1 DEF WorkerRecord
        <3>2. k \in Keys /\ spare[k] \in Nat
            BY <1>1
        <3>3. queue' \subseteq queue /\ spare' \in [Keys -> Nat]
            BY <1>1, <2>3, <3>2
        <3>4. phase = "rechecking" => k \in queue \ queue' /\ spare' = NoSpare
            BY <1>1, <2>3, <3>2, SpareType
        <3> QED BY <1>1, <2>1, <2>3, <3>1, <3>2, <3>3, <3>4, WorkerMoves DEF SetWorker
    <2> QED BY <1>4, <2>2, <2>3 DEF TakeNode
<1>5. CASE ProbeExhausted(w)
    <2>1. worker[w].at = "probing" /\ pc[w] = "idle"
          /\ UNCHANGED <<vars, phase, queue, spare, active, bounds, history>>
          /\ stopChecks' = TRUE /\ SetWorker(w, "done", NoKey)
        BY <1>5, BusyWorker DEF ProbeExhausted
    <2> QED BY <1>1, <1>2, <2>1, WorkerMoves DEF SetWorker
<1>6. CASE CandidateProbed(w)
    <2>1. worker[w].at = "probing" /\ pc[w] = "idle" /\ worker[w].key \in Keys
          /\ UNCHANGED <<vars, phase, queue, spare, stopChecks, bounds, history>>
          /\ SetWorker(w, "ready", NoKey)
        BY <1>6, BusyWorker DEF CandidateProbed
    <2>2. active' \subseteq Keys
        BY <1>1, <1>6, <2>1 DEF CandidateProbed
    <2> QED BY <1>1, <1>2, <2>1, <2>2, WorkerMoves DEF SetWorker
<1>7. ASSUME DisabledHealthy(w) \/ DisabledUnhealthy(w)
      PROVE  RefreshInv' /\ [Next]_vars
    <2> DEFINE k == worker[w].key
    <2>1. /\ phase = "rechecking" /\ worker[w].at = "probing" /\ pc[w] = "idle"
          /\ k \in Keys /\ k \in NodesSeen
          /\ worker' = [worker EXCEPT ![w] = [at |-> "ready", key |-> NoKey]]
          /\ UNCHANGED <<phase, queue, spare, stopChecks, active, rounds, reports, cooled>>
        BY <1>7, BusyWorker
           DEF DisabledHealthy, DisabledUnhealthy, SetWorker, NodesSeen, bounds
    <2>2. streak' \in [Keys -> Nat] /\ failed' \in [Keys -> Nat]
        <3>1. /\ streak' = [streak EXCEPT ![k] = 0] \/ streak' = [streak EXCEPT ![k] = @ + 1]
              /\ failed' = failed \/ failed' = [failed EXCEPT ![k] = @ + 1]
            BY <1>7 DEF DisabledHealthy, DisabledUnhealthy
        <3>2. k \in Keys
            BY <2>1
        <3> HIDE DEF k
        <3> QED BY <1>1, <3>1, <3>2
    <2>3. CASE UNCHANGED vars
        <3>1. PoolInv' /\ UNCHANGED <<pc, op, proxies>>
            BY <2>3, PoolStays DEF RefreshInv
        <3>2. pc[w] \in WorkerPlaces /\ ~op[w].save
            BY DEF RefreshInv, PlacesSound
        <3> QED BY <1>2, <2>1, <2>2, <2>3, <3>1, <3>2, WorkerReports
    <2>4. CASE RecheckSuccess(w, k, FALSE) \/ RecheckFailure(w, k, FALSE)
        <3>1. Next
            BY <2>1, <2>4 DEF Next, WorkerCall
        <3>2. PoolInv' /\ TypeOK /\ proxies' = proxies
            BY <2>4, <3>1, StepInv
               DEF RefreshInv, PoolInv, RecheckSuccess, RecheckFailure, poolVars
        <3>3. failures[k].recheckFailures + 1 \in Nat
            BY <2>1, <3>2 DEF TypeOK, FailureRecord
        <3>4. PICK label \in {"rmDisabled", "putDisabled", "dropRecord"},
                   n \in Nat, reset \in BOOLEAN :
                Goto(w, label, NewOperation(k, n, FALSE, reset))
            BY <2>4, <3>3 DEF RecheckSuccess, RecheckFailure
        <3>5. /\ pc'[w] = label
              /\ op'[w] = NewOperation(k, n, FALSE, reset)
              /\ \A u \in Threads \ {w} : pc'[u] = pc[u] /\ op'[u] = op[u]
            BY <1>1, <3>2, <3>4, GotoMoves
        <3>6. ~op'[w].save /\ op'[w].key = k /\ pc'[w] \in WorkerPlaces
            BY <3>5 DEF NewOperation, WorkerPlaces
        <3> QED
            BY <1>2, <2>1, <2>2, <3>1, <3>2, <3>5, <3>6, WorkerReports
    <2> QED BY <1>7, <2>3, <2>4 DEF DisabledHealthy, DisabledUnhealthy
<1> QED BY <1>3, <1>4, <1>5, <1>6, <1>7 DEF WorkerStep

-----------------------------------------------------------------------------
(* The steps of the pool under way.                                        *)

\* What a thread of each kind does next.
LEMMA StepMoves ==
    ASSUME RefreshInv, NEW t \in Threads, Step(t)
    PROVE  /\ \A u \in Threads \ {t} : pc'[u] = pc[u] /\ op'[u] = op[u]
           /\ pc[t] # "idle"
           /\ t \in Clients => ClientSound(pc'[t], op'[t])
           /\ t \in Workers =>
                /\ pc'[t] \in WorkerPlaces /\ ~op'[t].save
                /\ pc'[t] \in {"dropRecord", "retire"} =>
                     pc[t] = "dropRecord" /\ op'[t].key = op[t].key
           /\ t = Refresher => pc'[t] \in RefresherPlaces /\ ~op'[t].reset
           /\ \/ proxies' = proxies
              \/ /\ pc[t] = "retire" /\ pc'[t] = "reset"
                 /\ Range(proxies) \ {op[t].key} \subseteq Range(proxies')
<1>1. TypeOK /\ op[t] \in Operation /\ pc[t] \in PCs /\ generation \in Nat
    BY DEF RefreshInv, PoolInv, TypeOK
<1>2. /\ t \in Clients => ClientSound(pc[t], op[t])
      /\ t \in Workers => pc[t] \in WorkerPlaces /\ ~op[t].save
      /\ t = Refresher => pc[t] \in RefresherPlaces /\ ~op[t].reset
      /\ t \in Clients \/ t \in Workers \/ t = Refresher
    BY Kinds DEF RefreshInv, PlacesSound
<1>3. /\ ClientSound("idle", NoOperation)
      /\ ~NoOperation.save /\ ~NoOperation.reset
    BY DEF ClientSound, ClientPlaces, NoOperation
<1>4. \A o \in Operation :
         /\ o.save \in BOOLEAN /\ o.reset \in BOOLEAN
         /\ ~o.reset => Continue(o) \in {"save", "idle"}
         /\ ~o.save => Continue(o) \in {"readGeneration", "idle"}
         /\ Continue(o) \in {"save", "readGeneration", "idle"}
    BY DEF Operation, Continue
<1>5. CASE ScanStep(t) \/ EndScan(t)
    BY <1>2, <1>5 DEF ScanStep, EndScan, ClientSound, ClientPlaces, WorkerPlaces, RefresherPlaces
<1>6. CASE PutDisabled(t) \/ RemoveDisabled(t)
    <2>1. Goto(t, Continue(op[t]), op[t]) /\ proxies' = proxies
          /\ pc[t] \in {"putDisabled", "rmDisabled"}
        BY <1>6 DEF PutDisabled, RemoveDisabled, WriteDisabled
    <2>2. /\ pc'[t] = Continue(op[t])
          /\ op'[t] = IF pc'[t] = "idle" THEN NoOperation ELSE op[t]
          /\ \A u \in Threads \ {t} : pc'[u] = pc[u] /\ op'[u] = op[u]
        BY <1>1, <2>1, GotoMoves
    <2> QED
        BY <1>1, <1>2, <1>3, <1>4, <2>1, <2>2
           DEF ClientSound, ClientPlaces, WorkerPlaces, RefresherPlaces
<1>7. CASE DropRecord(t)
    <2>1. Goto(t, "retire", op[t]) /\ proxies' = proxies /\ pc[t] = "dropRecord"
        BY <1>7 DEF DropRecord, poolVars
    <2>2. /\ pc'[t] = "retire" /\ op'[t] = op[t]
          /\ \A u \in Threads \ {t} : pc'[u] = pc[u] /\ op'[u] = op[u]
        BY <1>1, <2>1, GotoMoves
    <2> QED
        BY <1>2, <2>1, <2>2 DEF ClientSound, ClientPlaces, WorkerPlaces, RefresherPlaces
<1>8. CASE Retire(t)
    <2> DEFINE o == [op[t] EXCEPT !.gen = NextGeneration]
    <2>1. pc[t] = "retire" /\ t \in Workers /\ t \notin Clients /\ t # Refresher /\ ~op[t].save
        BY <1>2, <1>8, Kinds DEF Retire, ClientSound, ClientPlaces, RefresherPlaces
    <2>2. o.save = op[t].save
        BY <1>1 DEF Operation
    <2>3. CASE op[t].key \in Range(proxies)
        <3>1. proxies' = Without(proxies, op[t].key) /\ Goto(t, "reset", o)
            BY <1>8, <2>3 DEF Retire
        <3>2. /\ pc'[t] = "reset" /\ op'[t] = o
              /\ \A u \in Threads \ {t} : pc'[u] = pc[u] /\ op'[u] = op[u]
            BY <1>1, <3>1, GotoMoves
        <3>3. Range(proxies) \ {op[t].key} \subseteq Range(proxies')
            BY <2>3, <3>1, WithoutKeeps DEF RefreshInv, PoolInv, TypeOK, NoDuplicateNodes
        <3> QED BY <2>1, <2>2, <3>2, <3>3 DEF WorkerPlaces
    <2>4. CASE op[t].key \notin Range(proxies)
        <3>1. proxies' = proxies /\ Goto(t, "idle", NoOperation)
            BY <1>8, <2>4 DEF Retire
        <3>2. /\ pc'[t] = "idle" /\ op'[t] = NoOperation
              /\ \A u \in Threads \ {t} : pc'[u] = pc[u] /\ op'[u] = op[u]
            BY <1>1, <3>1, GotoMoves
        <3> QED BY <1>3, <2>1, <3>1, <3>2 DEF WorkerPlaces
    <2> QED BY <2>3, <2>4
<1>9. CASE ReadGeneration(t)
    <2> DEFINE o == [op[t] EXCEPT !.gen = generation, !.reset = FALSE]
    <2>1. pc[t] = "readGeneration" /\ t \in Workers /\ t \notin Clients /\ t # Refresher
          /\ ~op[t].save
        BY <1>2, <1>9, Kinds DEF ReadGeneration, ClientSound, ClientPlaces, RefresherPlaces
    <2>2. o.save = op[t].save
        BY <1>1 DEF Operation
    <2>3. Goto(t, "reset", o) /\ proxies' = proxies
        BY <1>9 DEF ReadGeneration, poolVars
    <2>4. /\ pc'[t] = "reset" /\ op'[t] = o
          /\ \A u \in Threads \ {t} : pc'[u] = pc[u] /\ op'[u] = op[u]
        BY <1>1, <2>3, GotoMoves
    <2> QED BY <2>1, <2>2, <2>3, <2>4 DEF WorkerPlaces
<1>10. CASE ResetSelection(t)
    <2>1. Goto(t, Continue(op[t]), op[t]) /\ proxies' = proxies /\ pc[t] = "reset"
        BY <1>10 DEF ResetSelection, poolVars
    <2>2. /\ pc'[t] = Continue(op[t])
          /\ op'[t] = IF pc'[t] = "idle" THEN NoOperation ELSE op[t]
          /\ \A u \in Threads \ {t} : pc'[u] = pc[u] /\ op'[u] = op[u]
        BY <1>1, <2>1, GotoMoves
    <2> QED
        BY <1>1, <1>2, <1>3, <1>4, <2>1, <2>2
           DEF ClientSound, ClientPlaces, WorkerPlaces, RefresherPlaces
<1>11. CASE SaveBegin(t)
    <2> DEFINE o == [op[t] EXCEPT !.save = FALSE]
    <2>1. Goto(t, "saving", o) /\ proxies' = proxies /\ pc[t] = "save"
        BY <1>11 DEF SaveBegin, poolVars
    <2>2. /\ pc'[t] = "saving" /\ op'[t] = o
          /\ \A u \in Threads \ {t} : pc'[u] = pc[u] /\ op'[u] = op[u]
        BY <1>1, <2>1, GotoMoves
    <2>3. o.reset = op[t].reset
        BY <1>1 DEF Operation
    <2> QED
        BY <1>2, <2>1, <2>2, <2>3 DEF ClientSound, ClientPlaces, WorkerPlaces, RefresherPlaces
<1>12. CASE SaveEnd(t)
    <2>1. Goto(t, Continue(op[t]), op[t]) /\ proxies' = proxies /\ pc[t] = "saving"
        BY <1>12 DEF SaveEnd, poolVars
    <2>2. /\ pc'[t] = Continue(op[t])
          /\ op'[t] = IF pc'[t] = "idle" THEN NoOperation ELSE op[t]
          /\ \A u \in Threads \ {t} : pc'[u] = pc[u] /\ op'[u] = op[u]
        BY <1>1, <2>1, GotoMoves
    <2> QED
        BY <1>1, <1>2, <1>3, <1>4, <2>1, <2>2
           DEF ClientSound, ClientPlaces, WorkerPlaces, RefresherPlaces
<1> QED BY <1>5, <1>6, <1>7, <1>8, <1>9, <1>10, <1>11, <1>12 DEF Step

\* A step of one thread in the pool: no worker holds more than before, and a
\* node leaves the pool with the worker that held it.
LEMMA PoolMoves ==
    ASSUME RefreshInv, PoolInv', NEW t \in Threads,
           UNCHANGED <<phase, queue, spare, stopChecks, worker, active, rounds, streak, failed>>,
           reports' \in Nat, cooled' \in [Keys -> Nat],
           \A u \in Threads \ {t} : pc'[u] = pc[u] /\ op'[u] = op[u],
           t \in Clients => ClientSound(pc'[t], op'[t]),
           t \in Workers =>
                /\ pc[t] # "idle"
                /\ pc'[t] \in WorkerPlaces /\ ~op'[t].save
                /\ pc'[t] \in {"dropRecord", "retire"} =>
                     pc[t] = "dropRecord" /\ op'[t].key = op[t].key,
           t = Refresher =>
                /\ pc[t] # "idle"
                /\ pc'[t] \in RefresherPlaces /\ ~op'[t].reset,
           \/ proxies' = proxies
           \/ /\ pc[t] = "retire" /\ pc'[t] = "reset"
              /\ Range(proxies) \ {op[t].key} \subseteq Range(proxies')
    PROVE  RefreshInv'
<1>1. RefreshTypeOK'
    BY DEF RefreshInv, RefreshTypeOK, PoolInv
<1>2. PlacesSound'
    BY Kinds DEF RefreshInv, PlacesSound
<1>3. t \in Workers => phase = "rechecking" /\ worker[t].at = "ready"
    BY Kinds, NobodyHolds DEF RefreshInv, WorkersSound
<1>4. \A w \in Workers : pc'[w] # "idle" => pc[w] # "idle"
    BY Kinds
<1>5. WorkersSound'
    <2>1. phase \notin {"check", "rechecking"} => AllJoined'
        BY <1>3, Kinds DEF RefreshInv, WorkersSound, AllJoined
    <2>2. phase = "check" => \A w \in Workers : pc'[w] = "idle"
        BY <1>3, Kinds DEF RefreshInv, WorkersSound
    <2> QED BY <1>3, <1>4, <2>1, <2>2 DEF RefreshInv, WorkersSound
<1>6. \A w \in Workers, k \in Keys : Holds(w, k)' => Holds(w, k)
    BY Kinds DEF Holds, Retiring
<1>7. CASE proxies' = proxies
    BY <1>1, <1>2, <1>5, <1>6, <1>7 DEF RefreshInv, HeldOnce
<1>8. CASE /\ pc[t] = "retire" /\ pc'[t] = "reset"
           /\ Range(proxies) \ {op[t].key} \subseteq Range(proxies')
    <2>1. t \in Workers /\ phase = "rechecking" /\ op[t].key \in Keys
        BY <1>3, <1>8, Kinds
           DEF RefreshInv, PlacesSound, ClientSound, ClientPlaces, RefresherPlaces,
               PoolInv, ThreadsSound, ThreadSound
    <2> PICK k \in Keys : k = op[t].key
        BY <2>1
    <2>2. Holds(t, k) /\ \A j \in Keys : ~Holds(t, j)'
        BY <1>3, <1>8, <2>1 DEF Holds, Retiring
    <2>3. k \notin queue /\ \A w \in Workers : ~Holds(w, k)'
        BY <1>6, <2>1, <2>2 DEF RefreshInv, HeldOnce
    <2>4. HeldOnce'
        BY <1>6, <1>8, <2>1, <2>3 DEF RefreshInv, HeldOnce
    <2> QED BY <1>1, <1>2, <1>5, <2>4 DEF RefreshInv
<1> QED BY <1>7, <1>8

-----------------------------------------------------------------------------
(* The steps that start something in the pool.                             *)

\* The refresh task calls the pool while no worker runs.
LEMMA TaskCalls ==
    ASSUME RefreshInv, PoolInv', phase \notin {"check", "rechecking"} \/ AllJoined,
           phase' \in {"merging", "flushing"}, queue' = {}, spare' = NoSpare, active' \subseteq Keys,
           \A u \in Threads \ {Refresher} : pc'[u] = pc[u] /\ op'[u] = op[u],
           pc'[Refresher] \in RefresherPlaces, ~op'[Refresher].reset,
           cooled' \in [Keys -> Nat],
           UNCHANGED <<stopChecks, worker, bounds, streak, failed>>
    PROVE  RefreshInv'
<1>1. RefreshTypeOK'
    BY SpareType DEF RefreshInv, RefreshTypeOK, PoolInv, bounds, Phases
<1>2. PlacesSound'
    BY Kinds DEF RefreshInv, PlacesSound
<1>3. AllJoined'
    BY Kinds DEF RefreshInv, WorkersSound, AllJoined
<1>4. WorkersSound'
    BY <1>3 DEF RefreshInv, WorkersSound, AllJoined
<1>5. \A w \in Workers, k \in Keys : ~Holds(w, k)'
    BY <1>3 DEF AllJoined, Holds, Retiring, Done
<1>6. HeldOnce'
    BY <1>5 DEF HeldOnce
<1> QED BY <1>1, <1>2, <1>4, <1>6 DEF RefreshInv

\* update_proxies.
LEMMA MergeActiveInv ==
    ASSUME RefreshInv, MergeActive
    PROVE  RefreshInv' /\ Next
<1> DEFINE o == NewOperation(NoKey, 0, TRUE, FALSE)
           g == [o EXCEPT !.gen = NextGeneration]
<1>1. active \in SUBSET Keys /\ queue = {} /\ spare = NoSpare /\ TypeOK
    BY DEF RefreshInv, PoolInv, RefreshTypeOK, WorkersSound, MergeActive
<1>2. Next /\ PoolInv'
    <2>1. Next
        BY <1>1 DEF MergeActive, Next, RefresherCall
    <2> QED BY <2>1, StepInv DEF RefreshInv
<1>3. ~o.reset /\ ~g.reset /\ ~NoOperation.reset
    BY DEF NewOperation, NoOperation
<1>4. \/ Goto(Refresher, "reset", g)
      \/ Goto(Refresher, IF StateEnabled THEN "save" ELSE "idle", o)
    BY DEF MergeActive, Merge
<1> HIDE DEF o, g
<1>5. /\ pc'[Refresher] \in {"reset", "save", "idle"}
      /\ op'[Refresher] \in {o, g, NoOperation}
      /\ \A u \in Threads \ {Refresher} : pc'[u] = pc[u] /\ op'[u] = op[u]
    BY <1>1, <1>4, GotoMoves, Kinds
<1>6. /\ phase' = "merging" /\ phase = "merge" /\ queue' = {} /\ spare' = NoSpare
      /\ active' = {}
      /\ cooled' \in [Keys -> Nat] /\ UNCHANGED <<stopChecks, worker, bounds, streak, failed>>
    BY <1>1 DEF MergeActive
<1> QED BY <1>2, <1>3, <1>5, <1>6, TaskCalls DEF RefresherPlaces

\* flush_pool_state.
LEMMA EndRecheckInv ==
    ASSUME RefreshInv, EndRecheck
    PROVE  RefreshInv' /\ [Next]_vars
<1> DEFINE o == NewOperation(NoKey, 0, TRUE, FALSE)
<1>1. /\ active \in SUBSET Keys /\ TypeOK /\ cooled \in [Keys -> Nat]
      /\ pc[Refresher] \in RefresherPlaces /\ ~op[Refresher].reset
    BY DEF RefreshInv, PoolInv, RefreshTypeOK, PlacesSound
<1>2. /\ phase' = "flushing" /\ queue' = {} /\ spare' = NoSpare /\ AllJoined
      /\ UNCHANGED <<stopChecks, worker, active, bounds, streak, failed, cooled>>
    BY DEF EndRecheck, history, RefreshInv, WorkersSound
<1>3. CASE StateEnabled
    <2>1. Flush(Refresher) /\ Next
        BY <1>3 DEF EndRecheck, Next, RefresherCall
    <2>2. PoolInv'
        BY <2>1, StepInv DEF RefreshInv
    <2>3. ~o.reset
        BY DEF NewOperation
    <2>4. Goto(Refresher, "save", o)
        BY <2>1 DEF Flush
    <2> HIDE DEF o
    <2>5. /\ pc'[Refresher] = "save" /\ op'[Refresher] = o
          /\ \A u \in Threads \ {Refresher} : pc'[u] = pc[u] /\ op'[u] = op[u]
        BY <1>1, <2>4, GotoMoves, Kinds
    <2> QED BY <1>1, <1>2, <2>1, <2>2, <2>3, <2>5, TaskCalls DEF RefresherPlaces
<1>4. CASE ~StateEnabled
    <2>1. UNCHANGED vars
        BY <1>4 DEF EndRecheck
    <2>2. PoolInv' /\ UNCHANGED <<pc, op>>
        BY <2>1, PoolStays DEF RefreshInv
    <2> QED BY <1>1, <1>2, <2>1, <2>2, TaskCalls
<1> QED BY <1>3, <1>4

\* A client task reports on a node.
LEMMA ClientInv ==
    ASSUME RefreshInv, NEW t \in Reporters, ClientReport(t)
    PROVE  RefreshInv' /\ Next
<1>1. /\ TypeOK /\ t \in Threads /\ t \in Clients /\ t \notin Workers /\ t # Refresher
      /\ reports \in Nat /\ cooled \in [Keys -> Nat] /\ NodesSeen \subseteq Keys
    BY Kinds
       DEF Clients, RefreshInv, PoolInv, RefreshTypeOK, TypeOK, NodesSeen, Range
<1>2. Next
    BY DEF ClientReport, Next
<1>3. PoolInv'
    BY <1>2, StepInv DEF RefreshInv
<1>4. PICK k \in NodesSeen : ReportSuccess(t, k) \/ ReportFailure(t, k)
    BY DEF ClientReport, ReporterCall
<1> DEFINE o == NewOperation(k, 0, TRUE, FALSE)
<1>5. ~o.reset /\ o.save /\ ClientSound("idle", NoOperation)
    BY DEF NewOperation, NoOperation, ClientSound, ClientPlaces
<1>6. PICK label \in {"rmDisabled", "putDisabled", "idle"} : Goto(t, label, o)
    BY <1>4 DEF ReportSuccess, ReportFailure
<1> HIDE DEF o
<1>7. /\ pc'[t] = label /\ op'[t] = IF label = "idle" THEN NoOperation ELSE o
      /\ \A u \in Threads \ {t} : pc'[u] = pc[u] /\ op'[u] = op[u]
    BY <1>1, <1>6, GotoMoves
<1>8. ClientSound(pc'[t], op'[t])
    BY <1>5, <1>7 DEF ClientSound, ClientPlaces
<1>9. cooled' \in [Keys -> Nat]
    <2>1. cooled' = [j \in Keys |->
                       IF failures'[j].cooldowns > failures[j].cooldowns THEN cooled[j] + 1
                       ELSE cooled[j]]
        BY DEF ClientReport
    <2>2. \A j \in Keys : cooled[j] \in Nat /\ cooled[j] + 1 \in Nat
        BY <1>1
    <2> QED BY <2>1, <2>2, Zenon
<1>10. /\ reports' \in Nat
       /\ UNCHANGED <<phase, queue, spare, stopChecks, worker, active, rounds, streak, failed>>
    <2>1. reports' = reports + 1
        BY DEF ClientReport
    <2>2. UNCHANGED <<phase, queue, spare, stopChecks, worker, active, rounds, streak, failed>>
        BY DEF ClientReport
    <2> QED BY <1>1, <2>1, <2>2
<1>11. proxies' = proxies
    BY <1>4 DEF ReportSuccess, ReportFailure, poolVars
<1> QED BY <1>1, <1>2, <1>3, <1>7, <1>8, <1>9, <1>10, <1>11, PoolMoves

\* The pool's own steps.
LEMMA PoolStepInv ==
    ASSUME RefreshInv, PoolStep \/ CooldownEnds
    PROVE  RefreshInv' /\ Next
<1>1. /\ UNCHANGED <<phase, queue, spare, stopChecks, worker, active, rounds, streak, failed>>
      /\ UNCHANGED <<reports, cooled>>
      /\ reports \in Nat /\ cooled \in [Keys -> Nat]
    BY DEF PoolStep, CooldownEnds, refreshVars, bounds, history, RefreshInv, RefreshTypeOK
<1>2. Next
    BY DEF PoolStep, CooldownEnds, Next
<1>3. PoolInv'
    BY <1>2, StepInv DEF RefreshInv
<1>4. CASE PoolStep
    <2>1. PICK t \in Threads : Step(t)
        BY <1>4 DEF PoolStep
    <2>2. /\ \A u \in Threads \ {t} : pc'[u] = pc[u] /\ op'[u] = op[u]
          /\ pc[t] # "idle"
          /\ t \in Clients => ClientSound(pc'[t], op'[t])
          /\ t \in Workers =>
               /\ pc'[t] \in WorkerPlaces /\ ~op'[t].save
               /\ pc'[t] \in {"dropRecord", "retire"} =>
                    pc[t] = "dropRecord" /\ op'[t].key = op[t].key
          /\ t = Refresher => pc'[t] \in RefresherPlaces /\ ~op'[t].reset
          /\ \/ proxies' = proxies
             \/ /\ pc[t] = "retire" /\ pc'[t] = "reset"
                /\ Range(proxies) \ {op[t].key} \subseteq Range(proxies')
        BY <2>1, StepMoves
    <2> QED BY <1>1, <1>2, <1>3, <2>2, PoolMoves
<1>5. CASE CooldownEnds
    <2>1. UNCHANGED <<pc, op, proxies>>
        BY <1>5 DEF CooldownEnds, CooldownElapses, poolVars, threadVars
    <2>2. \A u \in Threads : pc'[u] = pc[u] /\ op'[u] = op[u]
        BY <2>1
    <2>3. RefreshTypeOK'
        BY <1>1, <1>3 DEF RefreshInv, RefreshTypeOK, PoolInv
    <2>4. PlacesSound' /\ WorkersSound' /\ HeldOnce'
        BY <1>1, <2>1
           DEF RefreshInv, PlacesSound, WorkersSound, AllJoined, HeldOnce, Holds, Retiring
    <2> QED BY <1>2, <1>3, <2>3, <2>4 DEF RefreshInv
<1> QED BY <1>4, <1>5

\* A start, the first one or after a crash: nothing is under way.
StartState ==
    /\ PoolInv
    /\ rounds \in Nat /\ reports \in Nat
    /\ streak \in [Keys -> Nat] /\ failed \in [Keys -> Nat] /\ cooled \in [Keys -> Nat]
    /\ phase = "start" /\ queue = {} /\ spare = NoSpare
    /\ active = {} /\ stopChecks = FALSE
    /\ worker = [w \in Workers |-> Done]
    /\ pc = [t \in Threads |-> "idle"]
    /\ op = [t \in Threads |-> NoOperation]

\* ... and so the invariant holds.
LEMMA StartInv == StartState => RefreshInv
<1> SUFFICES ASSUME StartState PROVE RefreshInv
    OBVIOUS
<1>1. /\ \A t \in Threads : pc[t] = "idle" /\ op[t] = NoOperation
      /\ \A w \in Workers : worker[w] = Done
      /\ ~NoOperation.save /\ ~NoOperation.reset
    BY DEF StartState, NoOperation
<1>2. RefreshTypeOK
    <2>1. worker \in [Workers -> WorkerRecord]
        BY RestingWorkers DEF StartState, WorkerRecord
    <2> QED BY <2>1, SpareType DEF RefreshTypeOK, PoolInv, StartState, Phases, WorkerRecord
<1>3. PlacesSound
    BY <1>1, Kinds
       DEF PlacesSound, ClientSound, ClientPlaces, WorkerPlaces, RefresherPlaces
<1>4. WorkersSound
    BY <1>1, Kinds, RestingWorkers DEF WorkersSound, AllJoined, StartState
<1>5. \A w \in Workers, k \in Keys : ~Holds(w, k)
    BY <1>1, Kinds, RestingWorkers DEF Holds, Retiring
<1>6. HeldOnce
    BY <1>5 DEF HeldOnce, StartState
<1> QED BY <1>2, <1>3, <1>4, <1>6 DEF RefreshInv, StartState

\* The process dies and main starts over.
LEMMA CrashInv ==
    ASSUME RefreshInv, Crash
    PROVE  RefreshInv' /\ Next
<1>1. Next
    BY DEF Crash, Next
<1>2. PoolInv'
    BY <1>1, StepInv DEF RefreshInv
<1>3. /\ rounds' \in Nat /\ reports' \in Nat
      /\ streak' \in [Keys -> Nat] /\ failed' \in [Keys -> Nat] /\ cooled' \in [Keys -> Nat]
    BY DEF Crash, bounds, history, RefreshInv, RefreshTypeOK
<1>4. StartState'
    BY <1>2, <1>3 DEF Crash, Restart, Construct, StartState
<1>5. StartState' => RefreshInv'
    BY StartInv, PTL
<1> QED BY <1>1, <1>4, <1>5

-----------------------------------------------------------------------------
(* The theorems.                                                           *)

\* Every step of the refresh is a step of the pool, or none, and keeps the
\* invariant.
LEMMA RefreshStepInv ==
    ASSUME RefreshInv, [RefreshNext]_allVars
    PROVE  RefreshInv' /\ [Next]_vars
<1>1. CASE \/ \E source \in SUBSET Keys : Load(source)
           \/ LoadFails \/ NoTarget \/ EndCheck \/ EndMerge
           \/ ListNodes \/ (\E k \in Keys : ListNode(k)) \/ StartRecheck
           \/ EndRefresh \/ NextRefresh \/ LastSleep
    <2>1. RefreshInv'
        BY <1>1, TaskInv
    <2>2. UNCHANGED vars
        BY <1>1 DEF Load, LoadFails, NoTarget, EndCheck, EndMerge, ListNodes, ListNode,
                    StartRecheck, EndRefresh, NextRefresh, LastSleep, allVars
    <2> QED BY <2>1, <2>2
<1>2. CASE MergeActive
    BY <1>2, MergeActiveInv
<1>3. CASE EndRecheck
    BY <1>3, EndRecheckInv
<1>4. CASE \E w \in Workers : WorkerStep(w)
    BY <1>4, WorkerInv
<1>5. CASE \E t \in Reporters : ClientReport(t)
    BY <1>5, ClientInv
<1>6. CASE PoolStep \/ CooldownEnds
    BY <1>6, PoolStepInv
<1>7. CASE Crash
    BY <1>7, CrashInv
<1>8. CASE UNCHANGED allVars
    <2>1. UNCHANGED vars /\ UNCHANGED refreshVars
        BY <1>8 DEF allVars
    <2>2. PoolInv' /\ TypeOK' /\ UNCHANGED <<pc, op, proxies>>
        BY <2>1, PoolStays DEF RefreshInv
    <2>3. UNCHANGED <<phase, queue, spare, stopChecks, worker, active, rounds, reports, streak, failed,
                    cooled>>
        BY <2>1 DEF refreshVars, bounds, history
    <2>4. RefreshTypeOK'
        BY <2>2, <2>3 DEF RefreshInv, RefreshTypeOK
    <2>5. PlacesSound' /\ WorkersSound' /\ HeldOnce'
        BY <2>2, <2>3
           DEF RefreshInv, PlacesSound, WorkersSound, AllJoined, HeldOnce, Holds, Retiring
    <2> QED BY <2>1, <2>2, <2>4, <2>5 DEF RefreshInv
<1> QED
    BY <1>1, <1>2, <1>3, <1>4, <1>5, <1>6, <1>7, <1>8 DEF RefreshNext, RefreshStep

\* The first start.
LEMMA RefreshInitInv == RefreshInit => RefreshInv
<1> SUFFICES ASSUME RefreshInit PROVE RefreshInv
    OBVIOUS
<1>1. PoolInv
    BY InitInv DEF RefreshInit
<1>2. StartState
    BY <1>1 DEF RefreshInit, Init, StartState
<1> QED BY <1>2, StartInv

\* The inductive invariant: a node is with one worker at a time and stays in
\* the pool while it is, and each thread is where its kind can be.
THEOREM RefreshInvariant == RefreshSpec => []RefreshInv
<1>1. RefreshInv /\ [RefreshNext]_allVars => RefreshInv'
    BY RefreshStepInv
<1> QED BY <1>1, RefreshInitInv, PTL DEF RefreshSpec

\* The refresh uses the pool only as the pool allows: what holds of the pool
\* with its unrestricted callers holds of the pool under the refresh.
THEOREM RefreshUsesPool == RefreshSpec => Spec
<1>1. RefreshInit => Init
    BY DEF RefreshInit
<1>2. RefreshInv /\ [RefreshNext]_allVars => [Next]_vars
    BY RefreshStepInv
<1> QED BY <1>1, <1>2, RefreshInvariant, PTL DEF RefreshSpec, Spec

\* The nodes of a refreshing pool go through the life cycle: rechecks that run in
\* parallel with client reports disable, recover and retire nodes only as the
\* life cycle allows.
THEOREM RefreshFollowsLife == RefreshSpec => NodesFollowLifeCycle
    BY RefreshUsesPool, PoolImplementsLife, PTL

\* Types of the refresh: phases, queue, workers and counters are well formed.
THEOREM RefreshTypes == RefreshSpec => []RefreshTypeOK
<1>1. RefreshInv => RefreshTypeOK
    BY DEF RefreshInv
<1> QED BY <1>1, RefreshInvariant, PTL

\* No disabled node is rechecked by two workers at once, and outside the two
\* probing phases no worker probes or reports.
THEOREM ProbesExclusive == RefreshSpec => []OneProbePerNode
<1>1. RefreshInv => OneProbePerNode
    <2> SUFFICES ASSUME RefreshInv PROVE OneProbePerNode
        OBVIOUS
    <2>1. ASSUME phase = "rechecking", NEW v \in Workers, NEW w \in Workers, v # w,
                 worker[v].at = "probing"
          PROVE  worker[v].key # worker[w].key
        <3>1. PICK k \in Keys : k = worker[v].key
            BY <2>1 DEF RefreshInv, WorkersSound
        <3>2. CASE worker[w].at = "probing"
            BY <2>1, <3>1, <3>2 DEF RefreshInv, HeldOnce, Holds
        <3>3. CASE worker[w].at # "probing"
            BY <3>1, <3>3 DEF RefreshInv, WorkersSound
        <3> QED BY <3>2, <3>3
    <2>2. ASSUME phase \in {"start", "load", "merge", "recheck", "wait"}, NEW w \in Workers
          PROVE  worker[w].at # "probing" /\ pc[w] = "idle"
        BY <2>2, NobodyHolds
    <2> QED BY <2>1, <2>2 DEF OneProbePerNode
<1> QED BY <1>1, RefreshInvariant, PTL

\* A worker that takes a node out of the pool finds it there, so that
\* remove_and_retire never returns early.
THEOREM RetiresActiveNodes == RefreshSpec => []RetiringNodeIsActive
<1>1. RefreshInv => RetiringNodeIsActive
    <2> SUFFICES ASSUME RefreshInv, NEW w \in Workers, pc[w] \in {"dropRecord", "retire"}
                 PROVE  op[w].key \in Range(proxies)
        BY DEF RetiringNodeIsActive
    <2>1. op[w].key \in Keys
        BY Kinds DEF RefreshInv, PoolInv, ThreadsSound, ThreadSound
    <2>2. Holds(w, op[w].key)
        BY DEF Holds, Retiring
    <2>3. phase = "rechecking"
        BY NobodyHolds DEF RefreshInv, WorkersSound
    <2> QED BY <2>1, <2>2, <2>3 DEF RefreshInv, HeldOnce
<1> QED BY <1>1, RefreshInvariant, PTL

-----------------------------------------------------------------------------
(* The flush at the end of a refresh.                                      *)

\* Reports of rechecks wait for the flush, and nothing else does.
UnsavedInv ==
    unsaved => \/ phase = "rechecking"
               \/ phase = "flushing" /\ pc[Refresher] = "save"

\* What a step under way does to `unsaved`: a deferred change is a worker's.
LEMMA StepUnsaved ==
    ASSUME ~SavesFail, RefreshInv, UnsavedInv, NEW t \in Threads, Step(t), unsaved'
    PROVE  \/ phase = "rechecking"
           \/ unsaved /\ t # Refresher
           \/ unsaved /\ pc[Refresher] # "save"
<1>1. /\ t \in Clients => ClientSound(pc[t], op[t])
      /\ t = Refresher => pc[t] \in RefresherPlaces
      /\ t \in Clients \/ t \in Workers \/ t = Refresher
    BY Kinds DEF RefreshInv, PlacesSound
<1>2. t \in Workers /\ pc[t] # "idle" => phase = "rechecking"
    BY NobodyHolds DEF RefreshInv, WorkersSound
<1>3. CASE PutDisabled(t) \/ RemoveDisabled(t)
    <2>1. pc[t] \in {"putDisabled", "rmDisabled"} /\ unsaved' = (unsaved \/ ~op[t].save)
        BY <1>3 DEF PutDisabled, RemoveDisabled, WriteDisabled
    <2> QED BY <1>1, <1>2, <2>1 DEF ClientSound, RefresherPlaces
<1>4. CASE Retire(t)
    BY <1>1, <1>2, <1>4 DEF Retire, ClientSound, ClientPlaces, RefresherPlaces
<1>5. CASE SaveBegin(t)
    BY <1>5 DEF SaveBegin
<1>6. CASE SaveEnd(t)
    BY <1>6 DEF SaveEnd
<1>7. CASE \/ ScanStep(t) \/ EndScan(t) \/ DropRecord(t)
           \/ ReadGeneration(t) \/ ResetSelection(t)
    BY <1>7 DEF ScanStep, EndScan, DropRecord, ReadGeneration, ResetSelection
<1> QED BY <1>3, <1>4, <1>5, <1>6, <1>7 DEF Step

\* A deferred change waits for the flush of its own refresh.
LEMMA UnsavedStep ==
    ASSUME StateEnabled, ~SavesFail, RefreshInv, UnsavedInv, [RefreshNext]_allVars
    PROVE  UnsavedInv'
<1>1. CASE \/ \E source \in SUBSET Keys : Load(source)
           \/ LoadFails \/ NoTarget \/ EndCheck \/ EndMerge
           \/ ListNodes \/ (\E k \in Keys : ListNode(k)) \/ StartRecheck
           \/ EndRefresh \/ NextRefresh
    <2>1. unsaved' = unsaved
        BY <1>1 DEF Load, LoadFails, NoTarget, EndCheck, EndMerge, ListNodes, ListNode,
                    StartRecheck, EndRefresh, NextRefresh, vars
    <2>2. phase # "rechecking" /\ (phase = "flushing" => pc[Refresher] = "idle")
        BY <1>1 DEF Load, LoadFails, NoTarget, EndCheck, EndMerge, ListNodes, ListNode,
                    StartRecheck, EndRefresh, NextRefresh
    <2> QED BY <2>1, <2>2 DEF UnsavedInv
<1>2. CASE MergeActive
    BY <1>2 DEF MergeActive, Merge, UnsavedInv
<1>3. CASE EndRecheck
    <2>1. Flush(Refresher) /\ phase' = "flushing"
        BY <1>3 DEF EndRecheck
    <2>2. pc'[Refresher] = "save"
        BY <2>1, Kinds DEF Flush, Goto, RefreshInv, PoolInv, TypeOK
    <2> QED BY <2>1, <2>2 DEF UnsavedInv
<1>4. CASE \E w \in Workers : WorkerStep(w)
    <2>1. PICK w \in Workers : WorkerStep(w)
        BY <1>4
    <2>2. phase' = phase /\ phase \in {"check", "rechecking"}
        <3>1. worker[w].at # "done" /\ phase' = phase
            BY <2>1 DEF WorkerStep, CheckStop, TakeNode, ProbeExhausted, CandidateProbed,
                        DisabledHealthy, DisabledUnhealthy
        <3> QED BY <3>1, BusyWorker
    <2>3. unsaved' = unsaved
        BY <2>1 DEF WorkerStep, CheckStop, TakeNode, ProbeExhausted, CandidateProbed,
                    DisabledHealthy, DisabledUnhealthy, RecheckSuccess, RecheckFailure, vars
    <2> QED BY <2>2, <2>3 DEF UnsavedInv
<1>5. CASE \E t \in Reporters : ClientReport(t)
    <2>1. PICK t \in Reporters : ClientReport(t)
        BY <1>5
    <2>2. PICK k \in NodesSeen : ReportSuccess(t, k) \/ ReportFailure(t, k)
        BY <2>1 DEF ClientReport, ReporterCall
    <2>3. unsaved' = unsaved /\ phase' = phase
        BY <2>1, <2>2 DEF ClientReport, ReportSuccess, ReportFailure
    <2>4. pc'[Refresher] = pc[Refresher]
        <3>1. TypeOK /\ t \in Threads /\ Refresher \in Threads \ {t}
            BY Kinds DEF RefreshInv, PoolInv, Clients
        <3>2. \E label, o : Goto(t, label, o)
            BY <2>2 DEF ReportSuccess, ReportFailure
        <3> QED BY <3>1, <3>2, GotoMoves
    <2> QED BY <2>3, <2>4 DEF UnsavedInv
<1>6. CASE PoolStep
    <2>1. PICK t \in Threads : Step(t)
        BY <1>6 DEF PoolStep
    <2>2. phase' = phase
        BY <1>6 DEF PoolStep, refreshVars
    <2>3. t # Refresher => pc'[Refresher] = pc[Refresher]
        BY <2>1, StepMoves, Kinds
    <2> QED BY <2>1, <2>2, <2>3, StepUnsaved DEF UnsavedInv
<1>7. CASE CooldownEnds \/ LastSleep \/ UNCHANGED allVars
    <2>1. UNCHANGED <<unsaved, phase, pc>>
        BY <1>7 DEF CooldownEnds, CooldownElapses, LastSleep, allVars, refreshVars, vars,
                    threadVars
    <2> QED BY <2>1 DEF UnsavedInv
<1>8. CASE Crash
    BY <1>8 DEF Crash, Restart, UnsavedInv
<1> QED
    BY <1>1, <1>2, <1>3, <1>4, <1>5, <1>6, <1>7, <1>8 DEF RefreshNext, RefreshStep

\* With a state file that can be written, what the rechecks of a refresh found
\* is on disk when the refresh is over and no save is under way.
THEOREM RefreshDurable ==
    StateEnabled /\ ~SavesFail => (RefreshSpec => []RefreshIsDurable)
<1> SUFFICES ASSUME StateEnabled, ~SavesFail PROVE RefreshSpec => []RefreshIsDurable
    OBVIOUS
<1>1. RefreshInit => UnsavedInv
    BY DEF RefreshInit, Init, UnsavedInv
<1>2. RefreshInv /\ UnsavedInv /\ [RefreshNext]_allVars => UnsavedInv'
    BY UnsavedStep
<1>3. UnsavedInv /\ FileFollowsState /\ PersistInv => RefreshIsDurable
    <2> SUFFICES ASSUME UnsavedInv, FileFollowsState, PersistInv, phase = "wait",
                        \A t \in Threads : pc[t] = "idle"
                 PROVE  file = Snapshot
        BY DEF RefreshIsDurable
    <2>1. ~unsaved
        BY DEF UnsavedInv
    <2>2. \A t \in Threads : ~op[t].save
        BY DEF PersistInv, SaversSound, Calm
    <2> QED BY <2>1, <2>2 DEF FileFollowsState
<1> QED
    BY <1>1, <1>2, <1>3, RefreshInvariant, RefreshUsesPool, FileCurrent, PersistInvariant, PTL
       DEF RefreshSpec

\* What a crash between two refreshes may not do: lose what the last one found.
RestoredBetweenRefreshes ==
    restarts' # restarts /\ phase = "wait" /\ (\A t \in Threads : pc[t] = "idle") => Restored

\* With a state file that can be written and read, a process that dies while the
\* scheduler sleeps and no request is reporting starts again with the pool the
\* last refresh left, although none of its recheck reports saved anything.
THEOREM RefreshSurvivesCrash ==
    StateEnabled /\ ~SavesFail /\ ~LoadsFail =>
        (RefreshSpec => [][RestoredBetweenRefreshes]_allVars)
<1> SUFFICES ASSUME StateEnabled, ~SavesFail, ~LoadsFail
             PROVE  RefreshSpec => [][RestoredBetweenRefreshes]_allVars
    OBVIOUS
<1>1. RefreshSpec => []RefreshIsDurable
    BY RefreshDurable
<1>2. ASSUME RefreshInv, PoolInv, RefreshIsDurable, [RefreshNext]_allVars,
             restarts' # restarts, phase = "wait", \A t \in Threads : pc[t] = "idle"
      PROVE  Restored
    <2>1. Restart
        BY <1>2, RefreshStepInv, OnlyRestartCounts
    <2>2. file = Snapshot
        BY <1>2 DEF RefreshIsDurable
    <2> QED BY <1>2, <2>1, <2>2, RestartFromSnapshot
<1>3. RefreshInv /\ PoolInv /\ RefreshIsDurable /\ [RefreshNext]_allVars
        => [RestoredBetweenRefreshes]_allVars
    BY <1>2 DEF RestoredBetweenRefreshes
<1> QED BY <1>1, <1>3, RefreshInvariant, RefreshUsesPool, PoolInvariant, PTL DEF RefreshSpec

-----------------------------------------------------------------------------
(* The failed rechecks behind a retirement.                                *)

\* Only nodes the pool has had are known as disabled, or are about to be.
SeenOnly ==
    /\ \A k \in Keys \ NodesSeen : disabledByHash[k] = Absent
    /\ \A t \in Threads : pc[t] \in {"putDisabled", "rmDisabled"} => op[t].key \in NodesSeen

\* A count of failed rechecks, a retirement under way and one that is done are
\* backed by rechecks that failed one after the other.
CountsBacked ==
    /\ \A k \in Keys : failures[k].recheckFailures <= streak[k]
    /\ \A w \in Workers : Retiring(w) => streak[op[w].key] >= DeleteAfterFailures
    /\ \A k \in retired : streak[k] >= DeleteAfterFailures

\* Node k has not been probed by the recheck of this refresh.
Probed(k) == \E w \in Workers : worker[w].at = "probing" /\ worker[w].key = k
Waiting(k) ==
    \/ phase \notin {"rechecking", "flushing", "wait"}
    \/ phase = "rechecking" /\ (k \in queue \/ Probed(k))

\* Each refresh, of which a restart begins another, adds at most one failed
\* recheck.
OncePerRound ==
    \A k \in Keys : /\ failed[k] <= rounds + restarts
                    /\ Waiting(k) => failed[k] < rounds + restarts

\* A step of one thread that forgets no node and disables none it has not seen.
LEMMA SeenMoves ==
    ASSUME SeenOnly, NEW t \in Threads, NodesSeen \subseteq NodesSeen',
           \A u \in Threads \ {t} : pc'[u] = pc[u] /\ op'[u] = op[u],
           pc'[t] \in {"putDisabled", "rmDisabled"} => op'[t].key \in NodesSeen',
           \A k \in Keys \ NodesSeen' : disabledByHash'[k] \in {disabledByHash[k], Absent}
    PROVE  SeenOnly'
<1>1. \A k \in Keys \ NodesSeen' : disabledByHash'[k] = Absent
    BY DEF SeenOnly
<1>2. ASSUME NEW u \in Threads, pc'[u] \in {"putDisabled", "rmDisabled"}
      PROVE  op'[u].key \in NodesSeen'
    <2>1. CASE u = t
        BY <1>2, <2>1
    <2>2. CASE u # t
        <3>1. pc'[u] = pc[u] /\ op'[u] = op[u]
            BY <2>2
        <3> QED BY <1>2, <3>1 DEF SeenOnly
    <2> QED BY <2>1, <2>2
<1> QED BY <1>1, <1>2 DEF SeenOnly

\* The steps of a pool that is not restarted.
LEMMA SeenStep ==
    ASSUME PoolInv, SeenOnly, [Next]_vars, ~Restart
    PROVE  SeenOnly'
<1>1. /\ TypeOK /\ NoDuplicateNodes /\ NodesSeen \subseteq Keys /\ restarts \in Nat
      /\ proxies \in Seq(Keys)
      /\ disabledByHash \in [Keys -> Nat \cup {Absent}]
    BY DEF PoolInv, TypeOK, NodesSeen, Range
<1>3. NodesSeen \subseteq NodesSeen'
    BY NodesStaySeen
<1>4. ASSUME NEW t \in Threads, NEW k \in NodesSeen,
             \/ ReportSuccess(t, k) \/ ReportFailure(t, k)
             \/ RecheckSuccess(t, k, FALSE) \/ RecheckFailure(t, k, FALSE)
      PROVE  SeenOnly'
    <2>1. UNCHANGED <<proxies, retired, disabledByHash>>
        BY <1>4 DEF ReportSuccess, ReportFailure, RecheckSuccess, RecheckFailure, poolVars
    <2>2. \E label, n, save, reset : Goto(t, label, NewOperation(k, n, save, reset))
        BY <1>4 DEF ReportSuccess, ReportFailure, RecheckSuccess, RecheckFailure
    <2>3. /\ \A u \in Threads \ {t} : pc'[u] = pc[u] /\ op'[u] = op[u]
          /\ pc'[t] # "idle" => op'[t].key = k
        <3>1. \A n, save, reset : NewOperation(k, n, save, reset).key = k
            BY DEF NewOperation
        <3> QED BY <1>1, <2>2, <3>1, GotoMoves
    <2>4. NodesSeen' = NodesSeen
        BY <2>1 DEF NodesSeen
    <2> QED BY <2>1, <2>3, <2>4, SeenMoves
<1>5. ASSUME NEW t \in Threads, \E tried : BeginScan(t, tried)
      PROVE  SeenOnly'
    <2>1. /\ UNCHANGED <<proxies, retired, disabledByHash>>
          /\ pc'[t] \in {"scan", "exhausted"}
          /\ \A u \in Threads \ {t} : pc'[u] = pc[u] /\ op'[u] = op[u]
        BY <1>1, <1>5 DEF BeginScan, poolVars, TypeOK
    <2>2. NodesSeen' = NodesSeen
        BY <2>1 DEF NodesSeen
    <2> QED BY <2>1, <2>2, SeenMoves
<1>6. ASSUME NEW t \in Threads, Flush(t)
      PROVE  SeenOnly'
    <2>1. UNCHANGED <<proxies, retired, disabledByHash>>
          /\ Goto(t, "save", NewOperation(NoKey, 0, TRUE, FALSE))
        BY <1>6 DEF Flush, poolVars
    <2>2. NodesSeen' = NodesSeen
        BY <2>1 DEF NodesSeen
    <2>3. /\ pc'[t] = "save"
          /\ \A u \in Threads \ {t} : pc'[u] = pc[u] /\ op'[u] = op[u]
        BY <1>1, <2>1, GotoMoves
    <2> QED BY <2>1, <2>2, <2>3, SeenMoves
<1>7. ASSUME NEW t \in Threads, NEW source \in SUBSET Keys, Merge(t, source)
      PROVE  SeenOnly'
    <2> DEFINE o == NewOperation(NoKey, 0, TRUE, FALSE)
               g == [o EXCEPT !.gen = NextGeneration]
    <2>1. UNCHANGED <<retired, disabledByHash>>
        BY <1>7 DEF Merge
    <2>2. \E label \in {"reset", "save", "idle"}, x \in {o, g} : Goto(t, label, x)
        BY <1>7 DEF Merge
    <2> HIDE DEF o, g
    <2>3. /\ pc'[t] \in {"reset", "save", "idle"}
          /\ \A u \in Threads \ {t} : pc'[u] = pc[u] /\ op'[u] = op[u]
        BY <1>1, <2>2, GotoMoves
    <2> QED BY <1>3, <2>1, <2>3, SeenMoves
<1>8. ASSUME NEW t \in Threads, PutDisabled(t) \/ RemoveDisabled(t)
      PROVE  SeenOnly'
    <2>1. /\ pc[t] \in {"putDisabled", "rmDisabled"}
          /\ \E n : disabledByHash' = [disabledByHash EXCEPT ![op[t].key] = n]
          /\ UNCHANGED <<proxies, retired>>
          /\ Goto(t, Continue(op[t]), op[t])
        BY <1>8 DEF PutDisabled, RemoveDisabled, WriteDisabled
    <2>2. NodesSeen' = NodesSeen
        BY <2>1 DEF NodesSeen
    <2>3. op[t].key \in NodesSeen
        BY <2>1 DEF SeenOnly
    <2>4. Continue(op[t]) \notin {"putDisabled", "rmDisabled"}
        BY DEF Continue
    <2>5. /\ pc'[t] \notin {"putDisabled", "rmDisabled"}
          /\ \A u \in Threads \ {t} : pc'[u] = pc[u] /\ op'[u] = op[u]
        BY <1>1, <2>1, <2>4, GotoMoves
    <2>6. \A k \in Keys \ NodesSeen' : disabledByHash'[k] = disabledByHash[k]
        BY <1>1, <2>1, <2>2, <2>3
    <2> QED BY <2>2, <2>5, <2>6, SeenMoves
<1>9. ASSUME NEW t \in Threads, Retire(t)
      PROVE  SeenOnly'
    <2> DEFINE o == [op[t] EXCEPT !.gen = NextGeneration]
    <2>1. /\ pc[t] = "retire" /\ op[t].key \in Keys
          /\ disabledByHash' = [disabledByHash EXCEPT ![op[t].key] = Absent]
        BY <1>9 DEF Retire, PoolInv, ThreadsSound, ThreadSound
    <2>2. Goto(t, "reset", o) \/ Goto(t, "idle", NoOperation)
        BY <1>9 DEF Retire
    <2> HIDE DEF o
    <2>3. /\ pc'[t] \in {"reset", "idle"}
          /\ \A u \in Threads \ {t} : pc'[u] = pc[u] /\ op'[u] = op[u]
        BY <1>1, <2>2, GotoMoves
    <2>4. \A k \in Keys : disabledByHash'[k] \in {disabledByHash[k], Absent}
        BY <1>1, <2>1
    <2> QED BY <1>3, <2>3, <2>4, SeenMoves
<1>10. ASSUME NEW t \in Threads,
             \/ ScanStep(t) \/ EndScan(t) \/ DropRecord(t)
             \/ ReadGeneration(t) \/ ResetSelection(t) \/ SaveBegin(t) \/ SaveEnd(t)
      PROVE  SeenOnly'
    <2>1. UNCHANGED <<proxies, retired, disabledByHash>>
        BY <1>10 DEF ScanStep, EndScan, DropRecord, ReadGeneration, ResetSelection,
                    SaveBegin, SaveEnd, poolVars
    <2>2. NodesSeen' = NodesSeen
        BY <2>1 DEF NodesSeen
    <2>3. /\ pc'[t] \notin {"putDisabled", "rmDisabled"}
          /\ \A u \in Threads \ {t} : pc'[u] = pc[u] /\ op'[u] = op[u]
        <3>1. CASE ScanStep(t)
            BY <1>1, <3>1 DEF ScanStep, Skip, HandOut, TypeOK
        <3>2. CASE ~ScanStep(t)
            <4>1. \E label \in {"idle", "retire", "reset", "saving", Continue(op[t])} :
                    \E x : Goto(t, label, x)
                BY <1>10, <3>2 DEF EndScan, DropRecord, ReadGeneration, ResetSelection,
                                  SaveBegin, SaveEnd
            <4>2. Continue(op[t]) \notin {"putDisabled", "rmDisabled"}
                BY DEF Continue
            <4> QED BY <1>1, <4>1, <4>2, GotoMoves
        <3> QED BY <3>1, <3>2
    <2> QED BY <2>1, <2>2, <2>3, SeenMoves
<1>11. CASE (\E k \in Keys : CooldownElapses(k)) \/ UNCHANGED vars
    <2>1. UNCHANGED <<proxies, retired, disabledByHash, pc, op>>
        BY <1>11 DEF CooldownElapses, vars, poolVars, threadVars
    <2> QED BY <2>1 DEF SeenOnly, NodesSeen
<1>12. /\ \A t \in Reporters \cup Pickers \cup Workers : t \in Threads
       /\ Refresher \in Threads
    BY DEF Threads
<1> QED
    BY <1>4, <1>5, <1>6, <1>7, <1>8, <1>9, <1>10, <1>11, <1>12
       DEF Next, PickerCall, ReporterCall, WorkerCall, RefresherCall, Step

\* No record a client's report or a step under way writes has a higher count.
LEMMA RecheckCounts ==
    /\ FreshRecord.recheckFailures = 0
    /\ \A r \in FailureRecord :
        /\ Thawed(r).recheckFailures = r.recheckFailures
        /\ Failed(r).recheckFailures \in {r.recheckFailures, 0}
<1>1. FreshRecord.recheckFailures = 0
    BY DEF FreshRecord
<1>2. ASSUME NEW r \in FailureRecord
      PROVE  /\ Thawed(r) \in FailureRecord
             /\ Thawed(r).recheckFailures = r.recheckFailures
    BY <1>2 DEF Thawed, FailureRecord
<1>3. ASSUME NEW r \in FailureRecord
      PROVE  Failed(r).recheckFailures \in {r.recheckFailures, 0}
    <2> DEFINE s == Thawed(r)
               n == s.failures + 1
               c == s.cooldowns + 1
    <2>1. s \in FailureRecord /\ s.recheckFailures = r.recheckFailures
        BY <1>2
    <2>2. Failed(r) = IF ~AtThreshold(n) THEN [s EXCEPT !.failures = n]
             ELSE IF c < DisableAfterCooldowns
             THEN [s EXCEPT !.failures = 0, !.cooldowns = c, !.cooldown = "active"]
             ELSE [s EXCEPT !.failures = 0, !.cooldowns = c, !.cooldown = "none",
                            !.disabled = TRUE, !.recheckFailures = 0]
        BY DEF Failed
    <2> HIDE DEF s, n, c
    <2> QED BY <2>1, <2>2 DEF FailureRecord
<1> QED BY <1>1, <1>2, <1>3

\* The types the two parts below count with.
LEMMA CountTypes ==
    ASSUME RefreshInv
    PROVE  /\ streak \in [Keys -> Nat] /\ rounds \in Nat /\ DeleteAfterFailures \in Nat
           /\ failed \in [Keys -> Nat] /\ restarts \in Nat
           /\ retired \subseteq Keys /\ failures \in [Keys -> FailureRecord]
           /\ \A k \in Keys : /\ failures[k].recheckFailures \in Nat
                              /\ streak[k] \in Nat
BY ConstantsAssumption
   DEF RefreshInv, RefreshTypeOK, PoolInv, TypeOK, FailureRecord

\* A step that adds to no count.
LEMMA CountsStay ==
    ASSUME RefreshInv, CountsBacked, streak' = streak,
           \A k \in Keys : failures'[k].recheckFailures \in {failures[k].recheckFailures, 0},
           \A w \in Workers : Retiring(w)' => Retiring(w) /\ op'[w].key = op[w].key,
           \A k \in retired' : k \in retired \/ streak[k] >= DeleteAfterFailures
    PROVE  CountsBacked'
<1>1. \A k \in Keys : failures'[k].recheckFailures <= streak[k]
    BY CountTypes DEF CountsBacked
<1>2. \A w \in Workers : Retiring(w)' => streak[op'[w].key] >= DeleteAfterFailures
    BY DEF CountsBacked
<1>3. \A k \in retired' : streak[k] >= DeleteAfterFailures
    BY DEF CountsBacked
<1> QED BY <1>1, <1>2, <1>3 DEF CountsBacked

\* The verdict of a recheck.
LEMMA VerdictCounts ==
    ASSUME RefreshInv, RecordsWellFormed, CountsBacked, NEW w \in Workers,
           DisabledHealthy(w) \/ DisabledUnhealthy(w)
    PROVE  CountsBacked'
<1>1. PICK k \in Keys : k = worker[w].key
    BY BusyWorker DEF DisabledHealthy, DisabledUnhealthy
<1>2. /\ phase = "rechecking" /\ worker[w].at = "probing" /\ pc[w] = "idle"
      /\ k \in Range(proxies) /\ Holds(w, k)
    BY <1>1, BusyWorker DEF DisabledHealthy, DisabledUnhealthy
<1>3. k \notin retired /\ \A v \in Workers \ {w} : ~Holds(v, k)
    BY <1>1, <1>2 DEF RefreshInv, HeldOnce, PoolInv, RetiredNotActive
<1>4. /\ streak \in [Keys -> Nat] /\ rounds \in Nat /\ DeleteAfterFailures \in Nat
      /\ retired \subseteq Keys /\ failures \in [Keys -> FailureRecord]
      /\ \A j \in Keys : /\ failures[j].recheckFailures \in Nat
                         /\ streak[j] \in Nat
      /\ TypeOK /\ w \in Threads
    BY CountTypes, Kinds DEF RefreshInv, PoolInv
<1>5. retired' = retired
    BY DEF DisabledHealthy, DisabledUnhealthy, RecheckSuccess, RecheckFailure, vars, poolVars
<1>6. streak' \in {[streak EXCEPT ![k] = 0], [streak EXCEPT ![k] = streak[k] + 1]}
    BY <1>1, <1>4 DEF DisabledHealthy, DisabledUnhealthy
<1>7. \A j \in Keys \ {k} : streak'[j] = streak[j]
    BY <1>4, <1>6
<1>9. \A v \in Workers \ {w} : Retiring(v) => op[v].key \in Keys \ {k}
    <2> SUFFICES ASSUME NEW v \in Workers \ {w}, Retiring(v) PROVE op[v].key \in Keys \ {k}
        OBVIOUS
    <2>1. op[v].key \in Keys
        BY Kinds DEF RefreshInv, PoolInv, ThreadsSound, ThreadSound, Retiring
    <2>2. Holds(v, op[v].key)
        BY DEF Holds
    <2> QED BY <1>3, <2>1, <2>2
<1>10. \A j \in retired' : streak'[j] >= DeleteAfterFailures
    BY <1>3, <1>4, <1>5, <1>7 DEF CountsBacked
<1>11. CASE UNCHANGED vars
    <2>1. UNCHANGED <<pc, op, failures>>
        BY <1>11 DEF vars, threadVars
    <2>2. failures[k].recheckFailures <= streak'[k]
        <3>1. CASE DisabledHealthy(w)
            <4>1. ~failures[k].disabled
                <5>1. CASE failures[k].disabled
                    <6>1. RecheckSuccess(w, k, FALSE)
                        BY <1>1, <3>1, <5>1 DEF DisabledHealthy
                    <6>2. pc'[w] = "rmDisabled"
                        BY <1>4, <6>1, GotoMoves DEF RecheckSuccess
                    <6> QED BY <1>2, <2>1, <6>2
                <5> QED BY <5>1
            <4> QED BY <1>4, <1>6, <4>1 DEF RecordsWellFormed, WellFormed
        <3>2. CASE DisabledUnhealthy(w)
            <4>1. streak'[k] = streak[k] + 1
                BY <1>1, <1>4, <3>2 DEF DisabledUnhealthy
            <4> QED BY <1>4, <4>1 DEF CountsBacked
        <3> QED BY <3>1, <3>2
    <2>3. \A j \in Keys : failures'[j].recheckFailures <= streak'[j]
        BY <1>7, <2>1, <2>2 DEF CountsBacked
    <2>4. \A v \in Workers : Retiring(v)' => streak'[op'[v].key] >= DeleteAfterFailures
        BY <1>2, <1>7, <1>9, <2>1 DEF CountsBacked, Retiring
    <2> QED BY <1>10, <2>3, <2>4 DEF CountsBacked
<1>12. CASE DisabledHealthy(w) /\ RecheckSuccess(w, k, FALSE)
    <2>1. /\ failures' = [failures EXCEPT ![k] = FreshRecord]
          /\ Goto(w, "rmDisabled", NewOperation(k, 0, FALSE, TRUE))
        BY <1>12 DEF RecheckSuccess
    <2>2. /\ pc'[w] = "rmDisabled"
          /\ \A u \in Threads \ {w} : pc'[u] = pc[u] /\ op'[u] = op[u]
        BY <1>4, <2>1, GotoMoves
    <2>3. \A j \in Keys : failures'[j].recheckFailures <= streak'[j]
        <3>1. streak'[k] = 0
            BY <1>1, <1>4, <1>12 DEF DisabledHealthy
        <3> QED BY <1>4, <1>7, <2>1, <3>1, RecheckCounts DEF CountsBacked
    <2>4. \A v \in Workers : Retiring(v)' => streak'[op'[v].key] >= DeleteAfterFailures
        BY <1>7, <1>9, <2>2, Kinds DEF CountsBacked, Retiring
    <2> QED BY <1>10, <2>3, <2>4 DEF CountsBacked
<1>13. CASE DisabledUnhealthy(w) /\ RecheckFailure(w, k, FALSE)
    <2> DEFINE n == failures[k].recheckFailures + 1
               o == NewOperation(k, n, FALSE, FALSE)
    <2>1. /\ failures' = [failures EXCEPT ![k].recheckFailures = n]
          /\ Goto(w, IF n >= DeleteAfterFailures THEN "dropRecord" ELSE "putDisabled", o)
        BY <1>13 DEF RecheckFailure
    <2>2. n \in Nat /\ n <= streak[k] + 1 /\ o.key = k
        BY <1>4 DEF CountsBacked, NewOperation
    <2>3. streak'[k] = streak[k] + 1
        BY <1>1, <1>4, <1>13 DEF DisabledUnhealthy
    <2>4. /\ failures'[k].recheckFailures = n
          /\ \A j \in Keys \ {k} : failures'[j] = failures[j]
        BY <1>4, <2>1, <2>2 DEF FailureRecord
    <2> HIDE DEF n, o
    <2>5. /\ pc'[w] = IF n >= DeleteAfterFailures THEN "dropRecord" ELSE "putDisabled"
          /\ op'[w] = o
          /\ \A u \in Threads \ {w} : pc'[u] = pc[u] /\ op'[u] = op[u]
        <3> DEFINE label == IF n >= DeleteAfterFailures THEN "dropRecord" ELSE "putDisabled"
        <3>1. label # "idle"
            OBVIOUS
        <3>2. Goto(w, label, o)
            BY <2>1
        <3> HIDE DEF label
        <3>3. /\ pc'[w] = label /\ op'[w] = o
              /\ \A u \in Threads \ {w} : pc'[u] = pc[u] /\ op'[u] = op[u]
            BY <1>4, <3>1, <3>2, GotoMoves
        <3> QED BY <3>3 DEF label
    <2>6. \A j \in Keys : failures'[j].recheckFailures <= streak'[j]
        BY <1>4, <1>7, <2>2, <2>3, <2>4 DEF CountsBacked
    <2>7. Retiring(w)' => streak'[op'[w].key] >= DeleteAfterFailures
        BY <1>4, <2>2, <2>3, <2>5 DEF Retiring
    <2>8. \A v \in Workers \ {w} : Retiring(v)' => streak'[op'[v].key] >= DeleteAfterFailures
        BY <1>7, <1>9, <2>5, Kinds DEF CountsBacked, Retiring
    <2> QED BY <1>10, <2>6, <2>7, <2>8 DEF CountsBacked
<1> QED BY <1>1, <1>11, <1>12, <1>13 DEF DisabledHealthy, DisabledUnhealthy

\* The steps of the pool: a client's report, and what is under way.
LEMMA PoolCounts ==
    ASSUME RefreshInv, CountsBacked,
           \/ \E t \in Reporters : ClientReport(t)
           \/ PoolStep
           \/ CooldownEnds
    PROVE  CountsBacked'
<1>1. streak' = streak
    BY DEF ClientReport, PoolStep, CooldownEnds, refreshVars, history
<1>2. /\ failures \in [Keys -> FailureRecord] /\ NodesSeen \subseteq Keys /\ TypeOK
      /\ \A k \in Keys : failures[k] \in FailureRecord
    BY DEF RefreshInv, PoolInv, TypeOK, NodesSeen, Range
<1>3. CASE \E t \in Reporters : ClientReport(t)
    <2>1. PICK t \in Reporters : ClientReport(t)
        BY <1>3
    <2>2. PICK k \in NodesSeen : ReportSuccess(t, k) \/ ReportFailure(t, k)
        BY <2>1 DEF ClientReport, ReporterCall
    <2>3. k \in Keys /\ t \in Threads /\ t \notin Workers
        BY <1>2, Kinds DEF Clients
    <2>4. PICK x \in {FreshRecord, failures[k], Failed(failures[k])} :
             failures' = [failures EXCEPT ![k] = x]
        BY <2>2 DEF ReportSuccess, ReportFailure
    <2>5. x.recheckFailures \in {failures[k].recheckFailures, 0}
        BY <1>2, <2>3, <2>4, RecheckCounts
    <2>6. \A j \in Keys : failures'[j].recheckFailures \in {failures[j].recheckFailures, 0}
        BY <1>2, <2>3, <2>4, <2>5
    <2>7. retired' = retired
        BY <2>2 DEF ReportSuccess, ReportFailure, poolVars
    <2>8. \E label, o : Goto(t, label, o)
        BY <2>2 DEF ReportSuccess, ReportFailure
    <2>9. \A w \in Workers : pc'[w] = pc[w] /\ op'[w] = op[w]
        BY <1>2, <2>3, <2>8, GotoMoves, Kinds
    <2> QED BY <1>1, <2>6, <2>7, <2>9, CountsStay DEF Retiring
<1>4. CASE PoolStep
    <2>1. PICK t \in Threads : Step(t)
        BY <1>4 DEF PoolStep
    <2>2. /\ \A u \in Threads \ {t} : pc'[u] = pc[u] /\ op'[u] = op[u]
          /\ t \in Workers =>
               (pc'[t] \in {"dropRecord", "retire"} =>
                    pc[t] = "dropRecord" /\ op'[t].key = op[t].key)
        BY <2>1, StepMoves
    <2>3. \A w \in Workers : Retiring(w)' => Retiring(w) /\ op'[w].key = op[w].key
        BY <2>2, Kinds DEF Retiring
    <2>4. ~ScanStep(t)
        BY Kinds DEF ScanStep, RefreshInv, PlacesSound, ClientSound, ClientPlaces,
                     WorkerPlaces, RefresherPlaces
    <2>5. \/ failures' = failures
          \/ pc[t] = "dropRecord" /\ failures' = [failures EXCEPT ![op[t].key] = FreshRecord]
        BY <2>1, <2>4
           DEF Step, EndScan, PutDisabled, RemoveDisabled, WriteDisabled, DropRecord, Retire,
               ReadGeneration, ResetSelection, SaveBegin, SaveEnd
    <2>6. pc[t] = "dropRecord" => op[t].key \in Keys
        BY DEF RefreshInv, PoolInv, ThreadsSound, ThreadSound
    <2>7. \A j \in Keys : failures'[j].recheckFailures \in {failures[j].recheckFailures, 0}
        BY <1>2, <2>5, <2>6, RecheckCounts
    <2>8. \/ retired' = retired
          \/ pc[t] = "retire" /\ retired' = retired \cup {op[t].key}
        BY <2>1, <2>4
           DEF Step, EndScan, PutDisabled, RemoveDisabled, WriteDisabled, DropRecord, Retire,
               ReadGeneration, ResetSelection, SaveBegin, SaveEnd, poolVars
    <2>9. pc[t] = "retire" => t \in Workers
        BY Kinds DEF RefreshInv, PlacesSound, ClientSound, ClientPlaces, RefresherPlaces
    <2>10. \A k \in retired' : k \in retired \/ streak[k] >= DeleteAfterFailures
        BY <2>8, <2>9 DEF CountsBacked, Retiring
    <2> QED BY <1>1, <2>3, <2>7, <2>10, CountsStay
<1>5. CASE CooldownEnds
    <2>1. PICK k \in Keys : CooldownElapses(k)
        BY <1>5 DEF CooldownEnds
    <2>2. UNCHANGED <<pc, op, retired>>
        BY <2>1 DEF CooldownElapses, poolVars, threadVars
    <2>3. failures' = [failures EXCEPT ![k].cooldown = "expired"]
        BY <2>1 DEF CooldownElapses
    <2>4. \A j \in Keys : failures'[j].recheckFailures = failures[j].recheckFailures
        BY <1>2, <2>3 DEF FailureRecord
    <2> QED BY <1>1, <2>2, <2>4, CountsStay DEF Retiring
<1> QED BY <1>3, <1>4, <1>5

\* The refresh task and the workers between two verdicts.
LEMMA TaskCounts ==
    ASSUME RefreshInv, SeenOnly, CountsBacked,
           \/ RefreshStep \/ NextRefresh \/ LastSleep \/ UNCHANGED allVars
           \/ \E w \in Workers : CheckStop(w) \/ TakeNode(w) \/ ProbeExhausted(w)
                                 \/ CandidateProbed(w)
    PROVE  CountsBacked'
<1>1. TypeOK
    BY DEF RefreshInv, PoolInv
<1>2. streak' = streak
    BY DEF RefreshStep, NextRefresh, LastSleep, CheckStop, TakeNode, ProbeExhausted,
           CandidateProbed, Load, LoadFails, NoTarget, EndCheck, MergeActive, EndMerge,
           ListNodes, ListNode, StartRecheck, EndRecheck, EndRefresh, history, allVars,
           refreshVars
<1>3. CountsBacked'
    <2>1. CASE UNCHANGED <<failures, pc, op, retired>>
        BY <1>2, <2>1, CountsStay DEF Retiring
    <2>2. CASE MergeActive
        <3> DEFINE added == Added(active)
        <3>1. failures' = [k \in Keys |->
                 IF k \in added /\ disabledByHash[k] # Absent
                 THEN DisabledRecord(disabledByHash[k]) ELSE failures[k]]
            BY <2>2 DEF MergeActive, Merge
        <3>2. \A k \in Keys : k \in added => disabledByHash[k] = Absent
            BY DEF SeenOnly, NodesSeen, Added
        <3> HIDE DEF added
        <3>3. \A k \in Keys : failures'[k] = failures[k]
            BY <3>1, <3>2
        <3>4. retired' = retired /\ \E label, o : Goto(Refresher, label, o)
            BY <2>2 DEF MergeActive, Merge
        <3>5. \A w \in Workers : pc'[w] = pc[w] /\ op'[w] = op[w]
            BY <1>1, <3>4, GotoMoves, Kinds
        <3> QED BY <1>2, <3>3, <3>4, <3>5, CountsStay DEF Retiring
    <2>3. CASE EndRecheck
        <3>1. CASE Flush(Refresher)
            <4>1. UNCHANGED <<failures, retired>> /\ \E label, o : Goto(Refresher, label, o)
                BY <3>1 DEF Flush, poolVars
            <4>2. \A w \in Workers : pc'[w] = pc[w] /\ op'[w] = op[w]
                BY <1>1, <4>1, GotoMoves, Kinds
            <4> QED BY <1>2, <4>1, <4>2, CountsStay DEF Retiring
        <3>2. CASE UNCHANGED vars
            BY <2>1, <3>2 DEF vars, poolVars, threadVars
        <3> QED BY <2>3, <3>1, <3>2 DEF EndRecheck
    <2>4. CASE UNCHANGED vars
        BY <2>1, <2>4 DEF vars, poolVars, threadVars
    <2> QED
        BY <2>2, <2>3, <2>4
           DEF RefreshStep, NextRefresh, LastSleep, CheckStop, TakeNode, ProbeExhausted,
               CandidateProbed, Load, LoadFails, NoTarget, EndCheck, EndMerge,
               ListNodes, ListNode, StartRecheck, EndRefresh, allVars
<1> QED BY <1>3

\* A step of a process that goes on.
LEMMA RestartsStay ==
    ASSUME RefreshInv, [RefreshNext]_allVars, ~Crash
    PROVE  restarts' = restarts /\ ~Restart
<1>1. \A t \in Threads : Step(t) => restarts' = restarts
    BY DEF Step, ScanStep, EndScan, PutDisabled, RemoveDisabled, WriteDisabled, DropRecord,
           Retire, ReadGeneration, ResetSelection, SaveBegin, SaveEnd
<1>2. restarts' = restarts
    BY <1>1
       DEF RefreshNext, RefreshStep, NextRefresh, LastSleep, WorkerStep, CheckStop, TakeNode,
           ProbeExhausted, CandidateProbed, DisabledHealthy, DisabledUnhealthy, Load,
           LoadFails, NoTarget, EndCheck, MergeActive, EndMerge, ListNodes, ListNode,
           StartRecheck, EndRecheck, EndRefresh, ClientReport, PoolStep, CooldownEnds,
           ReporterCall, ReportSuccess, ReportFailure, RecheckSuccess, RecheckFailure,
           Flush, Merge, CooldownElapses, allVars, vars
<1>3. restarts \in Nat
    BY CountTypes
<1> QED BY <1>2, <1>3 DEF Restart

\* A step that makes no node wait for a probe.
LEMMA RoundStays ==
    ASSUME OncePerRound, failed' = failed, rounds' = rounds, restarts' = restarts,
           \A k \in Keys : Waiting(k)' => Waiting(k)
    PROVE  OncePerRound'
BY DEF OncePerRound

\* A step that leaves the refresh's own variables alone.
LEMMA WaitingStays ==
    ASSUME UNCHANGED <<phase, queue, worker>>, NEW k \in Keys
    PROVE  Waiting(k)' => Waiting(k)
BY DEF Waiting, Probed

\* The verdict of a recheck: the node waits no more in this refresh.
LEMMA VerdictRound ==
    ASSUME RefreshInv, OncePerRound, NEW w \in Workers,
           DisabledHealthy(w) \/ DisabledUnhealthy(w), restarts' = restarts
    PROVE  OncePerRound'
<1>1. PICK k \in Keys : k = worker[w].key
    BY BusyWorker DEF DisabledHealthy, DisabledUnhealthy
<1>2. /\ phase = "rechecking" /\ worker[w].at = "probing" /\ Holds(w, k)
      /\ worker' = [worker EXCEPT ![w] = [at |-> "ready", key |-> NoKey]]
      /\ UNCHANGED <<phase, queue, rounds>>
      /\ worker \in [Workers -> WorkerRecord]
    BY <1>1, BusyWorker, WorkerTypes
       DEF DisabledHealthy, DisabledUnhealthy, SetWorker, WorkerRecord, bounds
<1>3. k \notin queue /\ \A v \in Workers \ {w} : ~Holds(v, k)
    BY <1>1, <1>2 DEF RefreshInv, HeldOnce
<1>4. failed \in [Keys -> Nat] /\ rounds \in Nat /\ restarts \in Nat
    BY CountTypes
<1>5. failed' \in {failed, [failed EXCEPT ![k] = failed[k] + 1]}
    BY <1>1, <1>4 DEF DisabledHealthy, DisabledUnhealthy
<1>6. Probed(k) /\ Waiting(k)
    BY <1>1, <1>2 DEF Probed, Waiting
<1>7. failed'[k] <= rounds + restarts /\ \A j \in Keys \ {k} : failed'[j] = failed[j]
    BY <1>4, <1>5, <1>6 DEF OncePerRound
<1>8. worker'[w].at = "ready" /\ \A v \in Workers \ {w} : worker'[v] = worker[v]
    BY <1>2
<1>9. ~Waiting(k)'
    BY <1>2, <1>3, <1>8 DEF Waiting, Probed, Holds
<1>10. \A j \in Keys : Waiting(j)' => Waiting(j)
    BY <1>2, <1>8 DEF Waiting, Probed
<1> QED BY <1>2, <1>7, <1>9, <1>10 DEF OncePerRound

\* Every step keeps the count of refreshes ahead.
LEMMA OncePerRoundStep ==
    ASSUME RefreshInv, OncePerRound, [RefreshNext]_allVars
    PROVE  OncePerRound'
<1>1. failed \in [Keys -> Nat] /\ rounds \in Nat /\ restarts \in Nat
    BY CountTypes
<1>3. CASE Crash
    <2>1. UNCHANGED <<failed, rounds>> /\ restarts' = restarts + 1
        BY <1>3 DEF Crash, Restart, bounds, history
    <2> QED BY <1>1, <2>1 DEF OncePerRound
<1>4. CASE ~Crash
    <2>0. restarts' = restarts
        BY <1>4, RestartsStay
    <2>1. CASE \E w \in Workers : DisabledHealthy(w) \/ DisabledUnhealthy(w)
        BY <2>0, <2>1, VerdictRound
    <2>2. CASE NextRefresh
        <3>1. rounds' = rounds + 1 /\ failed' = failed
            BY <2>2 DEF NextRefresh, history
        <3> QED BY <1>1, <2>0, <3>1 DEF OncePerRound
    <2>3. CASE RefreshStep
        <3>1. rounds' = rounds /\ failed' = failed
            BY <2>3
               DEF RefreshStep, Load, LoadFails, NoTarget, EndCheck, MergeActive, EndMerge,
                   ListNodes, ListNode, StartRecheck, EndRecheck, EndRefresh, bounds, history
        <3>2. \/ phase \notin {"rechecking", "flushing", "wait"}
              \/ phase' \in {"flushing", "wait"}
            BY <2>3
               DEF RefreshStep, Load, LoadFails, NoTarget, EndCheck, MergeActive, EndMerge,
                   ListNodes, ListNode, StartRecheck, EndRecheck, EndRefresh
        <3>3. \A k \in Keys : Waiting(k)' => Waiting(k)
            BY <3>2 DEF Waiting
        <3> QED BY <2>0, <3>1, <3>3, RoundStays
    <2>4. CASE \/ LastSleep \/ UNCHANGED allVars \/ PoolStep \/ CooldownEnds
               \/ \E t \in Reporters : ClientReport(t)
        <3>1. UNCHANGED <<phase, queue, worker, rounds, failed>>
            BY <2>4 DEF LastSleep, PoolStep, CooldownEnds, ClientReport, allVars, refreshVars,
                        bounds, history
        <3> QED BY <2>0, <3>1, WaitingStays, RoundStays
    <2>5. ASSUME NEW w \in Workers,
                 CheckStop(w) \/ TakeNode(w) \/ ProbeExhausted(w) \/ CandidateProbed(w)
          PROVE  OncePerRound'
        <3>1. worker \in [Workers -> WorkerRecord]
            BY WorkerTypes DEF WorkerRecord
        <3>2. UNCHANGED <<phase, rounds, failed>> /\ queue' \subseteq queue
            BY <2>5 DEF CheckStop, TakeNode, ProbeExhausted, CandidateProbed, bounds, history
        <3>3. PICK x : /\ worker' = [worker EXCEPT ![w] = x]
                       /\ x.at = "probing" => x.key \in queue
            <4>1. PICK a, k : SetWorker(w, a, k) /\ (a = "probing" => k \in queue)
                BY <2>5 DEF CheckStop, TakeNode, ProbeExhausted, CandidateProbed
            <4> DEFINE y == [at |-> a, key |-> k]
            <4>2. /\ worker' = [worker EXCEPT ![w] = y]
                  /\ y.at = "probing" => y.key \in queue
                BY <4>1 DEF SetWorker
            <4> HIDE DEF y
            <4> QED BY <4>2
        <3>4. worker'[w] = x /\ \A v \in Workers \ {w} : worker'[v] = worker[v]
            BY <3>1, <3>3
        <3>5. \A k \in Keys : Waiting(k)' => Waiting(k)
            BY <3>2, <3>3, <3>4 DEF Waiting, Probed
        <3> QED BY <2>0, <3>2, <3>5, RoundStays
    <2> QED BY <1>4, <2>1, <2>2, <2>3, <2>4, <2>5 DEF RefreshNext, WorkerStep
<1> QED BY <1>3, <1>4

\* Every step of a process that is not restarted.
LEMMA CountsStep ==
    ASSUME RefreshInv, RecordsWellFormed, SeenOnly, CountsBacked, [RefreshNext]_allVars,
           ~Crash
    PROVE  SeenOnly' /\ CountsBacked'
<1>1. SeenOnly'
    BY RefreshStepInv, RestartsStay, SeenStep DEF RefreshInv
<1>2. CASE \E w \in Workers : DisabledHealthy(w) \/ DisabledUnhealthy(w)
    BY <1>1, <1>2, VerdictCounts
<1>3. CASE \/ \E t \in Reporters : ClientReport(t)
           \/ PoolStep
           \/ CooldownEnds
    BY <1>1, <1>3, PoolCounts
<1>4. CASE \/ RefreshStep \/ NextRefresh \/ LastSleep \/ UNCHANGED allVars
           \/ \E w \in Workers : CheckStop(w) \/ TakeNode(w) \/ ProbeExhausted(w)
                                 \/ CandidateProbed(w)
    BY <1>1, <1>4, TaskCounts
<1> QED BY <1>1, <1>2, <1>3, <1>4 DEF RefreshNext, WorkerStep

\* What no restart loses: the failed rechecks in all.  A state that is in
\* memory, on its way to the file or in it names no higher count and retires
\* no node without them.
BackedBy(s, total) ==
    /\ \A k \in Keys : s.disabled[k] <= total[k]
    /\ \A k \in s.retired : total[k] >= DeleteAfterFailures

ThreadBacked(label, o, total) ==
    /\ label \in {"dropRecord", "retire"} => total[o.key] >= DeleteAfterFailures
    /\ label = "putDisabled" => o.key \in Keys /\ o.count <= total[o.key]

TotalsBacked ==
    /\ \A k \in Keys : failures[k].recheckFailures <= failed[k]
    /\ \A t \in Threads : ThreadBacked(pc[t], op[t], failed) /\ BackedBy(snap[t], failed)
    /\ BackedBy(Snapshot, failed)
    /\ BackedBy(file, failed)

\* More failed rechecks back whatever fewer do.
LEMMA TotalsGrow ==
    ASSUME NEW f \in [Keys -> Nat], NEW g \in [Keys -> Nat], \A k \in Keys : f[k] <= g[k]
    PROVE  /\ \A s \in PersistedState : BackedBy(s, f) => BackedBy(s, g)
           /\ \A label, o :
                /\ label \in {"dropRecord", "retire"} => o.key \in Keys
                /\ o.count \in Nat
                /\ ThreadBacked(label, o, f)
                => ThreadBacked(label, o, g)
<1>1. DeleteAfterFailures \in Nat
    BY ConstantsAssumption
<1>2. ASSUME NEW s \in PersistedState, BackedBy(s, f) PROVE BackedBy(s, g)
    <2>1. s.retired \subseteq Keys /\ \A k \in Keys : s.disabled[k] \in Int
        BY DEF PersistedState, Absent
    <2>2. \A k \in Keys : s.disabled[k] <= g[k]
        BY <1>2, <2>1 DEF BackedBy
    <2>3. \A k \in s.retired : g[k] >= DeleteAfterFailures
        BY <1>1, <1>2, <2>1 DEF BackedBy
    <2> QED BY <2>2, <2>3 DEF BackedBy
<1>3. ASSUME NEW label, NEW o, o.count \in Nat, ThreadBacked(label, o, f),
             label \in {"dropRecord", "retire"} => o.key \in Keys
      PROVE  ThreadBacked(label, o, g)
    BY <1>1, <1>3 DEF ThreadBacked
<1> QED BY <1>2, <1>3

\* A step keeps the totals behind everything if what it writes is backed.
LEMMA TotalsKeep ==
    ASSUME RefreshInv, TotalsBacked, failed' \in [Keys -> Nat],
           \A k \in Keys : failed[k] <= failed'[k],
           \A k \in Keys : \/ failures'[k].recheckFailures = failures[k].recheckFailures
                           \/ failures'[k].recheckFailures <= failed'[k],
           \A t \in Threads : \/ pc'[t] = pc[t] /\ op'[t] = op[t]
                              \/ ThreadBacked(pc'[t], op'[t], failed'),
           \A t \in Threads : snap'[t] = snap[t] \/ BackedBy(snap'[t], failed'),
           \A k \in Keys : \/ disabledByHash'[k] = disabledByHash[k]
                           \/ disabledByHash'[k] <= failed'[k],
           \A k \in retired' : k \in retired \/ failed'[k] >= DeleteAfterFailures,
           file' = file \/ BackedBy(file', failed')
    PROVE  TotalsBacked'
<1>1. /\ failed \in [Keys -> Nat] /\ file \in PersistedState /\ Snapshot \in PersistedState
      /\ \A t \in Threads : snap[t] \in PersistedState /\ op[t].count \in Nat
      /\ \A k \in Keys : failures[k].recheckFailures \in Nat
    <2>1. Range(proxies) \subseteq Keys
        BY DEF RefreshInv, PoolInv, TypeOK, Range
    <2> QED
        BY <2>1, CountTypes
           DEF RefreshInv, PoolInv, TypeOK, Snapshot, PersistedState, Operation
<1>2. \A t \in Threads : pc[t] \in {"dropRecord", "retire"} => op[t].key \in Keys
    BY DEF RefreshInv, PoolInv, ThreadsSound, ThreadSound
<1>3. /\ \A s \in PersistedState : BackedBy(s, failed) => BackedBy(s, failed')
      /\ \A t \in Threads : ThreadBacked(pc[t], op[t], failed')
    BY <1>1, <1>2, TotalsGrow DEF TotalsBacked
<1>4. \A k \in Keys : failures'[k].recheckFailures <= failed'[k]
    BY <1>1 DEF TotalsBacked
<1>5. \A t \in Threads : ThreadBacked(pc'[t], op'[t], failed') /\ BackedBy(snap'[t], failed')
    BY <1>1, <1>3 DEF TotalsBacked
<1>6. BackedBy(Snapshot, failed)'
    <2>1. BackedBy(Snapshot, failed')
        BY <1>1, <1>3 DEF TotalsBacked
    <2>2. /\ \A k \in Keys : disabledByHash'[k] <= failed'[k]
          /\ \A k \in retired' : failed'[k] >= DeleteAfterFailures
        BY <2>1 DEF BackedBy, Snapshot
    <2> QED BY <2>2 DEF BackedBy, Snapshot
<1>7. BackedBy(file, failed)'
    BY <1>1, <1>3 DEF TotalsBacked
<1> QED BY <1>4, <1>5, <1>6, <1>7 DEF TotalsBacked

\* The verdict of a recheck is counted before it is reported.
LEMMA VerdictTotals ==
    ASSUME RefreshInv, TotalsBacked, NEW w \in Workers,
           DisabledHealthy(w) \/ DisabledUnhealthy(w)
    PROVE  TotalsBacked'
<1>1. PICK k \in Keys : k = worker[w].key
    BY BusyWorker DEF DisabledHealthy, DisabledUnhealthy
<1>2. /\ failed \in [Keys -> Nat] /\ DeleteAfterFailures \in Nat
      /\ failures \in [Keys -> FailureRecord]
      /\ \A j \in Keys : failures[j].recheckFailures \in Nat /\ failed[j] \in Nat
      /\ TypeOK /\ w \in Threads
    BY CountTypes, Kinds DEF RefreshInv, PoolInv
<1>3. failed' = failed \/ failed' = [failed EXCEPT ![k] = failed[k] + 1]
    BY <1>1, <1>2 DEF DisabledHealthy, DisabledUnhealthy
<1>4. failed' \in [Keys -> Nat] /\ \A j \in Keys : failed[j] <= failed'[j]
    BY <1>2, <1>3
<1>5. CASE UNCHANGED vars
    BY <1>4, <1>5, TotalsKeep DEF vars, poolVars, threadVars
<1>6. CASE RecheckSuccess(w, k, FALSE)
    <2>1. /\ failures' = [failures EXCEPT ![k] = FreshRecord]
          /\ Goto(w, "rmDisabled", NewOperation(k, 0, FALSE, TRUE))
          /\ UNCHANGED <<disabledByHash, retired, snap, file>>
        BY <1>6 DEF RecheckSuccess, poolVars
    <2>2. /\ pc'[w] = "rmDisabled"
          /\ \A u \in Threads \ {w} : pc'[u] = pc[u] /\ op'[u] = op[u]
        BY <1>2, <2>1, GotoMoves
    <2>3. \A j \in Keys : \/ failures'[j].recheckFailures = failures[j].recheckFailures
                          \/ failures'[j].recheckFailures <= failed'[j]
        BY <1>2, <1>4, <2>1, RecheckCounts
    <2> QED BY <1>4, <2>1, <2>2, <2>3, TotalsKeep DEF ThreadBacked
<1>7. CASE DisabledUnhealthy(w) /\ RecheckFailure(w, k, FALSE)
    <2> DEFINE n == failures[k].recheckFailures + 1
               o == NewOperation(k, n, FALSE, FALSE)
               label == IF n >= DeleteAfterFailures THEN "dropRecord" ELSE "putDisabled"
    <2>1. /\ failures' = [failures EXCEPT ![k].recheckFailures = n]
          /\ Goto(w, label, o)
          /\ UNCHANGED <<disabledByHash, retired, snap, file>>
        BY <1>7 DEF RecheckFailure, poolVars
    <2>2. n \in Nat /\ n <= failed[k] + 1 /\ o.key = k /\ o.count = n
        BY <1>2 DEF TotalsBacked, NewOperation
    <2>3. failed'[k] = failed[k] + 1
        BY <1>1, <1>2, <1>7 DEF DisabledUnhealthy
    <2>4. /\ failures'[k].recheckFailures = n
          /\ \A j \in Keys \ {k} : failures'[j] = failures[j]
        BY <1>2, <2>1, <2>2 DEF FailureRecord
    <2>5. /\ label # "idle" /\ label # "retire"
          /\ label = "dropRecord" => n >= DeleteAfterFailures
        OBVIOUS
    <2> HIDE DEF n, o, label
    <2>6. /\ pc'[w] = label /\ op'[w] = o
          /\ \A u \in Threads \ {w} : pc'[u] = pc[u] /\ op'[u] = op[u]
        BY <1>2, <2>1, <2>5, GotoMoves
    <2>7. ThreadBacked(pc'[w], op'[w], failed')
        BY <1>2, <1>4, <2>2, <2>3, <2>5, <2>6 DEF ThreadBacked
    <2>8. \A j \in Keys : \/ failures'[j].recheckFailures = failures[j].recheckFailures
                          \/ failures'[j].recheckFailures <= failed'[j]
        BY <2>2, <2>3, <2>4
    <2> QED BY <1>4, <2>1, <2>6, <2>7, <2>8, TotalsKeep
<1> QED BY <1>1, <1>5, <1>6, <1>7 DEF DisabledHealthy, DisabledUnhealthy

\* What is under way moves counts between memory, snapshots and the file.
LEMMA StepTotals ==
    ASSUME RefreshInv, TotalsBacked, failed' = failed, NEW t \in Threads, Step(t)
    PROVE  TotalsBacked'
<1>1. /\ TypeOK /\ failed \in [Keys -> Nat] /\ failures \in [Keys -> FailureRecord]
      /\ disabledByHash \in [Keys -> Nat \cup {Absent}]
      /\ \A k \in Keys : failed[k] \in Nat /\ failed[k] <= failed[k] /\ Absent <= failed[k]
      /\ snap \in [Threads -> PersistedState]
    BY CountTypes DEF RefreshInv, PoolInv, TypeOK, Absent
<1>2. ~ScanStep(t)
    BY Kinds DEF ScanStep, RefreshInv, PlacesSound, ClientSound, ClientPlaces,
                 WorkerPlaces, RefresherPlaces
<1>3. ThreadBacked(pc[t], op[t], failed)
    BY DEF TotalsBacked
<1>4. ASSUME NEW label, NEW o, Goto(t, label, o),
             label \notin {"dropRecord", "putDisabled"},
             label = "retire" => pc[t] = "dropRecord" /\ o = op[t]
      PROVE  \A u \in Threads : \/ pc'[u] = pc[u] /\ op'[u] = op[u]
                                \/ ThreadBacked(pc'[u], op'[u], failed')
    <2>1. /\ pc'[t] = label /\ (label # "idle" => op'[t] = o)
          /\ \A u \in Threads \ {t} : pc'[u] = pc[u] /\ op'[u] = op[u]
        BY <1>1, <1>4, GotoMoves
    <2> QED BY <1>3, <1>4, <2>1 DEF ThreadBacked
<1>5. Continue(op[t]) \notin {"dropRecord", "putDisabled", "retire"}
    BY DEF Continue
<1>6. CASE EndScan(t) \/ ReadGeneration(t) \/ ResetSelection(t)
    <2>1. UNCHANGED <<failures, disabledByHash, retired, snap, file>>
        BY <1>6 DEF EndScan, ReadGeneration, ResetSelection, poolVars
    <2>2. \E label \in {"idle", "reset", Continue(op[t])} : \E o : Goto(t, label, o)
        BY <1>6 DEF EndScan, ReadGeneration, ResetSelection
    <2>3. \A u \in Threads : \/ pc'[u] = pc[u] /\ op'[u] = op[u]
                             \/ ThreadBacked(pc'[u], op'[u], failed')
        BY <1>4, <1>5, <2>2
    <2> QED BY <1>1, <2>1, <2>3, TotalsKeep
<1>7. CASE PutDisabled(t) \/ RemoveDisabled(t)
    <2>1. PICK n : /\ disabledByHash' = [disabledByHash EXCEPT ![op[t].key] = n]
                   /\ n = Absent \/ (pc[t] = "putDisabled" /\ n = op[t].count)
        BY <1>7 DEF PutDisabled, RemoveDisabled, WriteDisabled
    <2>2. /\ UNCHANGED <<failures, retired, snap, file>>
          /\ Goto(t, Continue(op[t]), op[t])
        BY <1>7 DEF PutDisabled, RemoveDisabled, WriteDisabled
    <2>3. \A u \in Threads : \/ pc'[u] = pc[u] /\ op'[u] = op[u]
                             \/ ThreadBacked(pc'[u], op'[u], failed')
        BY <1>4, <1>5, <2>2
    <2>4. \A k \in Keys : \/ disabledByHash'[k] = disabledByHash[k]
                          \/ disabledByHash'[k] <= failed[k]
        BY <1>1, <1>3, <2>1 DEF ThreadBacked
    <2> QED BY <1>1, <2>2, <2>3, <2>4, TotalsKeep
<1>8. CASE DropRecord(t)
    <2>1. /\ failures' = [failures EXCEPT ![op[t].key] = FreshRecord]
          /\ Goto(t, "retire", op[t]) /\ pc[t] = "dropRecord"
          /\ UNCHANGED <<disabledByHash, retired, snap, file>>
        BY <1>8 DEF DropRecord, poolVars
    <2>2. \A u \in Threads : \/ pc'[u] = pc[u] /\ op'[u] = op[u]
                             \/ ThreadBacked(pc'[u], op'[u], failed')
        BY <1>4, <2>1
    <2>3. \A k \in Keys : \/ failures'[k].recheckFailures = failures[k].recheckFailures
                          \/ failures'[k].recheckFailures <= failed[k]
        BY <1>1, <2>1, RecheckCounts
    <2> QED BY <1>1, <2>1, <2>2, <2>3, TotalsKeep
<1>9. CASE Retire(t)
    <2> DEFINE o == [op[t] EXCEPT !.gen = NextGeneration]
    <2>1. /\ pc[t] = "retire" /\ retired' = retired \cup {op[t].key}
          /\ disabledByHash' = [disabledByHash EXCEPT ![op[t].key] = Absent]
          /\ UNCHANGED <<failures, snap, file>>
          /\ Goto(t, "reset", o) \/ Goto(t, "idle", NoOperation)
        BY <1>9 DEF Retire
    <2> HIDE DEF o
    <2>2. \A u \in Threads : \/ pc'[u] = pc[u] /\ op'[u] = op[u]
                             \/ ThreadBacked(pc'[u], op'[u], failed')
        BY <1>4, <2>1
    <2>3. \A k \in retired' : k \in retired \/ failed[k] >= DeleteAfterFailures
        BY <1>3, <2>1 DEF ThreadBacked
    <2>4. \A k \in Keys : \/ disabledByHash'[k] = disabledByHash[k]
                          \/ disabledByHash'[k] <= failed[k]
        BY <1>1, <2>1
    <2> QED BY <1>1, <2>1, <2>2, <2>3, <2>4, TotalsKeep
<1>10. CASE SaveBegin(t)
    <2> DEFINE o == [op[t] EXCEPT !.save = FALSE]
    <2>1. /\ snap' = [snap EXCEPT ![t] = Snapshot] /\ Goto(t, "saving", o)
          /\ UNCHANGED <<failures, disabledByHash, retired, file>>
        BY <1>10 DEF SaveBegin, poolVars
    <2> HIDE DEF o
    <2>2. \A u \in Threads : \/ pc'[u] = pc[u] /\ op'[u] = op[u]
                             \/ ThreadBacked(pc'[u], op'[u], failed')
        BY <1>4, <2>1
    <2>3. \A u \in Threads : snap'[u] = snap[u] \/ BackedBy(snap'[u], failed)
        BY <1>1, <2>1 DEF TotalsBacked
    <2> QED BY <1>1, <2>1, <2>2, <2>3, TotalsKeep
<1>11. CASE SaveEnd(t)
    <2>1. /\ file' = file \/ file' = snap[t]
          /\ snap' = [snap EXCEPT ![t] = EmptyFile] /\ Goto(t, Continue(op[t]), op[t])
          /\ UNCHANGED <<failures, disabledByHash, retired>>
        BY <1>11 DEF SaveEnd, poolVars
    <2>2. \A u \in Threads : \/ pc'[u] = pc[u] /\ op'[u] = op[u]
                             \/ ThreadBacked(pc'[u], op'[u], failed')
        BY <1>4, <1>5, <2>1
    <2>3. BackedBy(EmptyFile, failed)
        BY <1>1 DEF BackedBy, EmptyFile
    <2>4. \A u \in Threads : snap'[u] = snap[u] \/ BackedBy(snap'[u], failed)
        BY <1>1, <2>1, <2>3
    <2>5. file' = file \/ BackedBy(file', failed)
        BY <2>1 DEF TotalsBacked
    <2> QED BY <1>1, <2>1, <2>2, <2>4, <2>5, TotalsKeep
<1> QED BY <1>2, <1>6, <1>7, <1>8, <1>9, <1>10, <1>11 DEF Step

\* A client's report leaves the counts of rechecks alone or clears one.
LEMMA ClientTotals ==
    ASSUME RefreshInv, TotalsBacked, NEW t \in Reporters, ClientReport(t)
    PROVE  TotalsBacked'
<1>1. /\ TypeOK /\ failed \in [Keys -> Nat] /\ failures \in [Keys -> FailureRecord]
      /\ \A k \in Keys : failed[k] \in Nat /\ failed[k] <= failed[k]
      /\ NodesSeen \subseteq Keys /\ t \in Threads
    BY CountTypes, Kinds DEF RefreshInv, PoolInv, TypeOK, NodesSeen, Range, Clients
<1>2. failed' = failed
    BY DEF ClientReport
<1>3. PICK k \in NodesSeen : ReportSuccess(t, k) \/ ReportFailure(t, k)
    BY DEF ClientReport, ReporterCall
<1>4. PICK x \in {FreshRecord, failures[k], Failed(failures[k])} :
         failures' = [failures EXCEPT ![k] = x]
    BY <1>3 DEF ReportSuccess, ReportFailure
<1>5. \A j \in Keys : \/ failures'[j].recheckFailures = failures[j].recheckFailures
                      \/ failures'[j].recheckFailures <= failed[j]
    <2>1. x.recheckFailures \in {failures[k].recheckFailures, 0}
        BY <1>1, <1>4, RecheckCounts
    <2> QED BY <1>1, <1>4, <2>1
<1>6. UNCHANGED <<disabledByHash, retired, snap, file>>
    BY <1>3 DEF ReportSuccess, ReportFailure, poolVars
<1> DEFINE o == NewOperation(k, 0, TRUE, FALSE)
<1>7. o.key = k /\ o.count = 0
    BY DEF NewOperation
<1>8. PICK label \in {"idle", "rmDisabled", "putDisabled"} : Goto(t, label, o)
    BY <1>3 DEF ReportSuccess, ReportFailure
<1> HIDE DEF o
<1>9. \A u \in Threads : \/ pc'[u] = pc[u] /\ op'[u] = op[u]
                         \/ ThreadBacked(pc'[u], op'[u], failed')
    <2>1. /\ pc'[t] = label /\ (label # "idle" => op'[t] = o)
          /\ \A u \in Threads \ {t} : pc'[u] = pc[u] /\ op'[u] = op[u]
        BY <1>1, <1>8, GotoMoves
    <2>2. ThreadBacked(pc'[t], op'[t], failed')
        BY <1>1, <1>2, <1>7, <2>1 DEF ThreadBacked
    <2> QED BY <2>1, <2>2
<1> QED BY <1>1, <1>2, <1>5, <1>6, <1>9, TotalsKeep

\* The refresh task: a node that comes back to the pool comes with the count
\* the pool kept of it.
LEMMA TaskTotals ==
    ASSUME RefreshInv, TotalsBacked, MergeActive \/ EndRecheck
    PROVE  TotalsBacked'
<1>1. /\ TypeOK /\ failed \in [Keys -> Nat] /\ failures \in [Keys -> FailureRecord]
      /\ \A k \in Keys : failed[k] \in Nat /\ failed[k] <= failed[k]
    BY CountTypes DEF RefreshInv, PoolInv
<1>2. failed' = failed
    BY DEF MergeActive, EndRecheck, history
<1>3. CASE UNCHANGED vars
    BY <1>1, <1>2, <1>3, TotalsKeep DEF vars, poolVars, threadVars
<1>4. ASSUME NEW label \in {"reset", "save", "idle"}, \E o : Goto(Refresher, label, o)
      PROVE  \A u \in Threads : \/ pc'[u] = pc[u] /\ op'[u] = op[u]
                                \/ ThreadBacked(pc'[u], op'[u], failed')
    <2>1. /\ pc'[Refresher] = label
          /\ \A u \in Threads \ {Refresher} : pc'[u] = pc[u] /\ op'[u] = op[u]
        BY <1>1, <1>4, GotoMoves, Kinds
    <2> QED BY <2>1 DEF ThreadBacked
<1>5. CASE Flush(Refresher)
    <2>1. /\ UNCHANGED <<failures, disabledByHash, retired, snap, file>>
          /\ \E o : Goto(Refresher, "save", o)
        BY <1>5 DEF Flush, poolVars
    <2>2. \A u \in Threads : \/ pc'[u] = pc[u] /\ op'[u] = op[u]
                             \/ ThreadBacked(pc'[u], op'[u], failed')
        BY <1>4, <2>1
    <2> QED BY <1>1, <1>2, <2>1, <2>2, TotalsKeep
<1>6. CASE MergeActive
    <2> DEFINE added == Added(active)
    <2>1. failures' = [k \in Keys |->
             IF k \in added /\ disabledByHash[k] # Absent
             THEN DisabledRecord(disabledByHash[k]) ELSE failures[k]]
        BY <1>6 DEF MergeActive, Merge
    <2>2. /\ UNCHANGED <<disabledByHash, retired, snap, file>>
          /\ \E label \in {"reset", "save", "idle"} : \E o : Goto(Refresher, label, o)
        BY <1>6 DEF MergeActive, Merge
    <2>3. \A k \in Keys : disabledByHash[k] <= failed[k]
        BY DEF TotalsBacked, BackedBy, Snapshot
    <2> HIDE DEF added
    <2>4. \A k \in Keys : \/ failures'[k].recheckFailures = failures[k].recheckFailures
                          \/ failures'[k].recheckFailures <= failed[k]
        BY <2>1, <2>3 DEF DisabledRecord
    <2>5. \A u \in Threads : \/ pc'[u] = pc[u] /\ op'[u] = op[u]
                             \/ ThreadBacked(pc'[u], op'[u], failed')
        BY <1>4, <2>2
    <2> QED BY <1>1, <1>2, <2>2, <2>4, <2>5, TotalsKeep
<1> QED BY <1>3, <1>5, <1>6 DEF EndRecheck

\* The constructor takes its counts from the file, or has none.
LEMMA CrashTotals ==
    ASSUME RefreshInv, TotalsBacked, Crash
    PROVE  TotalsBacked'
<1>1. /\ failed \in [Keys -> Nat] /\ file \in PersistedState
      /\ \A k \in Keys : failed[k] \in Nat
    BY CountTypes DEF RefreshInv, PoolInv, TypeOK
<1>2. failed' = failed
    BY DEF Crash, history
<1>3. BackedBy(EmptyFile, failed)
    BY <1>1 DEF BackedBy, EmptyFile, Absent
<1>4. PICK f \in LoadedStates :
         /\ Construct(f)
         /\ file' \in {file, [f EXCEPT !.available = RestoredKeys(f)]}
    BY DEF Crash, Restart
<1>5. f \in PersistedState /\ BackedBy(f, failed)
    <2>1. f = file \/ f = EmptyFile
        BY DEF LoadedStates
    <2>2. EmptyFile \in PersistedState
        BY DEF EmptyFile, PersistedState
    <2> QED BY <1>1, <1>3, <2>1, <2>2 DEF TotalsBacked
<1>6. BackedBy(file', failed)
    <2>1. CASE file' = file
        BY <2>1 DEF TotalsBacked
    <2>2. CASE file' = [f EXCEPT !.available = RestoredKeys(f)]
        <3>1. file'.disabled = f.disabled /\ file'.retired = f.retired
            BY <1>5, <2>2 DEF PersistedState
        <3> QED BY <1>5, <3>1 DEF BackedBy
    <2> QED BY <1>4, <2>1, <2>2
<1>7. /\ disabledByHash' = f.disabled /\ retired' = f.retired
      /\ failures' = RestoredRecords(f)
      /\ pc' = [t \in Threads |-> "idle"] /\ snap' = [t \in Threads |-> EmptyFile]
    BY <1>4 DEF Construct
<1>8. BackedBy(Snapshot, failed)'
    BY <1>2, <1>5, <1>7 DEF BackedBy, Snapshot
<1>9. \A k \in Keys : failures'[k].recheckFailures <= failed[k]
    BY <1>1, <1>5, <1>7 DEF RestoredRecords, BackedBy, DisabledRecord, FreshRecord
<1>10. \A t \in Threads : ThreadBacked(pc'[t], op'[t], failed) /\ BackedBy(snap'[t], failed)
    BY <1>3, <1>7 DEF ThreadBacked
<1> QED BY <1>2, <1>6, <1>8, <1>9, <1>10 DEF TotalsBacked

\* Every step keeps the totals behind the counts.
LEMMA TotalsStep ==
    ASSUME RefreshInv, TotalsBacked, [RefreshNext]_allVars
    PROVE  TotalsBacked'
<1>1. /\ failed \in [Keys -> Nat] /\ failures \in [Keys -> FailureRecord]
      /\ \A k \in Keys : failed[k] \in Nat /\ failed[k] <= failed[k]
    BY CountTypes
<1>2. CASE failed' = failed /\ UNCHANGED vars
    BY <1>1, <1>2, TotalsKeep DEF vars, poolVars, threadVars
<1>3. CASE \/ \E source \in SUBSET Keys : Load(source)
           \/ LoadFails \/ NoTarget \/ EndCheck \/ EndMerge
           \/ ListNodes \/ (\E k \in Keys : ListNode(k)) \/ StartRecheck
           \/ EndRefresh \/ NextRefresh \/ LastSleep \/ UNCHANGED allVars
           \/ \E w \in Workers : CheckStop(w) \/ TakeNode(w) \/ ProbeExhausted(w)
                                 \/ CandidateProbed(w)
    <2>1. failed' = failed /\ UNCHANGED vars
        BY <1>3
           DEF Load, LoadFails, NoTarget, EndCheck, EndMerge, ListNodes, ListNode,
               StartRecheck, EndRefresh, NextRefresh, LastSleep, CheckStop, TakeNode,
               ProbeExhausted, CandidateProbed, history, refreshVars, allVars
    <2> QED BY <1>2, <2>1
<1>4. CASE PoolStep
    <2>1. failed' = failed /\ \E t \in Threads : Step(t)
        BY <1>4 DEF PoolStep, refreshVars, history
    <2> QED BY <2>1, StepTotals
<1>5. CASE CooldownEnds
    <2>1. PICK k \in Keys : CooldownElapses(k)
        BY <1>5 DEF CooldownEnds
    <2>2. failed' = failed /\ UNCHANGED <<pc, op, snap, disabledByHash, retired, file>>
        BY <1>5, <2>1 DEF CooldownEnds, CooldownElapses, refreshVars, history, poolVars,
                          threadVars
    <2>3. \A j \in Keys : failures'[j].recheckFailures = failures[j].recheckFailures
        BY <1>1, <2>1 DEF CooldownElapses, FailureRecord
    <2> QED BY <1>1, <2>2, <2>3, TotalsKeep
<1> QED
    BY <1>3, <1>4, <1>5, VerdictTotals, ClientTotals, TaskTotals, CrashTotals
       DEF RefreshNext, RefreshStep, WorkerStep

\* A node is retired only after the full number of failed rechecks, each in a
\* refresh of its own, wherever the process died meanwhile and whatever became
\* of the file; and one after the other, as long as it did not die.
THEOREM RetiredAfterFailures == RefreshSpec => []RetiredOnlyAfterConsecutiveFailures
<1> DEFINE Row == restarts = 0 => SeenOnly /\ CountsBacked
<1>1. RefreshInit => OncePerRound /\ TotalsBacked /\ Row
    <2> SUFFICES ASSUME RefreshInit PROVE OncePerRound /\ TotalsBacked /\ Row
        OBVIOUS
    <2>1. Row
        <3>1. SeenOnly
            BY DEF RefreshInit, Init, SeenOnly
        <3>2. CountsBacked
            BY RecheckCounts, Kinds DEF RefreshInit, Init, CountsBacked, Retiring
        <3> QED BY <3>1, <3>2
    <2>2. OncePerRound
        BY DEF RefreshInit, Init, OncePerRound
    <2>3. BackedBy(EmptyFile, failed) /\ BackedBy(Snapshot, failed)
        BY DEF RefreshInit, Init, BackedBy, EmptyFile, Snapshot, Absent
    <2>4. TotalsBacked
        BY <2>3, RecheckCounts DEF RefreshInit, Init, TotalsBacked, ThreadBacked
    <2> QED BY <2>1, <2>2, <2>4
<1>2. /\ RefreshInv /\ RecordsWellFormed /\ OncePerRound /\ TotalsBacked /\ Row
      /\ [RefreshNext]_allVars
      => OncePerRound' /\ TotalsBacked' /\ Row'
    <2> SUFFICES ASSUME RefreshInv, RecordsWellFormed, OncePerRound, TotalsBacked, Row,
                        [RefreshNext]_allVars
                 PROVE  OncePerRound' /\ TotalsBacked' /\ Row'
        OBVIOUS
    <2>1. CASE Crash
        <3>1. restarts' # 0
            BY <2>1, CountTypes DEF Crash, Restart
        <3> QED BY <3>1, OncePerRoundStep, TotalsStep
    <2>2. CASE ~Crash
        <3>1. restarts' = restarts
            BY <2>2, RestartsStay
        <3> QED BY <2>2, <3>1, OncePerRoundStep, TotalsStep, CountsStep
    <2> QED BY <2>1, <2>2
<1>3. OncePerRound /\ TotalsBacked /\ Row => RetiredOnlyAfterConsecutiveFailures
    BY DEF OncePerRound, TotalsBacked, BackedBy, Snapshot, CountsBacked,
           RetiredOnlyAfterConsecutiveFailures
<1> HIDE DEF Row
<1> QED
    BY <1>1, <1>2, <1>3, RefreshInvariant, RefreshUsesPool, RecordsSound, PTL DEF RefreshSpec

=============================================================================
