----------------------------- MODULE RefreshCycle -----------------------------
(***************************************************************************)
(* The refresh of src/src/health.rs on top of the pool: load the sources,  *)
(* probe the candidates, merge the healthy ones, recheck the disabled      *)
(* nodes with a pool of workers, flush the state file, wait for the next   *)
(* refresh.  One refresh runs at a time (spawn_refresh_scheduler_after     *)
(* awaits the startup refresh, the scheduler awaits each of its own) while *)
(* client tasks keep reporting on the nodes they use.                      *)
(*                                                                         *)
(* The two probing phases share one shape: workers loop over a queue until *)
(* it is empty or stop_checks is set.  The attempts of a probe and their   *)
(* timeouts are one step, whose verdict is the network's.  Workers beyond  *)
(* the length of the queue find it empty, as if they were not started.     *)
(***************************************************************************)
EXTENDS ProxyPool

CONSTANTS
    HealthCheckEnabled,  \* health_check_enabled
    TargetOutcomes,      \* whether HealthCheckTarget::from_config succeeds
    MaxCopies,           \* bound: how often a candidate is listed once more
    MaxRounds,           \* bound: refreshes
    MaxReports           \* bound: reports of client tasks

ASSUME RefreshAssumption ==
    /\ HealthCheckEnabled \in BOOLEAN
    /\ TargetOutcomes \in SUBSET BOOLEAN \ {{}}
    /\ MaxCopies \in Nat
    /\ MaxRounds \in Nat
    /\ MaxReports \in Nat

VARIABLES
    phase,       \* what the refresh task is doing
    queue,       \* nodes not yet taken by a worker
    spare,       \* further copies of a candidate in the queue
    stopChecks,  \* stop_checks of the running phase
    worker,      \* per worker: its place in the loop and its node
    active,      \* candidates that passed, or nodes left to list
    rounds,      \* bounded by MaxRounds
    reports,     \* bounded by MaxReports
    streak,      \* history: failed rechecks of a node since its last healthy one
    failed,      \* history: failed rechecks of a node in all
    cooled       \* history: cooldowns of a node since the last merge

bounds == <<rounds, reports>>
history == <<streak, failed, cooled>>
refreshVars == <<phase, queue, spare, stopChecks, worker, active, bounds, history>>
allVars == <<vars, refreshVars>>

\* "start" is the load of main, before the listener is bound.
Phases == {"start", "load", "check", "merge", "merging", "recheck", "rechecking",
           "flushing", "wait", "listing"}

Ready == [at |-> "ready", key |-> NoKey]
Done == [at |-> "done", key |-> NoKey]

NoSpare == [k \in Keys |-> 0]

RefreshInit ==
    /\ Init
    /\ phase = "start"
    /\ queue = {}
    /\ spare = NoSpare
    /\ stopChecks = FALSE
    /\ worker = [w \in Workers |-> Done]
    /\ active = {}
    /\ rounds = 1
    /\ reports = 0
    /\ streak = [k \in Keys |-> 0]
    /\ failed = [k \in Keys |-> 0]
    /\ cooled = [k \in Keys |-> 0]

-----------------------------------------------------------------------------
(* The refresh task.                                                       *)

\* A phase of probing: a queue, a cleared stop flag and workers.
StartWorkers(nodes) ==
    /\ queue' = nodes
    /\ stopChecks' = FALSE
    /\ worker' = [w \in Workers |-> Ready]

AnyJoined == \E w \in Workers : worker[w] = Done /\ pc[w] = "idle"
AllJoined == \A w \in Workers : worker[w] = Done /\ pc[w] = "idle"

\* prepare_proxy_refresh and select_active_proxies.  No candidates, or no
\* health check, means no probing.  The sources may list a candidate several
\* times, and every copy is queued; the merge drops what is left of them.
Load(source) ==
    /\ phase \in {"start", "load"}
    /\ IF HealthCheckEnabled /\ source # {}
       THEN /\ TRUE \in TargetOutcomes
            /\ phase' = "check"
            /\ active' = {}
            /\ StartWorkers(source)
            /\ \E more \in [source -> 0..MaxCopies] :
                 spare' = [k \in Keys |-> IF k \in source THEN more[k] ELSE 0]
       ELSE /\ phase' = "merge"
            /\ active' = source
            /\ UNCHANGED <<queue, spare, stopChecks, worker>>
    /\ UNCHANGED <<vars, bounds, history>>

\* The target of the probes cannot be built (its TLS name or connector; the
\* configuration does not validate them): nothing is merged this time.
NoTarget ==
    /\ phase \in {"start", "load"}
    /\ HealthCheckEnabled
    /\ FALSE \in TargetOutcomes
    /\ phase' = "wait"
    /\ UNCHANGED <<vars, queue, spare, stopChecks, worker, active, bounds, history>>

LoadFailsForGood ==
    /\ phase = "load"
    /\ phase' = "stopped"
    /\ UNCHANGED <<vars, queue, spare, stopChecks, worker, active, bounds, history>>

\* A source cannot be read: the scheduled refresh is abandoned.  At the start
\* it ends the process, which is a Crash.
LoadFails ==
    /\ phase = "load"
    /\ phase' = "wait"
    /\ UNCHANGED <<vars, queue, spare, stopChecks, worker, active, bounds, history>>

EndCheck ==
    /\ phase = "check"
    /\ AllJoined
    /\ phase' = "merge"
    /\ queue' = {}
    /\ spare' = NoSpare
    /\ UNCHANGED <<vars, stopChecks, worker, active, bounds, history>>

MergeActive ==
    /\ phase = "merge"
    /\ Merge(Refresher, active)
    /\ phase' = "merging"
    /\ active' = {}
    /\ cooled' = [k \in Keys |-> 0]
    /\ UNCHANGED <<queue, spare, stopChecks, worker, bounds, streak, failed>>

EndMerge ==
    /\ phase = "merging"
    /\ pc[Refresher] = "idle"
    /\ phase' = "recheck"
    /\ UNCHANGED <<vars, queue, spare, stopChecks, worker, active, bounds, history>>

\* disabled_proxies reads the vector once and then one record after the other,
\* while clients go on reporting.  `active` holds the nodes left to look at.
ListNodes ==
    /\ phase = "recheck"
    /\ phase' = "listing"
    /\ active' = Range(proxies)
    /\ UNCHANGED <<vars, queue, spare, stopChecks, worker, bounds, history>>

ListNode(k) ==
    /\ phase = "listing"
    /\ k \in active
    /\ active' = active \ {k}
    /\ queue' = IF failures[k].disabled THEN queue \cup {k} ELSE queue
    /\ UNCHANGED <<vars, phase, spare, stopChecks, worker, bounds, history>>

StartRecheck ==
    /\ phase = "listing"
    /\ active = {}
    /\ \E valid \in TargetOutcomes :
       IF queue = {} \/ ~valid
       THEN /\ phase' = "wait"
            /\ queue' = {}
            /\ UNCHANGED <<stopChecks, worker>>
       ELSE /\ phase' = "rechecking"
            /\ StartWorkers(queue)
    /\ UNCHANGED <<vars, spare, active, bounds, history>>

EndRecheckWithoutFlush ==
    /\ phase = "rechecking"
    /\ AllJoined
    /\ phase' = "flushing"
    /\ queue' = {}
    /\ UNCHANGED <<vars, spare, stopChecks, worker, active, bounds, history>>

\* Every worker joined: flush_pool_state.
EndRecheck ==
    /\ phase = "rechecking"
    /\ AllJoined
    /\ phase' = "flushing"
    /\ queue' = {}
    /\ IF StateEnabled THEN Flush(Refresher) ELSE UNCHANGED vars
    /\ UNCHANGED <<spare, stopChecks, worker, active, bounds, history>>

EndRefresh ==
    /\ phase = "flushing"
    /\ pc[Refresher] = "idle"
    /\ phase' = "wait"
    /\ UNCHANGED <<vars, queue, spare, stopChecks, worker, active, bounds, history>>

\* run_refresh_scheduler: the sleep ends.
NextRefresh ==
    /\ phase = "wait"
    /\ rounds < MaxRounds
    /\ rounds' = rounds + 1
    /\ phase' = "load"
    /\ UNCHANGED <<vars, queue, spare, stopChecks, worker, active, reports, history>>

\* The last refresh of the bound is over: the scheduler sleeps, and a stop in
\* any other place is a deadlock.
LastSleep ==
    /\ phase = "wait"
    /\ rounds = MaxRounds
    /\ UNCHANGED allVars

-----------------------------------------------------------------------------
(* The workers.  The stop flag is read before the queue is locked, so a    *)
(* worker may still take one node after another worker set it.             *)

SetWorker(w, at, k) == worker' = [worker EXCEPT ![w] = [at |-> at, key |-> k]]

CheckStop(w) ==
    /\ worker[w].at = "ready"
    /\ pc[w] = "idle"
    /\ SetWorker(w, IF stopChecks THEN "done" ELSE "take", NoKey)
    /\ UNCHANGED <<vars, phase, queue, spare, stopChecks, active, bounds, history>>

TakeNodeShared(w) ==
    /\ worker[w].at = "take"
    /\ \/ queue = {} /\ SetWorker(w, "done", NoKey)
       \/ \E k \in queue : SetWorker(w, "probing", k)
    /\ UNCHANGED <<vars, phase, queue, spare, stopChecks, active, bounds, history>>

TakeNode(w) ==
    /\ worker[w].at = "take"
    /\ \/ /\ queue = {}
          /\ SetWorker(w, "done", NoKey)
          /\ UNCHANGED <<queue, spare>>
       \/ \E k \in queue :
            /\ IF spare[k] > 0
               THEN spare' = [spare EXCEPT ![k] = @ - 1] /\ UNCHANGED queue
               ELSE queue' = queue \ {k} /\ UNCHANGED spare
            /\ SetWorker(w, "probing", k)
    /\ UNCHANGED <<vars, phase, stopChecks, active, bounds, history>>

ProbeExhaustedBlamed(w) ==
    /\ worker[w].at = "probing"
    /\ stopChecks' = TRUE
    /\ IF phase = "rechecking" /\ failures[worker[w].key].disabled
       THEN RecheckFailure(w, worker[w].key, FALSE) ELSE UNCHANGED vars
    /\ SetWorker(w, "done", NoKey)
    /\ UNCHANGED <<phase, queue, spare, active, bounds, history>>

ProbeExhaustedRetried(w) ==
    /\ worker[w].at = "probing"
    /\ queue' = queue \cup {worker[w].key}
    /\ SetWorker(w, "ready", NoKey)
    /\ UNCHANGED <<vars, phase, spare, stopChecks, active, bounds, history>>

\* check_proxy_node ran out of file descriptors: no verdict on the node.
ProbeExhausted(w) ==
    /\ worker[w].at = "probing"
    /\ stopChecks' = TRUE
    /\ SetWorker(w, "done", NoKey)
    /\ UNCHANGED <<vars, phase, queue, spare, active, bounds, history>>

\* A verdict on a new candidate.
CandidateProbed(w) ==
    /\ phase = "check"
    /\ worker[w].at = "probing"
    /\ \/ active' = active \cup {worker[w].key}
       \/ active' = active
    /\ SetWorker(w, "ready", NoKey)
    /\ UNCHANGED <<vars, phase, queue, spare, stopChecks, bounds, history>>

\* A verdict on a disabled node, reported at once.  The report finds the node
\* no longer disabled when a client task succeeded on it meanwhile.
DisabledHealthy(w) ==
    /\ phase = "rechecking"
    /\ worker[w].at = "probing"
    /\ streak' = [streak EXCEPT ![worker[w].key] = 0]
    /\ IF failures[worker[w].key].disabled
       THEN RecheckSuccess(w, worker[w].key, FALSE) ELSE UNCHANGED vars
    /\ SetWorker(w, "ready", NoKey)
    /\ UNCHANGED <<phase, queue, spare, stopChecks, active, bounds, failed, cooled>>

DisabledUnhealthy(w) ==
    /\ phase = "rechecking"
    /\ worker[w].at = "probing"
    /\ streak' = [streak EXCEPT ![worker[w].key] = @ + 1]
    /\ failed' = [failed EXCEPT ![worker[w].key] = @ + 1]
    /\ IF failures[worker[w].key].disabled
       THEN RecheckFailure(w, worker[w].key, FALSE) ELSE UNCHANGED vars
    /\ SetWorker(w, "ready", NoKey)
    /\ UNCHANGED <<phase, queue, spare, stopChecks, active, bounds, cooled>>

-----------------------------------------------------------------------------
(* Client traffic and the pool's own steps.                                *)

ClientReport(t) ==
    /\ phase # "start"
    /\ reports < MaxReports
    /\ reports' = reports + 1
    /\ ReporterCall(t)
    /\ cooled' = [k \in Keys |->
          IF failures'[k].cooldowns > failures[k].cooldowns THEN cooled[k] + 1
          ELSE cooled[k]]
    /\ UNCHANGED <<phase, queue, spare, stopChecks, worker, active, rounds, streak,
                   failed>>

\* The process dies anywhere in a refresh; main starts over.
Crash ==
    /\ Restart
    /\ phase' = "start"
    /\ queue' = {}
    /\ spare' = NoSpare
    /\ stopChecks' = FALSE
    /\ worker' = [w \in Workers |-> Done]
    /\ active' = {}
    /\ UNCHANGED <<bounds, history>>

PoolStep == (\E t \in Threads : Step(t)) /\ UNCHANGED refreshVars

CooldownEnds == (\E k \in Keys : CooldownElapses(k)) /\ UNCHANGED refreshVars

RefreshStep ==
    \/ \E source \in SUBSET Keys : Load(source)
    \/ LoadFails \/ NoTarget \/ EndCheck \/ MergeActive \/ EndMerge
    \/ ListNodes \/ (\E k \in Keys : ListNode(k)) \/ StartRecheck
    \/ EndRecheck \/ EndRefresh

WorkerStep(w) ==
    \/ CheckStop(w) \/ TakeNode(w) \/ ProbeExhausted(w) \/ CandidateProbed(w)
    \/ DisabledHealthy(w) \/ DisabledUnhealthy(w)

RefreshNext ==
    \/ RefreshStep
    \/ NextRefresh
    \/ LastSleep
    \/ \E w \in Workers : WorkerStep(w)
    \/ \E t \in Reporters : ClientReport(t)
    \/ PoolStep
    \/ CooldownEnds
    \/ Crash

RefreshSpec == RefreshInit /\ [][RefreshNext]_allVars

\* Probes end because every attempt runs under a timeout; the scheduler runs
\* every task that can go on.  Clients owe nothing.
RefreshFairSpec ==
    /\ RefreshSpec
    /\ WF_allVars(RefreshStep)
    /\ \A w \in Workers : WF_allVars(WorkerStep(w))
    /\ \A t \in Threads : WF_allVars(Step(t) /\ UNCHANGED refreshVars)

-----------------------------------------------------------------------------
(* Properties.                                                             *)

RefreshTypeOK ==
    /\ TypeOK
    /\ phase \in Phases
    /\ queue \subseteq Keys
    /\ spare \in [Keys -> Nat]
    /\ stopChecks \in BOOLEAN
    /\ worker \in [Workers -> [at : {"ready", "take", "probing", "done"},
                               key : Keys \cup {NoKey}]]
    /\ active \subseteq Keys
    /\ rounds \in Nat /\ reports \in Nat
    /\ streak \in [Keys -> Nat]
    /\ failed \in [Keys -> Nat]
    /\ cooled \in [Keys -> Nat]

\* README: a node is deleted after three consecutive failed rechecks.  Whatever
\* client tasks report meanwhile, whenever checks are cut short by missing file
\* descriptors and wherever the process dies, a retired node failed that many
\* rechecks, each in a refresh of its own; and in a row, as long as the process
\* was not restarted.  (A crash before the flush forgets a healthy recheck and
\* restores the older count.)
RetiredOnlyAfterConsecutiveFailures ==
    /\ \A k \in retired : failed[k] >= DeleteAfterFailures
    /\ \A k \in Keys : failed[k] <= rounds + restarts
    /\ restarts = 0 => \A k \in retired : streak[k] >= DeleteAfterFailures

\* remove_and_retire returns without saving when the node is not in the vector
\* any more; no worker of a refresh gets there with such a node.
RetiringNodeIsActive ==
    \A w \in Workers :
        pc[w] \in {"dropRecord", "retire"} => op[w].key \in Range(proxies)

\* Results of rechecks are reported without saving.  Once the refresh is over
\* and no save is under way they are on disk.
RefreshIsDurable ==
    phase = "wait" /\ (\A t \in Threads : pc[t] = "idle") => file = Snapshot

\* A disabled node is rechecked by one worker at a time, so that its failures
\* are counted once per refresh, and no worker probes or reports on a node
\* outside the two probing phases.  A candidate that the sources list twice may
\* be probed by two workers at once; the merge takes it once.
OneProbePerNode ==
    /\ phase = "rechecking" => \A v, w \in Workers :
        v # w /\ worker[v].at = "probing" => worker[v].key # worker[w].key
    /\ phase \in {"start", "load", "merge", "recheck", "wait"} =>
        \A w \in Workers : worker[w].at # "probing" /\ pc[w] = "idle"

\* config.toml.example: runtime_disable_after_cooldowns counts "cooldown entries
\* in one refresh cycle".  A client's report that disables a node is preceded
\* by that many cooldowns since the last refresh was merged.
DisabledWithinOneCycle ==
    [][\A k \in Keys :
        ~failures[k].disabled /\ failures'[k].disabled /\ reports' # reports
            => cooled'[k] >= DisableAfterCooldowns
      ]_allVars

\* Every refresh ends, also when all probes time out or descriptors run out.
RefreshEnds == phase # "wait" ~> phase = "wait"

=============================================================================
