------------------------------ MODULE ProxyPool ------------------------------
(***************************************************************************)
(* The shared proxy pool of src/src/proxy.rs at the granularity of its     *)
(* locks.  A step of a thread is one critical section:                     *)
(*                                                                         *)
(*   state       RwLock over proxies, retired, disabledByHash, generation  *)
(*   selection   Mutex over the random bag                                 *)
(*   shard       Mutex over a slice of the failure records                 *)
(*   persistence Mutex held while a snapshot is taken and written          *)
(*                                                                         *)
(* Critical sections that never block inside are single actions.  The two  *)
(* that do are explicit: next_random_available keeps state (for reading)   *)
(* and selection while it takes one shard after the other (pc "scan"), and *)
(* persist_state keeps persistence while it writes the file (pc "saving"). *)
(*                                                                         *)
(* A node is its key; the SHA-256 of a key stands for the key, so the      *)
(* hashed sets are sets of keys.  The order of the node vector is the      *)
(* order of the sources and only matters through the indices in the bag.   *)
(***************************************************************************)
EXTENDS Integers, Sequences, FiniteSets, Functions

CONSTANTS
    Keys,                   \* node keys
    NoKey,                  \* the key argument of a thread that has none
    Pickers,                \* client tasks while they look for a node
    Reporters,              \* client tasks while they report on one
    Workers,                \* threads that recheck disabled nodes
    Refresher,              \* the thread that merges sources and flushes
    Restorable,             \* keys whose persisted form can be rebuilt
    FailureThreshold,       \* runtime_failure_threshold, at least 1
    DisableAfterCooldowns,  \* runtime_disable_after_cooldowns, at least 1
    DeleteAfterFailures,    \* DEFAULT_DISABLED_RECHECK_DELETE_AFTER_FAILURES
    StateEnabled,           \* state_path is Some(..)
    SavesFail,              \* the file system may refuse a write
    LoadsFail,              \* the state file may be unreadable at a start
    MaxRestarts             \* bound: restarts of the process

Threads == Pickers \cup Reporters \cup Workers \cup {Refresher}

ASSUME ConstantsAssumption ==
    /\ NoKey \notin Keys
    /\ IsFiniteSet(Keys)
    /\ Restorable \subseteq Keys
    /\ FailureThreshold \in Nat \ {0}
    /\ DisableAfterCooldowns \in Nat \ {0}
    /\ DeleteAfterFailures \in Nat \ {0}
    /\ StateEnabled \in BOOLEAN
    /\ SavesFail \in BOOLEAN
    /\ LoadsFail \in BOOLEAN
    /\ MaxRestarts \in Nat

ASSUME ThreadsAssumption ==
    /\ (Pickers \cup Reporters) \cap Workers = {}
    /\ Refresher \notin Pickers \cup Reporters \cup Workers

VARIABLES
    proxies,         \* PoolState.proxies, a vector of keys
    retired,         \* PoolState.retired_hashes
    disabledByHash,  \* PoolState.disabled_by_hash: recheck failures or Absent
    generation,      \* PoolState.generation
    bag,             \* SelectionBag: generation and the indices left to draw
    failures,        \* the failure records of all shards
    file,            \* the state file on disk
    pc,              \* the critical section a thread enters next
    op,              \* arguments and pending work of a thread's operation
    scan,            \* locals of next_random_available
    snap,            \* the snapshot a thread is writing
    unsaved,         \* history: the last change of the state awaits a flush
    restarts         \* bounded by MaxRestarts

poolVars == <<proxies, retired, disabledByHash, generation>>
threadVars == <<pc, op, scan, snap>>
vars == <<poolVars, bag, failures, file, threadVars, unsaved,
          restarts>>

-----------------------------------------------------------------------------
(* Values.  A missing record and a record of zeros are told apart by no    *)
(* operation, so FreshRecord is both.                                      *)

Absent == -1

FailureRecord ==
    [failures : Nat, cooldowns : Nat, cooldown : {"none", "active", "expired"},
     disabled : BOOLEAN, recheckFailures : Nat]

FreshRecord ==
    [failures |-> 0, cooldowns |-> 0, cooldown |-> "none",
     disabled |-> FALSE, recheckFailures |-> 0]

DisabledRecord(n) ==
    [failures |-> 0, cooldowns |-> DisableAfterCooldowns, cooldown |-> "none",
     disabled |-> TRUE, recheckFailures |-> n]

PersistedState ==
    [available : SUBSET Keys, disabled : [Keys -> Nat \cup {Absent}],
     retired : SUBSET Keys]

EmptyFile ==
    [available |-> {}, disabled |-> [k \in Keys |-> Absent], retired |-> {}]

Operation ==
    [key : Keys \cup {NoKey}, count : Nat, gen : Nat,
     save : BOOLEAN, reset : BOOLEAN]

NoOperation ==
    [key |-> NoKey, count |-> 0, gen |-> 0, save |-> FALSE, reset |-> FALSE]

Scan == [tried : SUBSET Keys, ripe : SUBSET Keys, skipped : SUBSET Keys, scanned : Nat]

NoScan == [tried |-> {}, ripe |-> {}, skipped |-> {}, scanned |-> 0]

PCs == {"idle", "scan", "returned", "exhausted", "putDisabled", "rmDisabled",
        "dropRecord", "retire", "reset", "readGeneration", "save", "saving"}

\* The duplicate-free vectors that hold exactly the elements of S.
Orderings(S) == Injection(1..Cardinality(S), S)

\* The vector without key k; the keys of the vector are distinct.
Without(s, k) ==
    LET i == CHOOSE j \in DOMAIN s : s[j] = k
    IN  [j \in 1..(Len(s) - 1) |-> IF j < i THEN s[j] ELSE s[j + 1]]

-----------------------------------------------------------------------------
(* Locks held across steps.                                                *)

\* next_random_available holds state.read() and selection.lock().
SelectionReleased == FALSE
SelectionHeld == \E t \in Threads : pc[t] = "scan"
StateWritable == ~SelectionHeld

\* persist_state holds state_persistence.lock().
PersistenceNeverHeld == FALSE
PersistenceHeld == \E t \in Threads : pc[t] = "saving"

(* What a thread does after a critical section: persist_state if asked and *)
(* a path is configured, then reset_selection_to_current_generation.       *)
Continue(o) ==
    IF o.save /\ StateEnabled THEN "save"
    ELSE IF o.reset THEN "readGeneration" ELSE "idle"

\* Every change of the vector starts a generation.
SameGeneration == generation
NextGeneration == generation + 1

Goto(t, label, o) ==
    /\ pc' = [pc EXCEPT ![t] = label]
    /\ op' = [op EXCEPT ![t] = IF label = "idle" THEN NoOperation ELSE o]

-----------------------------------------------------------------------------
(* The constructor with_runtime_failure_policy_and_state, run on file f.   *)

RestoredKeys(f) == (f.available \cap Restorable) \ f.retired

RestoredHealthy(f) == [k \in Keys |-> FreshRecord]
RestoredRecords(f) ==
    [k \in Keys |->
        IF k \in RestoredKeys(f) /\ f.disabled[k] # Absent
        THEN DisabledRecord(f.disabled[k]) ELSE FreshRecord]

Construct(f) ==
    /\ proxies' \in Orderings(RestoredKeys(f))
    /\ retired' = f.retired
    /\ disabledByHash' = f.disabled
    /\ generation' = 0
    /\ bag' = [generation |-> 0, remaining |-> {}]
    /\ failures' = RestoredRecords(f)
    /\ pc' = [t \in Threads |-> "idle"]
    /\ op' = [t \in Threads |-> NoOperation]
    /\ scan' = [t \in Threads |-> NoScan]
    /\ snap' = [t \in Threads |-> EmptyFile]

\* The first start finds no state file.
Init ==
    /\ proxies = <<>>
    /\ retired = {}
    /\ disabledByHash = [k \in Keys |-> Absent]
    /\ generation = 0
    /\ bag = [generation |-> 0, remaining |-> {}]
    /\ failures = [k \in Keys |-> FreshRecord]
    /\ file = EmptyFile
    /\ pc = [t \in Threads |-> "idle"]
    /\ op = [t \in Threads |-> NoOperation]
    /\ scan = [t \in Threads |-> NoScan]
    /\ snap = [t \in Threads |-> EmptyFile]
    /\ unsaved = FALSE
    /\ restarts = 0

\* load_persisted_pool_state: an error means an empty state.
LoadedStates ==
    {f \in {file, EmptyFile} : IF StateEnabled THEN f = file \/ LoadsFail
                              ELSE f = EmptyFile}

\* The process dies between any two steps and starts again.  The constructor
\* runs before any thread; its persist_state may fail like any other.
Restart ==
    /\ restarts < MaxRestarts
    /\ restarts' = restarts + 1
    /\ \E f \in LoadedStates :
        /\ Construct(f)
        /\ \/ /\ file' = IF StateEnabled
                         THEN [f EXCEPT !.available = RestoredKeys(f)]
                         ELSE file
              /\ unsaved' = FALSE
           \/ SavesFail /\ file' = file /\ unsaved' = TRUE

-----------------------------------------------------------------------------
(* next_random_available(tried): one bag draw and one shard per step.      *)

\* is_unavailable on a record; an expired cooldown is not one.
Unavailable(r) == r.disabled \/ r.cooldown = "active"

\* The write is_unavailable and report_failure do once a cooldown is over.
\* The count of cooldowns survives it.
Thawed(r) ==
    IF r.cooldown = "expired"
    THEN [r EXCEPT !.failures = 0, !.cooldown = "none"] ELSE r

\* `now` is read before the locks are waited for: a cooldown that ends between
\* that moment and the check is still seen running.  ripe holds the nodes
\* whose cooldown was over at `now`.
BeginScan(t, tried) ==
    /\ pc[t] = "idle"
    /\ ~SelectionHeld
    /\ pc' = [pc EXCEPT ![t] = IF proxies = <<>> THEN "exhausted" ELSE "scan"]
    /\ \E ripe \in SUBSET {k \in Keys : failures[k].cooldown = "expired"} :
        scan' = [scan EXCEPT ![t].tried = tried, ![t].ripe = ripe]
    /\ UNCHANGED <<poolVars, bag, failures, file, op, snap, unsaved,
                   restarts>>

\* SelectionBag::next_index, refilling the bag when it is empty or stale.
MustRefill == bag.generation # generation \/ bag.remaining = {}
Drawable == IF MustRefill THEN DOMAIN proxies ELSE bag.remaining
DrawCountNotReset(t) == scan[t].scanned + 1
DrawCountFromZero(t) == IF MustRefill THEN 0 ELSE scan[t].scanned + 1
DrawCount(t) == IF MustRefill THEN 1 ELSE scan[t].scanned + 1

Skip(t, k) ==
    /\ pc' = [pc EXCEPT ![t] = IF DrawCount(t) >= Len(proxies)
                               THEN "exhausted" ELSE "scan"]
    /\ scan' = [scan EXCEPT ![t].skipped = @ \cup {k},
                            ![t].scanned = DrawCount(t)]
    /\ UNCHANGED <<failures, op>>

HandOut(t, k) ==
    /\ pc' = [pc EXCEPT ![t] = "returned"]
    /\ op' = [op EXCEPT ![t].key = k]
    /\ failures' = [failures EXCEPT ![k] = Thawed(@)]
    /\ UNCHANGED scan

PassedOver(t, k) ==
    \/ k \in scan[t].tried
    \/ Unavailable(failures[k])
    \/ failures[k].cooldown = "expired" /\ k \notin scan[t].ripe

ScanStep(t) ==
    /\ pc[t] = "scan"
    /\ \E i \in Drawable :
        /\ bag' = [generation |-> generation, remaining |-> Drawable \ {i}]
        /\ IF PassedOver(t, proxies[i])
           THEN Skip(t, proxies[i])
           ELSE HandOut(t, proxies[i])
    /\ UNCHANGED <<poolVars, file, snap, unsaved, restarts>>

\* The caller takes the result of the scan.
EndScan(t) ==
    /\ pc[t] \in {"returned", "exhausted"}
    /\ Goto(t, "idle", NoOperation)
    /\ scan' = [scan EXCEPT ![t] = NoScan]
    /\ UNCHANGED <<poolVars, bag, failures, file, snap, unsaved,
                   restarts>>

-----------------------------------------------------------------------------
(* Runtime reports of the request threads.                                 *)

NewOperation(k, n, save, reset) ==
    [key |-> k, count |-> n, gen |-> 0, save |-> save, reset |-> reset]

ReportSuccess(t, k) ==
    /\ pc[t] = "idle"
    /\ failures' = [failures EXCEPT ![k] = FreshRecord]
    /\ Goto(t, IF failures[k].disabled \/ failures[k].recheckFailures > 0
               THEN "rmDisabled" ELSE "idle",
            NewOperation(k, 0, TRUE, FALSE))
    /\ UNCHANGED <<poolVars, bag, file, scan, snap, unsaved, restarts>>

\* runtime_failure_threshold is reached by n failures.
PastThreshold(n) == n > FailureThreshold
AtThreshold(n) == n >= FailureThreshold

\* The record after one more failure, counted on a record that is not disabled.
Failed(r) ==
    LET s == Thawed(r)
        n == s.failures + 1
        c == s.cooldowns + 1
    IN  IF ~AtThreshold(n) THEN [s EXCEPT !.failures = n]
        ELSE IF c < DisableAfterCooldowns
        THEN [s EXCEPT !.failures = 0, !.cooldowns = c, !.cooldown = "active"]
        ELSE [s EXCEPT !.failures = 0, !.cooldowns = c, !.cooldown = "none",
                       !.disabled = TRUE, !.recheckFailures = 0]

ReportFailure(t, k) ==
    /\ pc[t] = "idle"
    /\ LET r == failures[k]
           n == IF r.disabled THEN r ELSE Failed(r)
       IN  /\ failures' = [failures EXCEPT ![k] = n]
           /\ Goto(t, IF n.disabled /\ ~r.disabled THEN "putDisabled" ELSE "idle",
                    NewOperation(k, 0, TRUE, FALSE))
    /\ UNCHANGED <<poolVars, bag, file, scan, snap, unsaved, restarts>>

\* Instant::now() passes cooldown_until.
CooldownElapses(k) ==
    /\ failures[k].cooldown = "active"
    /\ failures' = [failures EXCEPT ![k].cooldown = "expired"]
    /\ UNCHANGED <<poolVars, bag, file, threadVars, unsaved, restarts>>

-----------------------------------------------------------------------------
(* Reports of the recheck workers.  persist is FALSE in the deferred forms *)
(* the refresh uses: it flushes once at the end.                           *)

RecheckSuccess(t, k, persist) ==
    /\ pc[t] = "idle"
    /\ failures[k].disabled
    /\ failures' = [failures EXCEPT ![k] = FreshRecord]
    /\ Goto(t, "rmDisabled", NewOperation(k, 0, persist, TRUE))
    /\ UNCHANGED <<poolVars, bag, file, scan, snap, unsaved, restarts>>

RecheckFailureUnchecked(t, k, persist) ==
    /\ pc[t] = "idle"
    /\ LET n == failures[k].recheckFailures + 1
       IN  /\ failures' = [failures EXCEPT ![k].recheckFailures = n]
           /\ Goto(t, IF n >= DeleteAfterFailures THEN "dropRecord"
                      ELSE "putDisabled",
                   NewOperation(k, n, persist, FALSE))
    /\ UNCHANGED <<poolVars, bag, file, scan, snap, unsaved, restarts>>

RecheckFailure(t, k, persist) ==
    /\ pc[t] = "idle"
    /\ failures[k].disabled
    /\ LET n == failures[k].recheckFailures + 1
       IN  /\ failures' = [failures EXCEPT ![k].recheckFailures = n]
           /\ Goto(t, IF n >= DeleteAfterFailures THEN "dropRecord"
                      ELSE "putDisabled",
                   NewOperation(k, n, persist, FALSE))
    /\ UNCHANGED <<poolVars, bag, file, scan, snap, unsaved, restarts>>

\* The second critical section of a removal: the record goes first ...
DropRecord(t) ==
    /\ pc[t] = "dropRecord"
    /\ failures' = [failures EXCEPT ![op[t].key] = FreshRecord]
    /\ Goto(t, "retire", op[t])
    /\ UNCHANGED <<poolVars, bag, file, scan, snap, unsaved, restarts>>

\* ... and remove_and_retire takes the node out of the pool.  A key that is
\* no longer in the vector returns before persist_state.
Retire(t) ==
    /\ pc[t] = "retire"
    /\ StateWritable
    /\ LET k == op[t].key IN
        /\ disabledByHash' = [disabledByHash EXCEPT ![k] = Absent]
        /\ retired' = retired \cup {k}
        /\ IF k \in Range(proxies)
           THEN /\ proxies' = Without(proxies, k)
                /\ generation' = NextGeneration
                /\ Goto(t, "reset", [op[t] EXCEPT !.gen = NextGeneration])
                /\ unsaved' = (unsaved \/ ~op[t].save)
           ELSE /\ UNCHANGED <<proxies, generation>>
                /\ Goto(t, "idle", NoOperation)
                /\ unsaved' = TRUE
    /\ UNCHANGED <<bag, failures, file, scan, snap, restarts>>

-----------------------------------------------------------------------------
(* Critical sections shared by several operations.                         *)

\* persist_disabled_entry_inner and remove_persisted_disabled_inner.
WriteDisabled(t, label, n) ==
    /\ pc[t] = label
    /\ StateWritable
    /\ disabledByHash' = [disabledByHash EXCEPT ![op[t].key] = n]
    /\ unsaved' = (unsaved \/ ~op[t].save)
    /\ Goto(t, Continue(op[t]), op[t])
    /\ UNCHANGED <<proxies, retired, generation, bag, failures, file, scan, snap,
                   restarts>>

PutDisabled(t) == WriteDisabled(t, "putDisabled", op[t].count)
RemoveDisabled(t) == WriteDisabled(t, "rmDisabled", Absent)

ReadGeneration(t) ==
    /\ pc[t] = "readGeneration"
    /\ Goto(t, "reset", [op[t] EXCEPT !.gen = generation, !.reset = FALSE])
    /\ UNCHANGED <<poolVars, bag, failures, file, scan, snap, unsaved,
                   restarts>>

ResetSelection(t) ==
    /\ pc[t] = "reset"
    /\ ~SelectionHeld
    /\ bag' = [generation |-> op[t].gen, remaining |-> {}]
    /\ Goto(t, Continue(op[t]), op[t])
    /\ UNCHANGED <<poolVars, failures, file, scan, snap, unsaved,
                   restarts>>

-----------------------------------------------------------------------------
(* persist_state: the snapshot is taken after the persistence lock.        *)

Snapshot ==
    [available |-> Range(proxies), disabled |-> disabledByHash,
     retired |-> retired]

SaveBegin(t) ==
    /\ pc[t] = "save"
    /\ ~PersistenceHeld
    /\ snap' = [snap EXCEPT ![t] = Snapshot]
    /\ unsaved' = FALSE
    /\ Goto(t, "saving", [op[t] EXCEPT !.save = FALSE])
    /\ UNCHANGED <<poolVars, bag, failures, file, scan, restarts>>

\* The temporary file replaces the state file in one rename, or an error at
\* any point leaves the old file and is only logged.
SaveEnd(t) ==
    /\ pc[t] = "saving"
    /\ \/ file' = snap[t] /\ unsaved' = unsaved
       \/ SavesFail /\ file' = file /\ unsaved' = TRUE
    /\ snap' = [snap EXCEPT ![t] = EmptyFile]
    /\ Goto(t, Continue(op[t]), op[t])
    /\ UNCHANGED <<poolVars, bag, failures, scan, restarts>>

-----------------------------------------------------------------------------
(* Operations of the refresh.                                              *)

\* Neither a retired key nor one in the pool is added.
AddedDespiteRetirement(source) == source \ Range(proxies)
AddedDespitePresence(source) == source \ retired
Added(source) == source \ (retired \cup Range(proxies))

\* New nodes go behind the old ones.
Appended(added) == {proxies \o tail : tail \in Orderings(added)}

Merge(t, source) ==
    /\ pc[t] = "idle"
    /\ StateWritable
    /\ LET added == Added(source)
           label == IF StateEnabled THEN "save" ELSE "idle"
       IN  /\ failures' = [k \in Keys |->
                 IF k \in added /\ disabledByHash[k] # Absent
                 THEN DisabledRecord(disabledByHash[k]) ELSE failures[k]]
           /\ IF added # {}
              THEN /\ proxies' \in Appended(added)
                   /\ generation' = NextGeneration
                   /\ Goto(t, "reset", [NewOperation(NoKey, 0, TRUE, FALSE)
                                           EXCEPT !.gen = NextGeneration])
              ELSE /\ UNCHANGED <<proxies, generation>>
                   /\ Goto(t, label, NewOperation(NoKey, 0, TRUE, FALSE))
    /\ UNCHANGED <<retired, disabledByHash, bag, file, scan, snap, unsaved, restarts>>

\* flush_pool_state at the end of a recheck round.
Flush(t) ==
    /\ pc[t] = "idle"
    /\ StateEnabled
    /\ Goto(t, "save", NewOperation(NoKey, 0, TRUE, FALSE))
    /\ UNCHANGED <<poolVars, bag, failures, file, scan, snap, unsaved,
                   restarts>>

-----------------------------------------------------------------------------
(* The threads.  Client tasks report on any node the pool has had, at any  *)
(* later time: a stream outlives the attempt that opened it, and the node  *)
(* may have been retired meanwhile.  A task that picks and then reports is *)
(* a picker followed by a reporter.  Workers recheck the nodes of an older *)
(* disabled_proxies snapshot.                                              *)

NodesSeen == Range(proxies) \cup retired

PickerCall(t) == \E tried \in SUBSET NodesSeen : BeginScan(t, tried)

ReporterCall(t) ==
    \E k \in NodesSeen : ReportSuccess(t, k) \/ ReportFailure(t, k)

WorkerCall(t) ==
    \E k \in NodesSeen :
        RecheckSuccess(t, k, FALSE) \/ RecheckFailure(t, k, FALSE)

RefresherCall(t) == Flush(t) \/ \E source \in SUBSET Keys : Merge(t, source)

Step(t) ==
    \/ ScanStep(t) \/ EndScan(t)
    \/ PutDisabled(t) \/ RemoveDisabled(t) \/ DropRecord(t) \/ Retire(t)
    \/ ReadGeneration(t) \/ ResetSelection(t)
    \/ SaveBegin(t) \/ SaveEnd(t)

Next ==
    \/ \E t \in Pickers : PickerCall(t)
    \/ \E t \in Reporters : ReporterCall(t)
    \/ \E t \in Workers : WorkerCall(t)
    \/ RefresherCall(Refresher)
    \/ \E t \in Threads : Step(t)
    \/ \E k \in Keys : CooldownElapses(k)
    \/ Restart

Spec == Init /\ [][Next]_vars

-----------------------------------------------------------------------------
(* Properties.                                                             *)

\* Every variable has its type: the node vector holds known keys, records and
\* snapshots are well formed, each thread is at a known critical section.
TypeOK ==
    /\ proxies \in Seq(Keys)
    /\ retired \subseteq Keys
    /\ disabledByHash \in [Keys -> Nat \cup {Absent}]
    /\ generation \in Nat
    /\ bag \in [generation : Nat, remaining : SUBSET Nat]
    /\ failures \in [Keys -> FailureRecord]
    /\ file \in PersistedState
    /\ pc \in [Threads -> PCs]
    /\ op \in [Threads -> Operation]
    /\ scan \in [Threads -> Scan]
    /\ snap \in [Threads -> PersistedState]
    /\ unsaved \in BOOLEAN
    /\ restarts \in Nat

\* next_random_available indexes the node vector with an index drawn from a
\* bag that may have been filled, or reset to a generation read, before other
\* threads merged or retired nodes.  Whenever the bag is believed current its
\* indices are inside the vector: `state.proxies[index]` cannot panic (and so
\* cannot poison the state and selection locks).
BagIndicesInRange ==
    bag.generation = generation => bag.remaining \subseteq DOMAIN proxies

\* Merging and restoring never put a key into the pool twice, so one node
\* never gets more than one share of a round.
NoDuplicateNodes == IsInjective(proxies)

\* A node retired after its last failed recheck is out of the rotation and no
\* merge, restore or late report brings it back.
RetiredNotActive == Range(proxies) \cap retired = {}

\* No generation the bag is at, or is about to be reset to, is ahead of the
\* pool's: a stale reset can only make the next draw refill the bag.
BagNotAhead == bag.generation <= generation

ThreadSound(label, o) ==
    /\ label = "reset" => o.gen <= generation
    /\ label \in {"dropRecord", "retire"} => o.key \in Keys

ThreadsSound == \A t \in Threads : ThreadSound(pc[t], op[t])

\* The inductive invariant behind the safety of selection.
PoolInv ==
    /\ TypeOK
    /\ NoDuplicateNodes
    /\ RetiredNotActive
    /\ BagIndicesInRange
    /\ BagNotAhead
    /\ ThreadsSound

WellFormed(r) ==
    /\ r.failures < FailureThreshold
    /\ ~r.disabled => r.cooldowns < DisableAfterCooldowns /\ r.recheckFailures = 0
    /\ r.disabled => r.cooldown = "none" /\ r.failures = 0
    /\ r.cooldown # "none" => r.cooldowns > 0

\* The counters of a failure record stay below their thresholds unless the
\* node is disabled, and only a disabled node has recheck failures and no
\* cooldown: however reports of several threads interleave, a threshold is
\* never jumped over and no half-reset record is left behind.
RecordsWellFormed == \A k \in Keys : WellFormed(failures[k])

\* A scan gives up only after it looked at every node of the vector it holds
\* locked and found each one tried or unavailable, wherever in a round the
\* bag was when the scan began: a usable node is never missed.
ExhaustedOnlyAfterAllSkipped ==
    [][\A t \in Threads :
        pc[t] = "scan" /\ pc'[t] = "exhausted" => scan'[t].skipped = Range(proxies)
      ]_vars

BagCurrent == bag.generation = generation

\* What is left of a scan: the draws it can still make before it has looked at
\* every node.  Indices of a current bag that were left over by an earlier scan
\* come first and do not count towards the round the scan has to complete.
DrawsLeft(t) ==
    LET n == Len(proxies)
        left == Cardinality(bag.remaining)
    IN  IF ~BagCurrent THEN n
        ELSE IF scan[t].scanned + left = n THEN left ELSE left + n

DrawsCount ==
    \A t \in Threads : pc[t] = "scan" /\ pc'[t] = "scan" =>
        IF ScanStep(t) THEN DrawsLeft(t)' = DrawsLeft(t) - 1
        ELSE DrawsLeft(t)' = DrawsLeft(t)

\* next_random_available loops with two locks held, on a counter that the bag
\* sets back to one at a refill.  A scan that goes on after a draw has exactly
\* one draw less left, and no merge, retirement or reset of the bag by another
\* thread gives it more: it ends, and does not keep the locks for ever.
ScansCountDown == [][DrawsCount]_vars

\* The state file is the pool's state whenever no save is pending or running
\* and none failed or was deferred: two concurrent saves never leave the
\* older snapshot on disk.
FileFollowsState ==
    \/ ~StateEnabled
    \/ unsaved
    \/ \E t \in Threads : pc[t] \in {"save", "saving"} \/ op[t].save
    \/ file = Snapshot

\* A retirement that reached the disk is never undone by a later write, be it
\* a concurrent save or the constructor after a crash.
RetirementIsDurable == [][file.retired \subseteq file'.retired]_vars

\* The failure records (what the rotation skips) and disabled_by_hash (what is
\* saved and restored) name the same disabled nodes whenever no operation is
\* in flight.  The two are written in separate critical sections.
DisabledListsAgree ==
    (\A t \in Threads : pc[t] = "idle") =>
        \A k \in Range(proxies) :
            failures[k].disabled <=> disabledByHash[k] # Absent

=============================================================================
