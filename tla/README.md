# A TLA+ model of RotatorProxy

RotatorProxy is a TCP proxy that forwards every client connection through one
node of a rotating pool of upstream proxies. This directory models the parts of
it that carry state shared by concurrent tasks: the pool with its locks and its
state file, the refresh that fills it and rechecks it, the outbound connector
that retries over it, the handshake of one dial, the sessions of Hysteria nodes,
the inbound listener, and the loading of the sources that feeds the refresh. TLC
checks the models on small instances; TLAPS proves the main safety properties
for every instance.

Line numbers refer to `src/src/*.rs` of the repository.

## The system

| Part | State | Operations | Talks to |
|---|---|---|---|
| Proxy pool, `proxy.rs` 400-1198 | node vector, retired hashes, disabled hashes, generation (one `RwLock`) | `merge`, `remove_and_retire`, `attempts`, `disabled_proxies` | everything |
| Selection bag, `proxy.rs` 486-510 | generation and remaining indices (one `Mutex`) | `next_index`, `reset` | pool |
| Failure records, `proxy.rs` 417-424 | counters, cooldown, disabled flag per node (64 sharded `Mutex`es) | `report_success`, `report_failure`, `report_disabled_recheck_*`, `is_unavailable` | pool, bag |
| State file, `proxy.rs` 1125-1153, 1376-1414 | available, disabled, retired (one `Mutex` around snapshot and write) | `persist_state`, the constructor | pool |
| Refresh, `health.rs`, `main.rs` | queue and stop flag of a round, its workers | load, probe, merge, recheck, flush, sleep | pool |
| Connector, `outbound.rs` 97-220 | attempts iterator of a request | `connect` | pool |
| Observed stream, `outbound.rs` 222-373 | `response_seen`, `failure_reported` | the poll functions | pool |
| Listener, `server.rs` 27-83 | semaphore, retry delay | accept loop | handlers |
| Handlers, `server.rs` 85-392 | progress of one client | HTTP, SOCKS5, relay | connector |
| Outbound handshakes, `outbound.rs` 375-914 | progress of one dial | HTTP, HTTPS, SOCKS4/5, Shadowsocks, meow | network |
| Loading, `parser.rs` | queue of contents of one file, nodes found | read, decode, parse, download, expand | refresh |
| Adapters, `meow.rs` | none | `build_meow_nodes`, one builder per kind | loading, dials |
| Hysteria adapter, `hysteria.rs` | cached QUIC session (one async `Mutex`) per adapter | `dial_tcp`, XPlus socket | connector, probes |
| Configuration, `config.rs` | none that changes | read and check | everything |
| Mihomo manager, `mihomo.rs` | switched off (README 130) | none called | none |

What is hard about it: every client task, recheck worker and the refresh act on
the pool at the same time, and one operation is several critical sections
(record, then disabled list, then bag, then file). An index is drawn from a bag
that may belong to an older vector. Streams report on nodes long after the pool
changed. Recheck results are saved once per round. The process can die between
any two steps and starts from the file. Permits must survive every error path
of the listener. A proxy's answer comes in pieces and the tunnel begins right
behind it. Downloads fail, bring documents that refer to each other, and are
parsed into fields that another module reads back by name. A dial is dropped by
its timeout at any await.

What makes each part correct:

* pool and bag: a drawn index is inside the vector; no key twice; no retired
  key; a search misses no usable node and ends;
* records: thresholds are neither passed nor lost; the list that is saved is
  the list that is used;
* file: the newest state wins; a saved retirement is final;
* refresh: a node is deleted only after consecutive failed rechecks in
  different rounds; no disabled node is rechecked by two workers at a time;
  results reach the disk; every refresh ends; nodes leave only by retirement;
* connector: distinct nodes, bounded attempts, no silent direct connection, one
  report per dial, an end;
* handshakes: the relay starts at the first byte of the tunnel; the proxy's verdict
  is never misread; a SOCKS5 login is sent when, and only when, it is demanded;
* loading: every chain of downloads is cut at the limit, every load ends, and
  no node of a content that was read is lost on the way;
* Hysteria: a session and its socket never outlive the stream they were made
  for;
* listener: permits conserved, consistent answers, bounded backoff, no client
  lost while a permit is free.

`PROJECT.json` lists the hazards behind these, each at its line.

## The modules

```
ProxyPool ──┬── ProxyPoolProofs
            ├── PoolLife (INSTANCE NodeLife) ──┬── PoolLifeProofs (extends ProxyPoolProofs)
            │                                  └── MCProxyPool
            ├── RefreshCycle ──┬── RefreshCycleProofs
            │                  └── MCRefreshCycle
            └── Connector ──┬── ConnectorProofs
                            └── MCConnector

NodeFormats ── Loader ──┬── LoaderProofs        PoolLife + Loader ── MCStartup
                        └── MCLoader

Server ── ServerProofs
Handshake ── HandshakeProofs                    Server + Handshake + Hysteria ── MCEndpoints
Hysteria ── EndpointsProofs
```

A proofs module extends the component it is about and the proofs it builds on:
`RefreshCycleProofs`, `ConnectorProofs` and `LoaderProofs` extend `PoolLifeProofs`,
the last one `MCStartup` too. `EndpointsProofs` holds the proofs about Hysteria and
those about the composition: it extends `MCEndpoints`, `ServerProofs` and
`HandshakeProofs`.

### ProxyPool

One action per critical section. A thread has a program counter `pc[t]` that
names the critical section it enters next and `op[t]` with the arguments of its
operation, so that, for example, `report_failure` is `ReportFailure` (shard
lock), `PutDisabled` (state lock), `SaveBegin` and `SaveEnd` (persistence lock).
Two locks are held across steps and appear in guards: `next_random_available`
keeps the state lock for reading and the selection lock during a whole scan
(`SelectionHeld`), which keeps writers of the state and resets of the bag out;
`persist_state` keeps the persistence lock from the snapshot to the rename
(`PersistenceHeld`). Shard locks and the short critical sections never block
inside, so they are single steps.

| Code | Model |
|---|---|
| `with_runtime_failure_policy_and_state` | `Init`, `Construct`, `Restart` |
| `next_random_available`, `next_index`, `is_unavailable` | `BeginScan`, `ScanStep` (`Skip`, `HandOut`), `EndScan` |
| `report_success`, `report_failure` | `ReportSuccess`, `ReportFailure`, then the shared sections |
| `report_disabled_recheck_*_deferred` | `RecheckSuccess`, `RecheckFailure`, `DropRecord`, `Retire` |
| `persist_disabled_entry_inner`, `remove_persisted_disabled_inner` | `PutDisabled`, `RemoveDisabled` |
| `reset_selection_to_current_generation`, `reset_selection` | `ReadGeneration`, `ResetSelection` |
| `persist_state`, `save_persisted_pool_state` | `SaveBegin`, `SaveEnd` |
| `merge`, `flush_pool_state` | `Merge`, `Flush` |

Abstractions. A node is its key and a hash is its key. The order of new nodes in
the vector is any order (the code sorts by measured delay). Time exists only as
the end of a cooldown; the clock a scan read before it waited for its locks is
`ripe`, the nodes whose cooldown was over then. A missing record and a record of
zeros behave alike and are one value. The shuffled bag is the set of indices
left. `generation` is a natural number: the code's `u64` wraps after 2^64 pool
changes. Nodes whose persisted form cannot be rebuilt at a start are those
outside `Restorable`. A write replaces the file at once or not at all (temporary
file and rename); the loss of unsynced data at power failure is not modelled.
`unsaved` is a history variable: it marks a state whose save was deferred or
failed.

### NodeLife and PoolLife

`NodeLife` is what the pool promises about a node, without locks, threads and
files: absent, usable, cooling, disabled, retired, which nodes are given up
(`doomed`), and the eight steps between them. A node is given up by `Doom`, only
while it is disabled, and only a node that was given up leaves. Between the two a
client's success may still recover it, and it leaves all the same:
`report_disabled_recheck_failure` decides in one critical section and removes the
record and the node in later ones (proxy.rs 930-958). `PoolLife` reads the status
off the node vector, the retired list and the failure records, and the given-up
nodes off the program counters of the workers that are past the decision
(`GivenUp`, `Doomed`), and instantiates `NodeLife` with both.

### RefreshCycle (extends ProxyPool)

The refresh task as phases (`start`, `load`, `check`, `merge`, `merging`,
`recheck`, `listing`, `rechecking`, `flushing`, `wait`), its workers with their
stop flag and queue, reports of client tasks beside it, and a crash anywhere. The
stop flag is read before the queue is locked, as in the code. A probe with its
attempts and timeouts is one step with the verdict healthy, unhealthy or out of
descriptors. The same workers model both worker pools, which never run at once.
`disabled_proxies` reads the vector once and then record by record. The loaded
candidates are a `Vec` that may list a node several times; `spare` counts the
further copies still queued (at most `MaxCopies` of each), so two workers may probe
one candidate at the same time, and the merge takes it once. (Loader keeps sets of
nodes, as its properties do not depend on copies.) `streak`,
`failed` and `cooled` are history variables: failed rechecks of a node since its
last healthy one and in all, and its cooldowns since the last merge.

### Connector (extends ProxyPool)

A request takes a `ProxyAttempts` iterator, dials, reports, retries, and on
success relays through an observed stream that may see data, an end of file and
errors in any order. Merges, rechecks and retirements of the pool go on
meanwhile. Each connect is explored under each value of `RetryLimits`, as
`max_retries` is read nowhere else.

### Server

The accept loop (`acquire`, `accept`, `sleep`) and a handler per client with the
answers it sent. What clients send and whether a route is found are open.

### Handshake

One dial through a native node after the other: `TcpConnected`, `TlsConnected`,
then a request (`Ask`) and the reads of its answer, one action per `read_exact` and,
for HTTP, one per byte as `read_http_header` does. The proxy (`ProxyAnswers`) and the
network (`BytesArrive`) are external: any verdict, any address form, any split, and
`EarlyBytes` of the tunnel behind a granting answer. Bytes are counted, not spelled
out. `Break` stands for every I/O error, name or encoding error and for the timeout
around the dial. A dial is one step of the Connector; the two are not composed.

### NodeFormats and Loader

`NodeFormats` holds the decisions: of a line, the scheme and which parts are
written; of a Clash entry, its type and which fields it has; of a complex node,
the fields its document got and the form (text or list) of its options. From
these follow, as in the code, native node, complex node, subscription or nothing
(`ParseProxyLine`, `LineMeans`, `EntryMeans`), and whether an adapter is built
(`BuildMeowNode`) and with which options (`HysteriaOptions`). The builder demands
more than the parser: a UUID, a server name or a port other than 0 has to be valid
(`CheckedValues`), and nothing may be set that the adapter does not support
(`plain`); what fails is skipped with a warning. For the Loader, the tables of lines
and entries amount to the sets of meanings a content can have.

`Loader` is `load_proxies_from_paths` and the building behind it, step by step:
path, file, queue, decoding (`DecodeItem`), lines (`ParseLine`) or entries
(`ParseEntry`), the end of an item with the depth limit (`EndParse`), downloads
(`FetchSubscription`), and `BuildNode` for each complex node. Contents are chosen
when they are read or downloaded, so a URL may bring something else each time
and providers may lead in a circle. Errors that end the load (a proxy setting, a
directory, a file) and those that are passed over (a line, an entry, a download)
are told apart as in the code. `hops`, `met` and `build` are history variables:
the downloads behind a content, the nodes met anywhere, the document built last.

### Hysteria

Dials through Hysteria v1 nodes. `AdapterOf` is `connection_scoped_clone`: each
dial has its own adapter, and with it its own session. One action per await of
`dial_tcp`, `connection`, `connect_hysteria` and `connect_addr`; `Cancel` is the
timeout around the dial, `SessionEnds` the network.

A behaviour the code has and no property forbids, as nothing in the repository
says otherwise: with `fast_open` the server's response is never read, so that it
stands in front of the target's data.

## The runs

The runs take from a second to three minutes. `Startup` and `Endpoints`
check components that share no state in one run: a variable `part`, chosen at
the start, says which one moves, so that the states are the sum of theirs.
`expect: violation` runs show where the code departs from what the repository
says.

| Run | Shows |
|---|---|
| `PoolSelection` | two nodes, one thread of each kind, deletion after one failed recheck, so that vectors shrink and grow under a running bag: index safety, distinct nodes, retired stays out, no scan gives up before it saw every node, and every draw brings a scan one step closer to its end |
| `PoolPersistence` | one node, two reporters, a worker and the refresh all saving, failing writes and one crash, thresholds of two: the file follows the state, retirements are durable, records stay consistent, and the pool implements `NodeLife` |
| `Startup` | two nodes of which one cannot be restored, two restarts, failing saves, unreadable files: records and saved disabled list agree; loads over two paths, with contents of two entries and a depth limit of two: bounded expansion, nothing lost, an end |
| `RefreshSafety` | two nodes, two workers, two rounds, a state file and a crash anywhere, deletion after two failures, four client reports in between: a retired node failed two rechecks, in rounds of their own, and in a row without the crash; one recheck worker per node, with candidates listed twice; workers retire nodes of the pool |
| `RefreshOutcome` | state file and a crash: results are durable when a refresh is over; with fairness, every refresh ends |
| `ConnectorSafety` | two requests over two nodes with all maintenance: attempts, direct connections, reports |
| `ConnectorProgress` | every connect ends |
| `Endpoints` | three clients, two permits, accept errors up to the maximal delay: permits, answers, backoff, progress; native dials of every kind, header sizes below, at and above the limit, names of zero to three bytes: alignment, verdict, login; two Hysteria dials with two addresses: sessions |
| `PoolDisabledRace` (violation) | `report_failure` and `report_success` of one node interleave; memory says usable, the file says disabled |
| `RefreshCooldowns` (violation) | cooldowns of different refresh cycles add up, against `config.toml.example` 76 |
| `ConnectorLazyFailure` (violation) | a node that accepts every dial and never answers is not cooled, as long as its streams do not overlap: each dial erases the failure of the stream before |
| `HysteriaOptions` (violation) | the alpn and the obfs password of a Hysteria v1 node do not reach its adapter, against the README 126 |

Bounds. Two nodes are the least with which a bag can hold a stale index, a
request can retry and a source can repeat a key; the safety of selection for any
number is proved. Two reporters (or a reporter and a worker) are the pair every
race of the records needs. Thresholds are one or two where the code has three:
each run has a counter that must be stepped more than once where the property is
about counting. `MaxRestarts`, `MaxRounds`, `MaxReports`, `MaxConnects`,
`MaxErrors` bound counters that the code leaves open; the properties relate
states a few steps apart and the bounds allow every phase to happen again after
a restart, a retirement or a merge. In `Startup` a limit of two lets a content
be found at the limit, below it and next to failed downloads, and a second entry
brings a node and a URL, or two URLs, in one content; the second path a file
after an expanded one. Two Hysteria dials show that one leaves the other's
session alone, two addresses that a failed one is cleaned up before the next.
`MaxCopies` is one in `RefreshSafety`, the least with which two workers can hold
the same candidate, and zero in the runs about outcomes. In `Endpoints`
delays are in units of the initial delay and `MaxErrors` is past the number of
doublings to the maximum. The header limit is 6 instead of 16384; the proofs
have no bound.

Behaviours the runs allow and no property forbids. The last failed recheck deletes
the record of a node before the node leaves the vector (`DropRecord`, `Retire`),
and a scan in between hands the node to one more client. And a client's success
between the last failed recheck and the removal recovers the node, which is then
retired though it is usable.

Fairness. `RefreshFairSpec` and `ConnectorFairSpec` assume weak fairness of the
steps of tasks that can go on: the runtime schedules them, probes and dials run
under timeouts, and no lock is held across an await. Clients, streams, the clock
and maintenance owe nothing. `LoaderFairness` is weak fairness of the refresh
task, whose downloads end with the client's timeout. `ServerFairness` assumes
strong fairness of `Accept`: accept errors may go on for any time but not for
ever. Nothing is assumed of clients, whose reads have no timeout, so progress is
stated up to all permits being held.

## The proofs

`ProxyPoolProofs` proves, for every finite set of keys, every set of threads and all
thresholds, with `ConstantsAssumption` and `ThreadsAssumption`:

* `PoolInvariant`: `Spec => []PoolInv`, and from it `TypeCorrect`, `IndexSafety`,
  `RetiredStaysOut`, `NodesDistinct`;
* `RecordsSound`: the failure records are well formed.

`PoolInv` is inductive. `BagIndicesInRange` alone is not: a thread that is about
to reset the bag carries a generation number it read or made earlier, and the
property would break if that number were ahead of the pool's. Hence
`BagNotAhead` (the bag's generation is not ahead) and `ThreadsSound` (nor is the
one a thread carries, and the key of a retirement is a real key). The generation
only grows when the vector changes, so an old bag never looks current again, and
a reset only ever empties the bag. `NoDuplicateNodes` is needed for the removal
of a key from the vector, and `RetiredNotActive` follows from `Added` and from
the removal. The proof has a lemma per action and lemmas for `Orderings`,
appending and `Without`.

The state file. `PersistInvariant` says that one thread at most writes the file,
and that a state for which no save is due (none pending, none failed or
deferred) is the one being written, or else the one on disk; `FileCurrent` follows.
The second part is needed because a report may change the state while an older
snapshot is being written: it then has a save of its own ahead of it.
`RetirementDurable` adds that the retirements on disk are among those of every
snapshot being written, and those among the pool's. Its hypothesis is
`~LoadsFail`: an unreadable file means an empty state, which the constructor
then saves over it. From the same invariant, `SavedRetirementFinal`: a node whose
retirement reached the disk is never in the pool again. `RestartRestores` is the
round trip of the constructor and `persist_state`: when no save is due, the file is
the pool's state (`PersistInvariant`), and a start on it gives back every node that
can be rebuilt, the disabled ones with their counts, and the retirements. It
needs `RetiredNotActive`, as the constructor drops retired nodes from the file's
list. Failures counted towards a cooldown and cooldowns are not in the file, and a
start forgets them.

The rounds of the bag. `ScansComplete` rests on `RoundInv`: one scan runs at a
time, the bag it finds was drawn from before (or is empty, or stale), so
that what the scan drew and what is left in the bag add up to less than the
vector until the scan refills it, and from then on to exactly the vector with
everything drawn skipped. `ScansEnd` is the termination argument of the same loop,
whose counter goes back to one at a refill: `DrawsLeft`, the rest of the bag the
scan found and then one round, is below twice the number of nodes, goes down by
one with each draw, and is untouched by other threads because of the two locks
(`LocksHold`); the part about a single draw is the action property `ScansCountDown`
of the run `PoolSelection`. It needs `DrawsShort`: the counter of a scan that goes on has not
reached the vector's length, so a second refill cannot happen.

The disabled nodes. `DisabledListsAgree` is false for two reporting threads
(`PoolDisabledRace`). `ListsAgree` proves it for one and no recheck workers, over
any number of nodes, pickers, merges, failed saves and restarts, so the race
between two reports is the only thing that separates the lists there.
`AgreeInv` says that a report between its critical sections writes what the
record says, that every other node of the vector agrees already, and that a
node the pool has not had is not disabled in memory: without this last part a
merge could bring in a record the file does not name.

`RefreshCycleProofs` proves, for every number of nodes, workers and refreshes:

* `RefreshInvariant`. `RefreshInv` says where each kind of thread can be (clients
  ask for a save, workers never do, only workers retire, the refresh task uses
  the pool in two phases), that workers run in the two probing phases only and
  finish a report before they go on, that copies are queued in the check phase only,
  and `HeldOnce`: a node under recheck is in the queue, or with the one worker that
  probes or retires it, and in the pool until that worker takes it out.
  `OneProbePerNode` and `RetiringNodeIsActive` are not
  inductive without it: a second worker with the same node, or one left in the
  queue, could retire it first. From it `RefreshTypes`, `ProbesExclusive`,
  `RetiresActiveNodes`.
* `RefreshUsesPool`: `RefreshSpec => Spec`. The refresh is a caller the pool's
  specification allows, so all theorems about the pool hold under it.
* `RefreshDurable`, if there is a state file and writes do not fail: `UnsavedInv`
  says that a deferred change belongs to the recheck under way or to its flush.
  Without these hypotheses the statement is false: a failed write is only logged.
* `RetiredAfterFailures`, over any number of crashes, failed saves and unreadable
  files: a count of failed rechecks, wherever it is (in a record, in
  `disabled_by_hash`, in the file, in a snapshot being written, carried by a
  thread), is at most the number of failed rechecks of the node in all
  (`TotalsBacked`), so that a retired node, one under way or one in the file
  included, failed the full number; and a refresh, or the part of one a crash cut
  off, adds at most one (`OncePerRound`: a node that still waits for its probe
  has failed in earlier ones only). That the failures came in a row is proved for
  a process that was not restarted (`CountsBacked`, with `SeenOnly` because a merge
  restores a count from `disabled_by_hash`, and a node the pool has not had has
  none). With restarts that part is false: rechecks are saved at the end of the
  refresh, so a crash behind a healthy recheck brings back the count of the failed
  ones before it, and one more failure may then retire the node.
* `RefreshSurvivesCrash`, with a file that can be written and read: a process that
  dies between two refreshes, while nobody reports, starts again with the pool
  the last refresh left (from `RefreshDurable` and `RestartFromSnapshot`).
* `RefreshFollowsLife`: the life cycle of `NodeLife` under the refresh.

`ConnectorProofs` proves `ConnectorInvariant`, and from it `ConnectorTypes`,
`AttemptsBounded`, `NeverDirect`, `BlamedOnce`, for every pool, retry limit and
number of requests. `ConnectorInv` says that the nodes dialed are the ones
passed over, that dials and attempts left add up to the limit, that a scan under
way knows what was tried, so that it cannot hand out a node twice, and at each
stage whether the dial may have been blamed and whether the stream remembers
it. `ConnectorUsesPool` is `ConnectorSpec => Spec`: requests try and report on
nodes the pool has had only (`RequestsSeen`); `RequestsFollowLife` is the life cycle
of `NodeLife` under requests.

`ServerProofs` proves `PermitAccounting`: permits, handlers and the permit in the
accept loop add up to the limit, for every limit and finite set of clients
(`PermitsInvariant`; the cardinality of the handler set changes by one exactly at
`Accept` and `EndTask`). `AnswersFit` rests on what was sent at each stage of a
handler (`HandlersSound`). `BackoffDoubles` has the hypothesis `PowersOfTwo`, the
recursion of `2^n` on the naturals: the provers do not know the operator `^`.
`ServerTypes` is the listener's part of `EndpointsTypeOK`.

`HandshakeProofs` proves `RelayStartsAligned` and `VerdictSound` from `FramingInv`,
with `HandshakeAssumption`. `StreamAligned` alone only speaks of the end; the
invariant says at each stage how far into the answer the dial is (at the start
of a SOCKS answer nothing is read, before the rest of an address exactly that
rest is left, within a header its end is ahead), which is what makes the last
read land on the last byte. `LoginSound` rests on `LoginInv`: which requests are
behind each stage, and that until the method is read a demand is the present
answer and nothing else.

`PoolLifeProofs` proves `PoolImplementsLife`, the refinement of `NodeLife` by the
pool, for every set of keys and threads. Each action of the pool is a step of
the life cycle or leaves the status of every node alone. It uses `PoolInv` and
`SeenInv`: a node the pool never had has no running cooldown, so that it joins
as usable or disabled, and a thread that is about to remove a node carries one
the pool has or had. That a node leaves only after it was given up while disabled
is not in the mapping: the proof gets it from `RecheckFailure`, whose record is
disabled when the last failure is counted. `RefreshFollowsLife` and
`RequestsFollowLife` carry the result to the refresh and to the requests.

`LoaderProofs` proves `LoaderInvariant`, and from it `LoaderTypeCorrect`,
`ExpansionLimited` and `LoadComplete`, for all files, documents and limits.
`DepthInv` says that the depth the code counts is the number of
downloads and that the limit was compared before the URLs of a content were kept;
`AccountInv` says where each node that was met is at each stage (in the result
of the content, in the set of the file, in the merged set, being built), so that
it is in the final sets when the load ends. `StartupGuarantees` says that the
invariants of both parts hold in the composition the run `Startup` checks (with the
hypothesis of `ListsAgree`).

`EndpointsProofs` proves `SessionsOwned`: with the types, and with an adapter per
dial, the property is inductive, also over a timeout at any stage
(`HysteriaInvariant`). `EndpointsTypes` and `EndpointsGuarantees` say that what is
proved of the three parts holds in the composition the run `Endpoints` checks.

Only model-checked:

* the liveness properties, which are out of the prover's reach (`RefreshEnds`,
  `ConnectEnds`, `LoadEnds`, `AcceptedUnlessFull`);
* `DisabledListsAgree` beyond one reporting thread: `ListsAgree` proves it there,
  `PoolDisabledRace` shows that it fails with two.

## Not modelled

* `replace()` and `candidates()`: called by tests only.
* The text of links and documents: how a field is found in a string or in YAML.
  `NodeFormats` has the decisions (which scheme, which parts are demanded, which
  form a value has), so that, for example, `http://host:80` (README 122), whose
  default port the URL library drops and which is then taken for a subscription,
  is just a line without an explicit port.
* Shadowsocks and meow dials, TLS and QUIC: calls of libraries. The options of
  adapters other than Hysteria v1 are only required to be there.
* The XPlus socket of Hysteria (hysteria.rs 451-547): deobfuscation of packets.
  `poll_recv` moves the metadata of a packet behind a dropped one to the front, but
  not its bytes (500-508), and treats a buffer of several datagrams (`stride`) as one.
* Configuration: read once; its checks are the assumptions on constants.
* The Mihomo manager: switched off, nothing calls it.
* The encoding of addresses, relayed bytes (so that bytes a client sends right
  behind its CONNECT header, which the code drops, do not appear), logging, the
  arithmetic of the daily schedule, starvation by an unfair `RwLock`.

## Plan

1. The daily schedule (`health.rs` 586-612) and the status ranges (`config.rs`
   237-275) as operators against reference definitions.
2. The bytes behind a CONNECT header as part of Server's handler.
3. A measure for the expansion of a load, as `DrawsLeft` is one for a scan: it has
   to be a well-founded order on queues of contents, which needs induction over
   data.
