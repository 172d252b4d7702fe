------------------------------ MODULE Connector ------------------------------
(***************************************************************************)
(* Connector::connect of src/src/outbound.rs and the stream it returns, on *)
(* top of the pool.  A request asks the pool for a ProxyAttempts iterator, *)
(* dials one node after the other and reports the outcome of each dial; on *)
(* success the connection is wrapped in a RuntimeObservedStream, which     *)
(* keeps watching for a failure before the first response.                 *)
(*                                                                         *)
(* A request is one task: it picks and it reports, so it is a picker and a *)
(* reporter of the pool.  Handshakes (HTTP, SOCKS, Shadowsocks, meow) are  *)
(* one dial whose outcome is the network's.  Refreshes and rechecks change *)
(* the pool under the requests.                                            *)
(***************************************************************************)
EXTENDS ProxyPool

CONSTANTS
    RetryLimits,   \* values of max_retries, 0 for no limit of its own
    MaxConnects    \* bound: connects of all requests together

Requests == Pickers

ASSUME ConnectorAssumption ==
    /\ Pickers = Reporters
    /\ RetryLimits \subseteq Nat
    /\ MaxConnects \in Nat

VARIABLES
    conn,      \* per request: its iterator, its node and its stream
    connects,  \* bounded by MaxConnects
    history,   \* per request: dials and failure reports of the last connect
    unanswered \* history: streams of a node in a row that failed unanswered

connectorVars == <<conn, connects, history, unanswered>>
allVars == <<vars, connectorVars>>

Stages == {"idle", "next", "picking", "dialing", "open", "draining",
           "failed", "closed"}

Connection ==
    [stage : Stages, tried : SUBSET Keys, remaining : Nat,
     direct : BOOLEAN,          \* direct_pending
     key : Keys \cup {NoKey},   \* the choice; NoKey is ProxyChoice::Direct
     seen : BOOLEAN,            \* response_seen
     reported : BOOLEAN]        \* failure_reported

NoConnection ==
    [stage |-> "idle", tried |-> {}, remaining |-> 0, direct |-> FALSE,
     key |-> NoKey, seen |-> FALSE, reported |-> FALSE]

NoHistory ==
    [dials |-> 0, nodes |-> {}, size |-> 0, retries |-> 0, blames |-> 0]

ConnectorInit ==
    /\ Init
    /\ conn = [r \in Requests |-> NoConnection]
    /\ connects = 0
    /\ history = [r \in Requests |-> NoHistory]
    /\ unanswered = [k \in Keys |-> 0]

-----------------------------------------------------------------------------
(* ProxyAttempts.                                                          *)

\* The number of nodes ProxyPool::attempts allows for a pool of n.
AttemptLimit(n, retries) == IF retries = 0 \/ n < retries THEN n ELSE retries

\* attempts: an empty pool means one direct connection.  It is the only place
\* that reads max_retries, so each connect is explored under each value.
Connect(r) ==
    /\ conn[r].stage = "idle"
    /\ connects < MaxConnects
    /\ connects' = connects + 1
    /\ \E retries \in RetryLimits :
        /\ conn' = [conn EXCEPT ![r] =
              IF proxies = <<>>
              THEN [NoConnection EXCEPT !.stage = "next", !.remaining = 1,
                                        !.direct = TRUE]
              ELSE [NoConnection EXCEPT !.stage = "next",
                        !.remaining = AttemptLimit(Len(proxies), retries)]]
        /\ history' = [history EXCEPT ![r] =
              [NoHistory EXCEPT !.size = Len(proxies), !.retries = retries]]
    /\ UNCHANGED <<vars, unanswered>>

NextDirectWhenEmpty(r) ==
    /\ conn[r].stage = "next"
    /\ pc[r] = "idle"
    /\ conn[r].direct \/ proxies = <<>>
    /\ conn' = [conn EXCEPT ![r].direct = FALSE, ![r].remaining = 0,
                            ![r].key = NoKey, ![r].stage = "dialing"]
    /\ history' = [history EXCEPT ![r].dials = @ + 1]
    /\ UNCHANGED <<vars, connects, unanswered>>

\* ProxyAttempts::next up to the scan of the pool.
NextDirect(r) ==
    /\ conn[r].stage = "next"
    /\ pc[r] = "idle"
    /\ conn[r].direct
    /\ conn' = [conn EXCEPT ![r].direct = FALSE, ![r].remaining = 0,
                            ![r].key = NoKey, ![r].stage = "dialing"]
    /\ history' = [history EXCEPT ![r].dials = @ + 1]
    /\ UNCHANGED <<vars, connects, unanswered>>

NextNone(r) ==
    /\ conn[r].stage = "next"
    /\ pc[r] = "idle"
    /\ ~conn[r].direct /\ conn[r].remaining = 0
    /\ conn' = [conn EXCEPT ![r].stage = "failed"]
    /\ UNCHANGED <<vars, connects, history, unanswered>>

NextScanUnlimited(r) ==
    /\ conn[r].stage = "next"
    /\ ~conn[r].direct
    /\ BeginScan(r, conn[r].tried)
    /\ conn' = [conn EXCEPT ![r].stage = "picking"]
    /\ UNCHANGED <<connects, history, unanswered>>

NextScan(r) ==
    /\ conn[r].stage = "next"
    /\ ~conn[r].direct /\ conn[r].remaining > 0
    /\ BeginScan(r, conn[r].tried)
    /\ conn' = [conn EXCEPT ![r].stage = "picking"]
    /\ UNCHANGED <<connects, history, unanswered>>

PickedForgotten(r) ==
    /\ conn[r].stage = "picking"
    /\ pc[r] = "returned"
    /\ EndScan(r)
    /\ conn' = [conn EXCEPT ![r].remaining = @ - 1,
                            ![r].key = op[r].key, ![r].stage = "dialing"]
    /\ history' = [history EXCEPT ![r].dials = @ + 1, ![r].blames = 0,
                                  ![r].nodes = @ \cup {op[r].key}]
    /\ UNCHANGED <<connects, unanswered>>

\* ... and from its result on.
Picked(r) ==
    /\ conn[r].stage = "picking"
    /\ pc[r] = "returned"
    /\ EndScan(r)
    /\ conn' = [conn EXCEPT ![r].tried = @ \cup {op[r].key},
                            ![r].remaining = @ - 1,
                            ![r].key = op[r].key, ![r].stage = "dialing"]
    /\ history' = [history EXCEPT ![r].dials = @ + 1, ![r].blames = 0,
                                  ![r].nodes = @ \cup {op[r].key}]
    /\ UNCHANGED <<connects, unanswered>>

NothingPicked(r) ==
    /\ conn[r].stage = "picking"
    /\ pc[r] = "exhausted"
    /\ EndScan(r)
    /\ conn' = [conn EXCEPT ![r].stage = "failed"]
    /\ UNCHANGED <<connects, history, unanswered>>

-----------------------------------------------------------------------------
(* The loop of connect.  report_success and report_failure return at once  *)
(* for ProxyChoice::Direct.                                                *)

Observed(r) == conn[r].key # NoKey

DialSucceeds(r) ==
    /\ conn[r].stage = "dialing"
    /\ IF Observed(r) THEN ReportSuccess(r, conn[r].key) ELSE UNCHANGED vars
    /\ conn' = [conn EXCEPT ![r].stage = "open"]
    /\ UNCHANGED <<connects, history, unanswered>>

\* connect_once returns an error or the timeout expires.
DialFails(r) ==
    /\ conn[r].stage = "dialing"
    /\ IF Observed(r) THEN ReportFailure(r, conn[r].key) ELSE UNCHANGED vars
    /\ conn' = [conn EXCEPT ![r].stage = "next"]
    /\ history' = [history EXCEPT ![r].blames = @ + 1]
    /\ UNCHANGED <<connects, unanswered>>

\* No descriptor left: the request ends and nobody is blamed.
DialExhausted(r) ==
    /\ conn[r].stage = "dialing"
    /\ conn' = [conn EXCEPT ![r].stage = "failed"]
    /\ UNCHANGED <<vars, connects, history, unanswered>>

-----------------------------------------------------------------------------
(* RuntimeObservedStream under copy_bidirectional.  An end of file from    *)
(* the node closes one direction and leaves the other running; an error    *)
(* ends the copy.  A direct stream is not observed.                        *)

ReceiveData(r) ==
    /\ conn[r].stage = "open"
    /\ pc[r] = "idle"
    /\ conn' = [conn EXCEPT ![r].seen = TRUE]
    /\ unanswered' = [k \in Keys |-> IF k = conn[r].key THEN 0 ELSE unanswered[k]]
    /\ UNCHANGED <<vars, connects, history>>

ReportEveryFailure(r, stage) ==
    IF Observed(r) /\ ~conn[r].seen
    THEN /\ ReportFailure(r, conn[r].key)
         /\ conn' = [conn EXCEPT ![r].stage = stage]
         /\ history' = [history EXCEPT ![r].blames = @ + 1]
         /\ UNCHANGED unanswered
    ELSE /\ conn' = [conn EXCEPT ![r].stage = stage]
         /\ UNCHANGED <<vars, history, unanswered>>

\* report_pre_response_failure, after the tests of its two callers.
ReportPreResponseFailure(r, stage) ==
    IF Observed(r) /\ ~conn[r].seen /\ ~conn[r].reported
    THEN /\ ReportFailure(r, conn[r].key)
         /\ conn' = [conn EXCEPT ![r].stage = stage, ![r].reported = TRUE]
         /\ history' = [history EXCEPT ![r].blames = @ + 1]
         /\ unanswered' = [unanswered EXCEPT ![conn[r].key] =
               IF @ < FailureThreshold THEN @ + 1 ELSE @]
    ELSE /\ conn' = [conn EXCEPT ![r].stage = stage]
         /\ UNCHANGED <<vars, history, unanswered>>

ReadEof(r) ==
    /\ conn[r].stage = "open"
    /\ pc[r] = "idle"
    /\ ReportPreResponseFailure(r, "draining")
    /\ UNCHANGED connects

\* An error of poll_read, poll_write, poll_flush or poll_shutdown.
StreamError(r) ==
    /\ conn[r].stage \in {"open", "draining"}
    /\ pc[r] = "idle"
    /\ ReportPreResponseFailure(r, "closed")
    /\ UNCHANGED connects

\* The copy ends for a reason the stream does not see: both directions are
\* done, or the client's socket failed.
CloseStream(r) ==
    /\ conn[r].stage \in {"open", "draining"}
    /\ pc[r] = "idle"
    /\ conn' = [conn EXCEPT ![r].stage = "closed"]
    /\ UNCHANGED <<vars, connects, history, unanswered>>

\* The task ends; another one takes its place.
Finish(r) ==
    /\ conn[r].stage \in {"failed", "closed"}
    /\ pc[r] = "idle"
    /\ conn' = [conn EXCEPT ![r] = NoConnection]
    /\ history' = [history EXCEPT ![r] = NoHistory]
    /\ UNCHANGED <<vars, connects, unanswered>>

-----------------------------------------------------------------------------
(* The pool's other users, and the steps inside its operations.  The       *)
(* result of a scan is taken by the request (Picked, NothingPicked).       *)

PoolStep(t) ==
    /\ \/ ScanStep(t)
       \/ PutDisabled(t) \/ RemoveDisabled(t) \/ DropRecord(t) \/ Retire(t)
       \/ ReadGeneration(t) \/ ResetSelection(t)
       \/ SaveBegin(t) \/ SaveEnd(t)
    /\ UNCHANGED connectorVars

Maintenance ==
    /\ \/ RefresherCall(Refresher)
       \/ \E w \in Workers : WorkerCall(w)
       \/ \E k \in Keys : CooldownElapses(k)
    /\ UNCHANGED connectorVars

ConnectStep(r) ==
    \/ NextDirect(r) \/ NextNone(r) \/ NextScan(r) \/ Picked(r) \/ NothingPicked(r)
    \/ DialSucceeds(r) \/ DialFails(r) \/ DialExhausted(r)

StreamStep(r) ==
    ReceiveData(r) \/ ReadEof(r) \/ StreamError(r) \/ CloseStream(r) \/ Finish(r)

ConnectorNext ==
    \/ \E r \in Requests : Connect(r) \/ ConnectStep(r) \/ StreamStep(r)
    \/ \E t \in Threads : PoolStep(t)
    \/ Maintenance

ConnectorSpec == ConnectorInit /\ [][ConnectorNext]_allVars

\* connect runs every dial under a timeout and the runtime runs every task
\* that can go on.  Streams and maintenance owe nothing.
ConnectorFairSpec ==
    /\ ConnectorSpec
    /\ \A r \in Requests : WF_allVars(ConnectStep(r))
    /\ \A t \in Threads : WF_allVars(PoolStep(t))

-----------------------------------------------------------------------------
(* Properties.                                                             *)

ConnectorTypeOK ==
    /\ TypeOK
    /\ conn \in [Requests -> Connection]
    /\ connects \in 0..MaxConnects
    /\ unanswered \in [Keys -> 0..FailureThreshold]
    /\ history \in [Requests -> [dials : Nat, nodes : SUBSET Keys, size : Nat,
                                 retries : Nat, blames : Nat]]

\* README: every request tries distinct nodes, at most max_retries of them.
\* However the bag is refilled, the pool merged or shrunk between two attempts,
\* no node is dialed twice and neither limit, max_retries or the size of the
\* pool at the start, is passed.
AttemptsDistinctAndBounded ==
    \A r \in Requests :
        /\ history[r].retries > 0 => history[r].dials <= history[r].retries
        /\ history[r].size > 0 =>
            /\ history[r].dials <= history[r].size
            /\ history[r].dials = Cardinality(history[r].nodes)

\* A request that found nodes in the pool never falls back to a direct
\* connection, even if every node is retired or disabled before it dials.
NoDirectFallback ==
    \A r \in Requests :
        conn[r].stage \in {"dialing", "open", "draining"} /\ conn[r].key = NoKey
            => history[r].size = 0

\* One dial is blamed on its node at most once, whether it fails while dialing
\* or its stream sees an end of file, then an error; a stream that delivered
\* data is never blamed.
OneBlamePerDial ==
    \A r \in Requests :
        /\ history[r].blames <= 1
        /\ conn[r].seen => history[r].blames = 0

\* README: failures before the first response are counted like failed dials and
\* the node is skipped once runtime_failure_threshold is reached.  The stream
\* that makes it that many unanswered ones in a row puts the node into its
\* cooldown or on the disabled list.
UnansweredStreamsCoolDown ==
    [][\A k \in Keys :
        unanswered[k] < FailureThreshold /\ unanswered'[k] = FailureThreshold
            => Unavailable(failures'[k])
      ]_allVars

\* Every connect returns a stream or an error: no search of the pool draws
\* disabled, cooling and tried nodes from refilled bags for ever, and no wait
\* for a lock of the pool is without end.
ConnectEnds ==
    \A r \in Requests :
        conn[r].stage \in {"next", "picking", "dialing"} ~>
        conn[r].stage \in {"open", "failed"}

=============================================================================
