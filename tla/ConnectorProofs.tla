--------------------------- MODULE ConnectorProofs ---------------------------
(* Proofs about the requests on top of the pool, for every pool, retry     *)
(* limit and number of requests.                                           *)
EXTENDS Connector, PoolLifeProofs

HistoryRecord ==
    [dials : Nat, nodes : SUBSET Keys, size : Nat, retries : Nat, blames : Nat]

\* The attempts of a request: what it dialed is what it may not draw again, and
\* what it dialed and what it may still dial add up to its limit.  An empty
\* pool leaves one direct dial.
AttemptsSound(c, h) ==
    /\ c.tried = h.nodes
    /\ c.direct => c.stage = "next"
    /\ h.size > 0 =>
        /\ ~c.direct
        /\ h.dials = Cardinality(h.nodes)
        /\ h.dials + c.remaining = AttemptLimit(h.size, h.retries)
        /\ c.stage \in {"dialing", "open", "draining"} => c.key # NoKey
    /\ h.size = 0 =>
        /\ h.dials <= 1
        /\ c.direct => h.dials = 0
        /\ c.direct \/ c.remaining = 0
    /\ c.stage = "picking" => h.size > 0 /\ c.remaining > 0

\* The blame of the current dial: none before it has failed, none once the node
\* has answered, and the stream remembers its own.
BlamesSound(c, h) ==
    /\ h.blames <= 1
    /\ c.seen => h.blames = 0
    /\ c.direct => h.blames = 0
    /\ c.stage \in {"dialing", "open"} => h.blames = 0
    /\ c.stage \in {"idle", "next", "picking", "dialing"} => ~c.seen
    /\ c.stage \in {"open", "draining"} => c.reported \/ h.blames = 0

\* The scan of a request passes over the nodes the request has dialed.
ScanKnowsTried(r) ==
    conn[r].stage = "picking" =>
        /\ pc[r] = "scan" => scan[r].tried = conn[r].tried
        /\ pc[r] = "returned" => op[r].key \in Keys \ conn[r].tried

RequestsSound ==
    \A r \in Requests :
        /\ AttemptsSound(conn[r], history[r])
        /\ BlamesSound(conn[r], history[r])
        /\ ScanKnowsTried(r)

RequestTypes ==
    /\ conn \in [Requests -> Connection]
    /\ history \in [Requests -> HistoryRecord]

\* The inductive invariant.
ConnectorInv == PoolInv /\ RequestTypes /\ RequestsSound

-----------------------------------------------------------------------------

\* Requests are threads of the pool.
LEMMA RequestsAreThreads == Requests \subseteq Threads
BY DEF Requests, Threads

\* A step of request r alone: the others are as sound as before.
LEMMA RequestMoves ==
    ASSUME ConnectorInv, PoolInv', NEW r \in Requests,
           NEW c \in Connection, NEW h \in HistoryRecord,
           conn' = [conn EXCEPT ![r] = c], history' = [history EXCEPT ![r] = h],
           AttemptsSound(c, h), BlamesSound(c, h),
           \A u \in Threads \ {r} : pc'[u] = pc[u] /\ op'[u] = op[u] /\ scan'[u] = scan[u],
           c.stage = "picking" => pc'[r] # "returned" /\ scan'[r].tried = c.tried
    PROVE  ConnectorInv'
<1>1. RequestTypes'
    BY DEF ConnectorInv, RequestTypes
<1>2. conn'[r] = c /\ history'[r] = h
    BY DEF ConnectorInv, RequestTypes
<1>3. \A u \in Requests \ {r} : conn'[u] = conn[u] /\ history'[u] = history[u]
    BY DEF ConnectorInv, RequestTypes
<1>4. ASSUME NEW u \in Requests
      PROVE  AttemptsSound(conn'[u], history'[u]) /\ BlamesSound(conn'[u], history'[u])
    BY <1>2, <1>3 DEF ConnectorInv, RequestsSound
<1>5. ASSUME NEW u \in Requests PROVE ScanKnowsTried(u)'
    <2>1. CASE u = r
        BY <1>2, <2>1 DEF ScanKnowsTried
    <2>2. CASE u # r
        BY <1>3, <2>2, RequestsAreThreads DEF ConnectorInv, RequestsSound, ScanKnowsTried
    <2> QED BY <2>1, <2>2
<1> QED BY <1>1, <1>4, <1>5 DEF ConnectorInv, RequestsSound

\* A step of the pool: the requests are untouched, and the thread that moves
\* keeps what its scan knows.
LEMMA PoolMoves ==
    ASSUME ConnectorInv, PoolInv', UNCHANGED connectorVars, NEW t \in Threads,
           \A u \in Threads \ {t} : pc'[u] = pc[u] /\ op'[u] = op[u] /\ scan'[u] = scan[u],
           t \in Requests => ScanKnowsTried(t)'
    PROVE  ConnectorInv'
<1>1. RequestTypes'
    BY DEF ConnectorInv, RequestTypes, connectorVars
<1>2. ASSUME NEW u \in Requests PROVE ScanKnowsTried(u)'
    <2>1. CASE u = t
        BY <2>1
    <2>2. CASE u # t
        BY <2>2, RequestsAreThreads
           DEF ConnectorInv, RequestsSound, ScanKnowsTried, connectorVars
    <2> QED BY <2>1, <2>2
<1> QED BY <1>1, <1>2 DEF ConnectorInv, RequestsSound, connectorVars

\* What the invariant says of one request.
LEMMA RequestFacts ==
    ASSUME ConnectorInv, NEW r \in Requests
    PROVE  /\ TypeOK /\ PoolInv /\ r \in Threads
           /\ conn \in [Requests -> Connection] /\ history \in [Requests -> HistoryRecord]
           /\ conn[r] \in Connection /\ history[r] \in HistoryRecord
           /\ AttemptsSound(conn[r], history[r]) /\ BlamesSound(conn[r], history[r])
           /\ ScanKnowsTried(r)
BY RequestsAreThreads DEF ConnectorInv, PoolInv, RequestTypes, RequestsSound

\* A step that leaves the pool alone leaves its invariant alone.
LEMMA PoolStays ==
    ASSUME PoolInv, UNCHANGED vars PROVE PoolInv'
BY StepInv

-----------------------------------------------------------------------------
(* The attempts.                                                           *)

\* The records a new connect starts from.
LEMMA FreshRequest ==
    /\ NoConnection \in Connection
    /\ NoHistory \in HistoryRecord
    /\ AttemptsSound(NoConnection, NoHistory)
    /\ BlamesSound(NoConnection, NoHistory)
<1>1. NoConnection \in Connection
    BY DEF NoConnection, Connection, Stages
<1>2. NoHistory \in HistoryRecord
    BY DEF NoHistory, HistoryRecord
<1>3. AttemptsSound(NoConnection, NoHistory)
    BY DEF NoConnection, NoHistory, AttemptsSound
<1>4. BlamesSound(NoConnection, NoHistory)
    BY DEF NoConnection, NoHistory, BlamesSound
<1> QED BY <1>1, <1>2, <1>3, <1>4

\* connect asks the pool for its iterator.
LEMMA ConnectInv ==
    ASSUME ConnectorInv, NEW r \in Requests, Connect(r)
    PROVE  ConnectorInv'
<1>0. TypeOK /\ PoolInv' /\ Len(proxies) \in Nat /\ proxies \in Seq(Keys)
    BY PoolStays DEF Connect, ConnectorInv, PoolInv, TypeOK
<1>1. PICK retries \in RetryLimits :
        /\ conn' = [conn EXCEPT ![r] =
              IF proxies = <<>>
              THEN [NoConnection EXCEPT !.stage = "next", !.remaining = 1,
                                        !.direct = TRUE]
              ELSE [NoConnection EXCEPT !.stage = "next",
                        !.remaining = AttemptLimit(Len(proxies), retries)]]
        /\ history' = [history EXCEPT ![r] =
              [NoHistory EXCEPT !.size = Len(proxies), !.retries = retries]]
    BY DEF Connect
<1> DEFINE c == IF proxies = <<>>
                THEN [NoConnection EXCEPT !.stage = "next", !.remaining = 1, !.direct = TRUE]
                ELSE [NoConnection EXCEPT !.stage = "next",
                          !.remaining = AttemptLimit(Len(proxies), retries)]
           h == [NoHistory EXCEPT !.size = Len(proxies), !.retries = retries]
<1>2. retries \in Nat /\ AttemptLimit(Len(proxies), retries) \in Nat
    BY <1>0, ConnectorAssumption DEF AttemptLimit
<1>3. proxies = <<>> <=> Len(proxies) = 0
    BY <1>0
<1>4. /\ c \in Connection
      /\ c.stage = "next" /\ c.tried = {} /\ ~c.seen
      /\ proxies = <<>> => c.direct
      /\ proxies # <<>> => ~c.direct /\ c.remaining = AttemptLimit(Len(proxies), retries)
    BY <1>2 DEF NoConnection, Connection, Stages
<1>5. /\ h \in HistoryRecord /\ h.size = Len(proxies) /\ h.retries = retries
      /\ h.nodes = {} /\ h.dials = 0 /\ h.blames = 0
    BY <1>0, <1>2 DEF NoHistory, HistoryRecord
<1>6. conn' = [conn EXCEPT ![r] = c] /\ history' = [history EXCEPT ![r] = h]
    BY <1>1
<1> HIDE DEF c, h
<1>7. AttemptsSound(c, h)
    BY <1>0, <1>2, <1>3, <1>4, <1>5, FS_EmptySet DEF AttemptsSound
<1>8. BlamesSound(c, h)
    BY <1>4, <1>5 DEF BlamesSound
<1>9. UNCHANGED <<pc, op, scan>>
    BY DEF Connect, vars, threadVars
<1> QED BY <1>0, <1>4, <1>5, <1>6, <1>7, <1>8, <1>9, RequestMoves

\* next answers Direct, or that the limit is reached.
LEMMA NextInv ==
    ASSUME ConnectorInv, NEW r \in Requests, NextDirect(r) \/ NextNone(r)
    PROVE  ConnectorInv'
<1>0. /\ conn[r] \in Connection /\ history[r] \in HistoryRecord
      /\ AttemptsSound(conn[r], history[r]) /\ BlamesSound(conn[r], history[r])
      /\ conn \in [Requests -> Connection] /\ history \in [Requests -> HistoryRecord]
    BY RequestFacts
<1>1. UNCHANGED vars /\ PoolInv' /\ UNCHANGED <<pc, op, scan>>
    BY PoolStays DEF NextDirect, NextNone, ConnectorInv, vars, threadVars
<1>2. CASE NextDirect(r)
    <2> DEFINE c == [conn[r] EXCEPT !.direct = FALSE, !.remaining = 0, !.key = NoKey,
                                    !.stage = "dialing"]
               h == [history[r] EXCEPT !.dials = history[r].dials + 1]
    <2>1. /\ c \in Connection /\ c.stage = "dialing" /\ ~c.direct /\ c.remaining = 0
          /\ c.tried = conn[r].tried /\ c.seen = conn[r].seen /\ c.reported = conn[r].reported
        BY <1>0 DEF Connection, Stages
    <2>2. /\ h \in HistoryRecord /\ h.dials = history[r].dials + 1
          /\ h.nodes = history[r].nodes /\ h.size = history[r].size
          /\ h.blames = history[r].blames /\ h.retries = history[r].retries
        BY <1>0 DEF HistoryRecord
    <2>3. conn' = [conn EXCEPT ![r] = c] /\ history' = [history EXCEPT ![r] = h]
        BY <1>0, <1>2 DEF NextDirect
    <2>4. conn[r].stage = "next" /\ conn[r].direct
        BY <1>2 DEF NextDirect
    <2> HIDE DEF c, h
    <2>5. AttemptsSound(c, h)
        BY <1>0, <2>1, <2>2, <2>4 DEF AttemptsSound, HistoryRecord
    <2>6. BlamesSound(c, h)
        BY <1>0, <2>1, <2>2, <2>4 DEF BlamesSound
    <2> QED BY <1>1, <2>1, <2>2, <2>3, <2>5, <2>6, RequestMoves
<1>3. CASE NextNone(r)
    <2> DEFINE c == [conn[r] EXCEPT !.stage = "failed"]
    <2>1. /\ c \in Connection /\ c.stage = "failed" /\ c.direct = conn[r].direct
          /\ c.remaining = conn[r].remaining /\ c.tried = conn[r].tried
          /\ c.seen = conn[r].seen
        BY <1>0 DEF Connection, Stages
    <2>2. conn' = [conn EXCEPT ![r] = c] /\ history' = [history EXCEPT ![r] = history[r]]
        BY <1>0, <1>3 DEF NextNone
    <2>3. conn[r].stage = "next" /\ ~conn[r].direct
        BY <1>3 DEF NextNone
    <2> HIDE DEF c
    <2>4. AttemptsSound(c, history[r]) /\ BlamesSound(c, history[r])
        BY <1>0, <2>1, <2>3 DEF AttemptsSound, BlamesSound
    <2> QED BY <1>0, <1>1, <2>1, <2>2, <2>4, RequestMoves
<1> QED BY <1>2, <1>3

\* next scans the pool for a node that was not dialed.
LEMMA NextScanInv ==
    ASSUME ConnectorInv, NEW r \in Requests, NextScan(r)
    PROVE  ConnectorInv'
<1>0. /\ conn[r] \in Connection /\ history[r] \in HistoryRecord
      /\ AttemptsSound(conn[r], history[r]) /\ BlamesSound(conn[r], history[r])
      /\ conn \in [Requests -> Connection] /\ history \in [Requests -> HistoryRecord]
      /\ TypeOK /\ PoolInv /\ r \in Threads
    BY RequestFacts
<1>1. BeginScan(r, conn[r].tried) /\ conn[r].tried \in SUBSET Keys
    BY <1>0 DEF NextScan, Connection
<1>2. PoolInv'
    BY <1>0, <1>1, ScanInv
<1>3. /\ pc'[r] # "returned" /\ scan'[r].tried = conn[r].tried /\ op' = op
      /\ \A u \in Threads \ {r} : pc'[u] = pc[u] /\ scan'[u] = scan[u]
    BY <1>0, <1>1 DEF BeginScan, TypeOK, Scan
<1> DEFINE c == [conn[r] EXCEPT !.stage = "picking"]
<1>4. /\ c \in Connection /\ c.stage = "picking" /\ c.direct = conn[r].direct
      /\ c.remaining = conn[r].remaining /\ c.tried = conn[r].tried
      /\ c.seen = conn[r].seen
    BY <1>0 DEF Connection, Stages
<1>5. conn' = [conn EXCEPT ![r] = c] /\ history' = [history EXCEPT ![r] = history[r]]
    BY <1>0 DEF NextScan
<1>6. conn[r].stage = "next" /\ ~conn[r].direct /\ conn[r].remaining > 0
    BY DEF NextScan
<1> HIDE DEF c
<1>7. AttemptsSound(c, history[r])
    BY <1>0, <1>4, <1>6 DEF AttemptsSound, HistoryRecord, Connection
<1>8. BlamesSound(c, history[r])
    BY <1>0, <1>4, <1>6 DEF BlamesSound
<1> QED BY <1>0, <1>2, <1>3, <1>4, <1>5, <1>7, <1>8, RequestMoves

\* The end of a scan leaves the threads but one alone.
LEMMA EndScanFacts ==
    ASSUME PoolInv, NEW t \in Threads, EndScan(t)
    PROVE  /\ PoolInv'
           /\ \A u \in Threads \ {t} :
                pc'[u] = pc[u] /\ op'[u] = op[u] /\ scan'[u] = scan[u]
<1>1. TypeOK
    BY DEF PoolInv
<1> QED BY <1>1, ScanInv, GotoMoves DEF EndScan, TypeOK

\* next returns a node that was not dialed before.
LEMMA PickedInv ==
    ASSUME ConnectorInv, NEW r \in Requests, Picked(r)
    PROVE  ConnectorInv'
<1>0. /\ conn[r] \in Connection /\ history[r] \in HistoryRecord
      /\ AttemptsSound(conn[r], history[r]) /\ BlamesSound(conn[r], history[r])
      /\ conn \in [Requests -> Connection] /\ history \in [Requests -> HistoryRecord]
      /\ TypeOK /\ PoolInv /\ r \in Threads /\ ScanKnowsTried(r)
    BY RequestFacts
<1> DEFINE k == op[r].key
           c == [conn[r] EXCEPT !.tried = conn[r].tried \cup {k},
                                !.remaining = conn[r].remaining - 1,
                                !.key = k, !.stage = "dialing"]
           h == [history[r] EXCEPT !.dials = history[r].dials + 1, !.blames = 0,
                                   !.nodes = history[r].nodes \cup {k}]
<1>1. /\ conn[r].stage = "picking" /\ pc[r] = "returned" /\ EndScan(r)
      /\ conn' = [conn EXCEPT ![r] = c] /\ history' = [history EXCEPT ![r] = h]
    BY <1>0 DEF Picked
<1>2. k \in Keys \ conn[r].tried
    BY <1>0, <1>1 DEF ScanKnowsTried
<1>3. history[r].size > 0 /\ conn[r].remaining > 0 /\ conn[r].tried = history[r].nodes
    BY <1>0, <1>1 DEF AttemptsSound
<1> HIDE DEF k
<1>4. /\ c \in Connection /\ c.stage = "dialing" /\ c.direct = conn[r].direct
      /\ c.remaining = conn[r].remaining - 1 /\ c.tried = conn[r].tried \cup {k}
      /\ c.key = k /\ c.seen = conn[r].seen /\ c.reported = conn[r].reported
    <2>1. conn[r].remaining - 1 \in Nat
        BY <1>0, <1>3 DEF Connection
    <2>2. conn[r].tried \cup {k} \in SUBSET Keys /\ k \in Keys \cup {NoKey}
        BY <1>0, <1>2 DEF Connection
    <2>3. "dialing" \in Stages
        BY DEF Stages
    <2> QED BY <1>0, <2>1, <2>2, <2>3 DEF Connection
<1>5. /\ h \in HistoryRecord /\ h.dials = history[r].dials + 1
      /\ h.nodes = history[r].nodes \cup {k} /\ h.size = history[r].size
      /\ h.blames = 0 /\ h.retries = history[r].retries
    <2>1. history[r].nodes \cup {k} \in SUBSET Keys
        BY <1>0, <1>2 DEF HistoryRecord
    <2>2. history[r].dials + 1 \in Nat
        BY <1>0 DEF HistoryRecord
    <2> QED BY <1>0, <2>1, <2>2 DEF HistoryRecord
<1>6. Cardinality(h.nodes) = Cardinality(history[r].nodes) + 1
    <2>1. IsFiniteSet(history[r].nodes)
        BY <1>0, ConstantsAssumption, FS_Subset DEF HistoryRecord
    <2> QED BY <1>2, <1>3, <1>5, <2>1, FS_AddElement
<1> HIDE DEF c, h
<1>7. AttemptsSound(c, h)
    <2>1. c.tried = h.nodes /\ ~c.direct /\ h.size > 0 /\ c.key # NoKey
        BY <1>0, <1>2, <1>3, <1>4, <1>5, ConstantsAssumption DEF AttemptsSound
    <2>2. h.dials = Cardinality(h.nodes)
        BY <1>0, <1>3, <1>5, <1>6 DEF AttemptsSound
    <2>3. h.dials + c.remaining = AttemptLimit(h.size, h.retries)
        <3>1. history[r].dials + conn[r].remaining = AttemptLimit(h.size, h.retries)
            BY <1>0, <1>3, <1>5 DEF AttemptsSound
        <3>2. history[r].dials \in Nat /\ conn[r].remaining \in Nat
            BY <1>0 DEF HistoryRecord, Connection
        <3> QED BY <1>4, <1>5, <3>1, <3>2
    <2> QED BY <1>4, <1>5, <2>1, <2>2, <2>3 DEF AttemptsSound, HistoryRecord
<1>8. BlamesSound(c, h)
    BY <1>0, <1>1, <1>4, <1>5 DEF BlamesSound
<1> QED BY <1>0, <1>1, <1>4, <1>5, <1>7, <1>8, EndScanFacts, RequestMoves

\* A request that gets no node, or no descriptor, ends.
LEMMA FailedInv ==
    ASSUME ConnectorInv, NEW r \in Requests, NothingPicked(r) \/ DialExhausted(r)
    PROVE  ConnectorInv'
<1>0. /\ conn[r] \in Connection /\ history[r] \in HistoryRecord
      /\ AttemptsSound(conn[r], history[r]) /\ BlamesSound(conn[r], history[r])
      /\ conn \in [Requests -> Connection] /\ history \in [Requests -> HistoryRecord]
      /\ TypeOK /\ PoolInv /\ r \in Threads
    BY RequestFacts
<1>1. /\ PoolInv'
      /\ \A u \in Threads \ {r} : pc'[u] = pc[u] /\ op'[u] = op[u] /\ scan'[u] = scan[u]
    BY <1>0, EndScanFacts, PoolStays DEF NothingPicked, DialExhausted, vars, threadVars
<1> DEFINE c == [conn[r] EXCEPT !.stage = "failed"]
<1>2. /\ c \in Connection /\ c.stage = "failed" /\ c.direct = conn[r].direct
      /\ c.remaining = conn[r].remaining /\ c.tried = conn[r].tried
      /\ c.seen = conn[r].seen
    BY <1>0 DEF Connection, Stages
<1>3. conn' = [conn EXCEPT ![r] = c] /\ history' = [history EXCEPT ![r] = history[r]]
    BY <1>0 DEF NothingPicked, DialExhausted
<1>4. conn[r].stage # "next"
    BY DEF NothingPicked, DialExhausted
<1> HIDE DEF c
<1>5. AttemptsSound(c, history[r]) /\ BlamesSound(c, history[r])
    BY <1>0, <1>2, <1>4 DEF AttemptsSound, BlamesSound
<1> QED BY <1>0, <1>1, <1>2, <1>3, <1>5, RequestMoves

-----------------------------------------------------------------------------
(* The dials and the streams.                                              *)

\* A report on a node moves the reporting thread only.
LEMMA ReportMoves ==
    ASSUME PoolInv, NEW r \in Threads,
           \/ \E k \in Keys : ReportSuccess(r, k) \/ ReportFailure(r, k)
           \/ UNCHANGED vars
    PROVE  /\ PoolInv'
           /\ \A u \in Threads \ {r} :
                pc'[u] = pc[u] /\ op'[u] = op[u] /\ scan'[u] = scan[u]
<1>0. TypeOK
    BY DEF PoolInv
<1>1. ASSUME NEW k \in Keys, ReportSuccess(r, k) \/ ReportFailure(r, k)
      PROVE  /\ PoolInv'
             /\ \A u \in Threads \ {r} :
                  pc'[u] = pc[u] /\ op'[u] = op[u] /\ scan'[u] = scan[u]
    <2>1. PoolInv'
        BY <1>1, ReportInv
    <2>2. scan' = scan /\ \E label : \E o : Goto(r, label, o)
        BY <1>1 DEF ReportSuccess, ReportFailure
    <2> QED BY <1>0, <2>1, <2>2, GotoMoves
<1>2. CASE UNCHANGED vars
    BY <1>2, PoolStays DEF vars, threadVars
<1> QED BY <1>1, <1>2

\* The outcome of a dial is reported once.
LEMMA DialInv ==
    ASSUME ConnectorInv, NEW r \in Requests, DialSucceeds(r) \/ DialFails(r)
    PROVE  ConnectorInv'
<1>0. /\ conn[r] \in Connection /\ history[r] \in HistoryRecord
      /\ AttemptsSound(conn[r], history[r]) /\ BlamesSound(conn[r], history[r])
      /\ conn \in [Requests -> Connection] /\ history \in [Requests -> HistoryRecord]
      /\ TypeOK /\ PoolInv /\ r \in Threads
    BY RequestFacts
<1>1. /\ PoolInv'
      /\ \A u \in Threads \ {r} : pc'[u] = pc[u] /\ op'[u] = op[u] /\ scan'[u] = scan[u]
    <2>1. Observed(r) => conn[r].key \in Keys
        BY <1>0 DEF Observed, Connection
    <2> QED BY <1>0, <2>1, ReportMoves DEF DialSucceeds, DialFails
<1>2. conn[r].stage = "dialing"
    BY DEF DialSucceeds, DialFails
<1>3. CASE DialSucceeds(r)
    <2> DEFINE c == [conn[r] EXCEPT !.stage = "open"]
    <2>1. /\ c \in Connection /\ c.stage = "open" /\ c.direct = conn[r].direct
          /\ c.remaining = conn[r].remaining /\ c.tried = conn[r].tried
          /\ c.seen = conn[r].seen /\ c.key = conn[r].key
        BY <1>0 DEF Connection, Stages
    <2>2. conn' = [conn EXCEPT ![r] = c] /\ history' = [history EXCEPT ![r] = history[r]]
        BY <1>0, <1>3 DEF DialSucceeds
    <2> HIDE DEF c
    <2>3. AttemptsSound(c, history[r]) /\ BlamesSound(c, history[r])
        BY <1>0, <1>2, <2>1 DEF AttemptsSound, BlamesSound
    <2> QED BY <1>0, <1>1, <2>1, <2>2, <2>3, RequestMoves
<1>4. CASE DialFails(r)
    <2> DEFINE c == [conn[r] EXCEPT !.stage = "next"]
               h == [history[r] EXCEPT !.blames = history[r].blames + 1]
    <2>1. /\ c \in Connection /\ c.stage = "next" /\ c.direct = conn[r].direct
          /\ c.remaining = conn[r].remaining /\ c.tried = conn[r].tried
          /\ c.seen = conn[r].seen
        BY <1>0 DEF Connection, Stages
    <2>2. /\ h \in HistoryRecord /\ h.dials = history[r].dials
          /\ h.nodes = history[r].nodes /\ h.size = history[r].size
          /\ h.blames = history[r].blames + 1 /\ h.retries = history[r].retries
        BY <1>0 DEF HistoryRecord
    <2>3. conn' = [conn EXCEPT ![r] = c] /\ history' = [history EXCEPT ![r] = h]
        BY <1>0, <1>4 DEF DialFails
    <2> HIDE DEF c, h
    <2>4. AttemptsSound(c, h)
        BY <1>0, <1>2, <2>1, <2>2 DEF AttemptsSound
    <2>5. BlamesSound(c, h)
        <3>1. history[r].blames = 0 /\ ~conn[r].direct /\ ~conn[r].seen
            BY <1>0, <1>2 DEF AttemptsSound, BlamesSound
        <3> QED BY <2>1, <2>2, <3>1 DEF BlamesSound
    <2> QED BY <1>1, <2>1, <2>2, <2>3, <2>4, <2>5, RequestMoves
<1> QED BY <1>3, <1>4

\* A stream that fails unanswered is blamed on its node unless it has been.
LEMMA StreamFailureInv ==
    ASSUME ConnectorInv, NEW r \in Requests, ReadEof(r) \/ StreamError(r)
    PROVE  ConnectorInv'
<1>0. /\ conn[r] \in Connection /\ history[r] \in HistoryRecord
      /\ AttemptsSound(conn[r], history[r]) /\ BlamesSound(conn[r], history[r])
      /\ conn \in [Requests -> Connection] /\ history \in [Requests -> HistoryRecord]
      /\ TypeOK /\ PoolInv /\ r \in Threads
    BY RequestFacts
<1>1. PICK st \in {"draining", "closed"} : ReportPreResponseFailure(r, st)
    BY DEF ReadEof, StreamError
<1>2. conn[r].stage \in {"open", "draining"}
    BY DEF ReadEof, StreamError
<1>3. "draining" \in Stages /\ "closed" \in Stages
    BY DEF Stages
<1>4. CASE Observed(r) /\ ~conn[r].seen /\ ~conn[r].reported
    <2>1. /\ PoolInv'
          /\ \A u \in Threads \ {r} : pc'[u] = pc[u] /\ op'[u] = op[u] /\ scan'[u] = scan[u]
        <3>1. conn[r].key \in Keys /\ ReportFailure(r, conn[r].key)
            BY <1>0, <1>1, <1>4 DEF ReportPreResponseFailure, Observed, Connection
        <3> QED BY <1>0, <3>1, ReportMoves
    <2> DEFINE c == [conn[r] EXCEPT !.stage = st, !.reported = TRUE]
               h == [history[r] EXCEPT !.blames = history[r].blames + 1]
    <2>2. /\ c \in Connection /\ c.stage = st /\ c.direct = conn[r].direct
          /\ c.remaining = conn[r].remaining /\ c.tried = conn[r].tried
          /\ c.seen = conn[r].seen /\ c.key = conn[r].key /\ c.reported
        BY <1>0, <1>3 DEF Connection
    <2>3. /\ h \in HistoryRecord /\ h.dials = history[r].dials
          /\ h.nodes = history[r].nodes /\ h.size = history[r].size
          /\ h.blames = history[r].blames + 1 /\ h.retries = history[r].retries
        BY <1>0 DEF HistoryRecord
    <2>4. conn' = [conn EXCEPT ![r] = c] /\ history' = [history EXCEPT ![r] = h]
        BY <1>0, <1>1, <1>4 DEF ReportPreResponseFailure
    <2> HIDE DEF c, h
    <2>5. AttemptsSound(c, h)
        BY <1>0, <1>2, <2>2, <2>3 DEF AttemptsSound
    <2>6. BlamesSound(c, h)
        <3>1. history[r].blames = 0 /\ ~conn[r].direct /\ ~conn[r].seen
            BY <1>0, <1>2, <1>4 DEF AttemptsSound, BlamesSound
        <3> QED BY <2>2, <2>3, <3>1 DEF BlamesSound
    <2> QED BY <2>1, <2>2, <2>3, <2>4, <2>5, <2>6, RequestMoves
<1>5. CASE ~(Observed(r) /\ ~conn[r].seen /\ ~conn[r].reported)
    <2> DEFINE c == [conn[r] EXCEPT !.stage = st]
    <2>1. /\ c \in Connection /\ c.stage = st /\ c.direct = conn[r].direct
          /\ c.remaining = conn[r].remaining /\ c.tried = conn[r].tried
          /\ c.seen = conn[r].seen /\ c.key = conn[r].key /\ c.reported = conn[r].reported
        BY <1>0, <1>3 DEF Connection
    <2>2. /\ conn' = [conn EXCEPT ![r] = c] /\ history' = [history EXCEPT ![r] = history[r]]
          /\ UNCHANGED vars
        BY <1>0, <1>1, <1>5 DEF ReportPreResponseFailure
    <2> HIDE DEF c
    <2>3. AttemptsSound(c, history[r]) /\ BlamesSound(c, history[r])
        BY <1>0, <1>2, <2>1 DEF AttemptsSound, BlamesSound
    <2> QED BY <1>0, <2>1, <2>2, <2>3, ReportMoves, RequestMoves
<1> QED BY <1>4, <1>5

\* An answer, the end of a copy and the end of a task.
LEMMA StreamEndInv ==
    ASSUME ConnectorInv, NEW r \in Requests, ReceiveData(r) \/ CloseStream(r) \/ Finish(r)
    PROVE  ConnectorInv'
<1>0. /\ conn[r] \in Connection /\ history[r] \in HistoryRecord
      /\ AttemptsSound(conn[r], history[r]) /\ BlamesSound(conn[r], history[r])
      /\ conn \in [Requests -> Connection] /\ history \in [Requests -> HistoryRecord]
      /\ TypeOK /\ PoolInv /\ r \in Threads
    BY RequestFacts
<1>1. PoolInv' /\ UNCHANGED <<pc, op, scan>>
    BY <1>0, PoolStays DEF ReceiveData, CloseStream, Finish, vars, threadVars
<1>2. CASE ReceiveData(r)
    <2> DEFINE c == [conn[r] EXCEPT !.seen = TRUE]
    <2>1. /\ c \in Connection /\ c.stage = conn[r].stage /\ c.direct = conn[r].direct
          /\ c.remaining = conn[r].remaining /\ c.tried = conn[r].tried
          /\ c.key = conn[r].key /\ c.reported = conn[r].reported
        BY <1>0 DEF Connection
    <2>2. conn' = [conn EXCEPT ![r] = c] /\ history' = [history EXCEPT ![r] = history[r]]
        BY <1>0, <1>2 DEF ReceiveData
    <2>3. conn[r].stage = "open"
        BY <1>2 DEF ReceiveData
    <2> HIDE DEF c
    <2>4. AttemptsSound(c, history[r]) /\ BlamesSound(c, history[r])
        BY <1>0, <2>1, <2>3 DEF AttemptsSound, BlamesSound
    <2> QED BY <1>0, <1>1, <2>1, <2>2, <2>3, <2>4, RequestMoves
<1>3. CASE CloseStream(r)
    <2> DEFINE c == [conn[r] EXCEPT !.stage = "closed"]
    <2>1. /\ c \in Connection /\ c.stage = "closed" /\ c.direct = conn[r].direct
          /\ c.remaining = conn[r].remaining /\ c.tried = conn[r].tried
          /\ c.seen = conn[r].seen
        BY <1>0 DEF Connection, Stages
    <2>2. conn' = [conn EXCEPT ![r] = c] /\ history' = [history EXCEPT ![r] = history[r]]
        BY <1>0, <1>3 DEF CloseStream
    <2>3. conn[r].stage # "next"
        BY <1>3 DEF CloseStream
    <2> HIDE DEF c
    <2>4. AttemptsSound(c, history[r]) /\ BlamesSound(c, history[r])
        BY <1>0, <2>1, <2>3 DEF AttemptsSound, BlamesSound
    <2> QED BY <1>0, <1>1, <2>1, <2>2, <2>4, RequestMoves
<1>4. CASE Finish(r)
    <2>1. /\ conn' = [conn EXCEPT ![r] = NoConnection]
          /\ history' = [history EXCEPT ![r] = NoHistory]
        BY <1>4 DEF Finish
    <2>2. NoConnection.stage = "idle"
        BY DEF NoConnection
    <2> QED BY <1>1, <2>1, <2>2, FreshRequest, RequestMoves
<1> QED BY <1>2, <1>3, <1>4

-----------------------------------------------------------------------------
(* The steps of the pool, and the theorems.                                *)

\* The critical sections of the pool, and its maintenance, under the requests.
LEMMA PoolUnderneath ==
    ASSUME ConnectorInv, (\E t \in Threads : PoolStep(t)) \/ Maintenance
    PROVE  ConnectorInv'
<1>0. TypeOK /\ PoolInv /\ NodesSeen \subseteq Keys
    BY DEF ConnectorInv, PoolInv, TypeOK, NodesSeen, Range
<1>1. ASSUME NEW t \in Threads, NEW label, NEW o, Goto(t, label, o),
             label # "scan", label # "returned",
             PoolInv', scan' = scan, UNCHANGED connectorVars
      PROVE  ConnectorInv'
    <2>1. /\ pc'[t] = label
          /\ \A u \in Threads \ {t} : pc'[u] = pc[u] /\ op'[u] = op[u]
        BY <1>0, <1>1, GotoMoves
    <2>2. ScanKnowsTried(t)'
        BY <1>1, <2>1 DEF ScanKnowsTried
    <2> QED BY <1>1, <2>1, <2>2, PoolMoves
<1>2. ASSUME NEW t \in Threads, PoolStep(t) PROVE ConnectorInv'
    <2>1. UNCHANGED connectorVars
        BY <1>2 DEF PoolStep
    <2>2. Continue(op[t]) \notin {"scan", "returned"}
        BY DEF Continue
    <2>3. PoolInv'
        BY <1>0, <1>2, ScanInv, FollowUpInv, DropInv, RetireInv DEF PoolStep
    <2>4. CASE ScanStep(t)
        <3>1. PICK i \in Drawable :
                IF PassedOver(t, proxies[i]) THEN Skip(t, proxies[i]) ELSE HandOut(t, proxies[i])
            BY <2>4 DEF ScanStep
        <3>2. proxies[i] \in Keys
            BY <1>0, <3>1 DEF PoolInv, Drawable, MustRefill, BagIndicesInRange, TypeOK
        <3>3. \A u \in Threads \ {t} : pc'[u] = pc[u] /\ op'[u] = op[u] /\ scan'[u] = scan[u]
            BY <1>0, <3>1 DEF Skip, HandOut, TypeOK
        <3>4. scan'[t].tried = scan[t].tried
            BY <1>0, <3>1 DEF Skip, HandOut, TypeOK, Scan
        <3>5. pc'[t] = "returned" => op'[t].key \in Keys \ scan[t].tried
            BY <1>0, <3>1, <3>2 DEF Skip, HandOut, PassedOver, TypeOK, Operation
        <3>6. t \in Requests => ScanKnowsTried(t)
            BY DEF ConnectorInv, RequestsSound
        <3>7. pc[t] = "scan"
            BY <2>4 DEF ScanStep
        <3>8. t \in Requests => ScanKnowsTried(t)'
            BY <2>1, <3>4, <3>5, <3>6, <3>7 DEF ScanKnowsTried, connectorVars
        <3> QED BY <2>1, <2>3, <3>3, <3>8, PoolMoves
    <2>5. CASE ~ScanStep(t)
        <3>1. \/ PutDisabled(t) \/ RemoveDisabled(t) \/ DropRecord(t) \/ Retire(t)
              \/ ReadGeneration(t) \/ ResetSelection(t) \/ SaveBegin(t) \/ SaveEnd(t)
            BY <1>2, <2>5 DEF PoolStep
        <3>2. scan' = scan
            BY <3>1 DEF PutDisabled, RemoveDisabled, WriteDisabled, DropRecord, Retire,
                        ReadGeneration, ResetSelection, SaveBegin, SaveEnd
        <3>3. \/ \E o : Goto(t, Continue(op[t]), o)
              \/ \E o : Goto(t, "retire", o)
              \/ \E o : Goto(t, "reset", o)
              \/ \E o : Goto(t, "idle", o)
              \/ \E o : Goto(t, "saving", o)
            BY <3>1 DEF PutDisabled, RemoveDisabled, WriteDisabled, DropRecord, Retire,
                        ReadGeneration, ResetSelection, SaveBegin, SaveEnd
        <3> QED BY <1>1, <2>1, <2>2, <2>3, <3>2, <3>3
    <2> QED BY <2>4, <2>5
<1>3. ASSUME RefresherCall(Refresher), UNCHANGED connectorVars PROVE ConnectorInv'
    <2>1. PoolInv' /\ Refresher \in Threads
        BY <1>0, <1>3, MergeInv, FlushInv DEF RefresherCall, Threads
    <2>2. /\ scan' = scan
          /\ \E label \in {"save", "idle", "reset"} : \E o : Goto(Refresher, label, o)
        BY <1>3 DEF RefresherCall, Flush, Merge
    <2> QED BY <1>1, <1>3, <2>1, <2>2
<1>4. ASSUME NEW w \in Workers, WorkerCall(w), UNCHANGED connectorVars PROVE ConnectorInv'
    <2>1. PoolInv' /\ w \in Threads
        BY <1>0, <1>4, ReportInv DEF WorkerCall, Threads
    <2>2. /\ scan' = scan
          /\ \E label \in {"rmDisabled", "dropRecord", "putDisabled"} :
                \E o : Goto(w, label, o)
        BY <1>4 DEF WorkerCall, RecheckSuccess, RecheckFailure
    <2> QED BY <1>1, <1>4, <2>1, <2>2
<1>5. ASSUME NEW k \in Keys, CooldownElapses(k), UNCHANGED connectorVars PROVE ConnectorInv'
    <2>1. PoolInv'
        BY <1>0, <1>5, DropInv
    <2>2. UNCHANGED <<pc, op, scan>>
        BY <1>5 DEF CooldownElapses, threadVars
    <2> QED BY <1>5, <2>1, <2>2
            DEF ConnectorInv, RequestTypes, RequestsSound, ScanKnowsTried, connectorVars
<1> QED BY <1>2, <1>3, <1>4, <1>5 DEF Maintenance

\* Every step of the requests, the pool and its maintenance keeps the invariant.
LEMMA ConnectorStep ==
    ASSUME ConnectorInv, [ConnectorNext]_allVars
    PROVE  ConnectorInv'
<1>1. CASE UNCHANGED allVars
    <2>1. PoolInv' /\ UNCHANGED <<pc, op, scan>>
        BY <1>1, PoolStays DEF ConnectorInv, allVars, vars, threadVars
    <2> QED BY <1>1, <2>1
            DEF ConnectorInv, RequestTypes, RequestsSound, ScanKnowsTried, allVars,
                connectorVars
<1> QED BY <1>1, ConnectInv, NextInv, NextScanInv, PickedInv, FailedInv, DialInv,
           StreamFailureInv, StreamEndInv, PoolUnderneath
        DEF ConnectorNext, ConnectStep, StreamStep

\* The inductive invariant holds in every reachable state.
THEOREM ConnectorInvariant == ConnectorSpec => []ConnectorInv
<1>1. ConnectorInit => ConnectorInv
    <2> SUFFICES ASSUME ConnectorInit PROVE ConnectorInv
        OBVIOUS
    <2>1. PoolInv
        BY InitInv DEF ConnectorInit
    <2>2. RequestTypes
        BY FreshRequest DEF ConnectorInit, RequestTypes
    <2>3. \A r \in Requests : conn[r] = NoConnection /\ history[r] = NoHistory
        BY DEF ConnectorInit
    <2>4. \A r \in Requests : ScanKnowsTried(r)
        BY <2>3 DEF ScanKnowsTried, NoConnection
    <2> QED BY <2>1, <2>2, <2>3, <2>4, FreshRequest DEF ConnectorInv, RequestsSound
<1>2. ConnectorInv /\ [ConnectorNext]_allVars => ConnectorInv'
    BY ConnectorStep
<1> QED BY <1>1, <1>2, PTL DEF ConnectorSpec

\* No request dials a node twice or more nodes than max_retries or the pool
\* allowed when it began, whatever is merged or retired meanwhile.
THEOREM AttemptsBounded == ConnectorSpec => []AttemptsDistinctAndBounded
<1>1. ConnectorInv => AttemptsDistinctAndBounded
    <2> SUFFICES ASSUME ConnectorInv, NEW r \in Requests
                 PROVE  /\ history[r].retries > 0 => history[r].dials <= history[r].retries
                        /\ history[r].size > 0 =>
                            /\ history[r].dials <= history[r].size
                            /\ history[r].dials = Cardinality(history[r].nodes)
        BY DEF AttemptsDistinctAndBounded
    <2>1. /\ AttemptsSound(conn[r], history[r])
          /\ history[r].dials \in Nat /\ history[r].size \in Nat /\ history[r].retries \in Nat
          /\ conn[r].remaining \in Nat
        BY RequestFacts DEF HistoryRecord, Connection
    <2>2. CASE history[r].size > 0
        BY <2>1, <2>2 DEF AttemptsSound, AttemptLimit
    <2>3. CASE history[r].size = 0
        BY <2>1, <2>3 DEF AttemptsSound
    <2> QED BY <2>1, <2>2, <2>3
<1> QED BY ConnectorInvariant, <1>1, PTL

\* A request that found nodes in the pool never goes direct, even if they are
\* all retired or disabled before it dials.
THEOREM NeverDirect == ConnectorSpec => []NoDirectFallback
<1>1. ConnectorInv => NoDirectFallback
    <2> SUFFICES ASSUME ConnectorInv, NEW r \in Requests,
                        conn[r].stage \in {"dialing", "open", "draining"}, conn[r].key = NoKey
                 PROVE  history[r].size = 0
        BY DEF NoDirectFallback
    <2>1. AttemptsSound(conn[r], history[r]) /\ history[r].size \in Nat
        BY RequestFacts DEF HistoryRecord
    <2> QED BY <2>1 DEF AttemptsSound
<1> QED BY ConnectorInvariant, <1>1, PTL

\* A dial is blamed on its node at most once, and never after an answer.
THEOREM BlamedOnce == ConnectorSpec => []OneBlamePerDial
<1>1. ConnectorInv => OneBlamePerDial
    BY DEF ConnectorInv, RequestsSound, BlamesSound, OneBlamePerDial
<1> QED BY ConnectorInvariant, <1>1, PTL

\* The two counters of the model stay in their ranges.
LEMMA CountersStep ==
    ASSUME ConnectorInv, connects \in 0..MaxConnects,
           unanswered \in [Keys -> 0..FailureThreshold], [ConnectorNext]_allVars
    PROVE  connects' \in 0..MaxConnects /\ unanswered' \in [Keys -> 0..FailureThreshold]
<1> USE ConstantsAssumption, ConnectorAssumption
<1> DEFINE Goal == connects' \in 0..MaxConnects
                   /\ unanswered' \in [Keys -> 0..FailureThreshold]
<1>0. ASSUME UNCHANGED <<connects, unanswered>> PROVE Goal
    BY <1>0
<1>1. ASSUME NEW r \in Requests, Connect(r) PROVE Goal
    BY <1>1 DEF Connect
<1>2. ASSUME NEW r \in Requests, ReceiveData(r) PROVE Goal
    BY <1>2 DEF ReceiveData
<1>3. ASSUME NEW r \in Requests, ReadEof(r) \/ StreamError(r) PROVE Goal
    <2>1. connects' = connects
        BY <1>3 DEF ReadEof, StreamError
    <2>2. \/ unanswered' = unanswered
          \/ unanswered' = [unanswered EXCEPT ![conn[r].key] =
                IF @ < FailureThreshold THEN @ + 1 ELSE @]
        BY <1>3 DEF ReadEof, StreamError, ReportPreResponseFailure
    <2>3. unanswered' \in [Keys -> 0..FailureThreshold]
        BY <2>2
    <2> QED BY <2>1, <2>3
<1>4. ASSUME NEW r \in Requests, ConnectStep(r) \/ CloseStream(r) \/ Finish(r)
      PROVE  UNCHANGED <<connects, unanswered>>
    BY <1>4 DEF ConnectStep, NextDirect, NextNone, NextScan, Picked, NothingPicked,
                DialSucceeds, DialFails, DialExhausted, CloseStream, Finish
<1>5. ASSUME (\E t \in Threads : PoolStep(t)) \/ Maintenance \/ UNCHANGED allVars
      PROVE  UNCHANGED <<connects, unanswered>>
    BY <1>5 DEF PoolStep, Maintenance, connectorVars, allVars
<1> HIDE DEF Goal
<1>6. Goal
    BY <1>0, <1>1, <1>2, <1>3, <1>4, <1>5 DEF ConnectorNext, StreamStep
<1> QED BY <1>6 DEF Goal

\* Types of the requests and of the pool under them.
THEOREM ConnectorTypes == ConnectorSpec => []ConnectorTypeOK
<1> DEFINE Counters == /\ connects \in 0..MaxConnects
                       /\ unanswered \in [Keys -> 0..FailureThreshold]
<1>1. ConnectorInit => Counters
    BY ConstantsAssumption, ConnectorAssumption DEF ConnectorInit
<1>2. ConnectorInv /\ Counters /\ [ConnectorNext]_allVars => Counters'
    BY CountersStep
<1>3. ConnectorInv /\ Counters => ConnectorTypeOK
    BY DEF ConnectorInv, PoolInv, RequestTypes, HistoryRecord, ConnectorTypeOK
<1> HIDE DEF Counters
<1> QED BY ConnectorInvariant, <1>1, <1>2, <1>3, PTL DEF ConnectorSpec

-----------------------------------------------------------------------------
(* The requests as callers of the pool.                                    *)

\* A request tries, dials and reports on nodes the pool has had.
RequestsSeen ==
    \A r \in Requests :
        /\ conn[r].tried \subseteq NodesSeen
        /\ conn[r].key \in NodesSeen \cup {NoKey}
        /\ pc[r] = "returned" => op[r].key \in NodesSeen

\* A scan hands out a node of the vector, and no other step hands one out.
LEMMA HandedOut ==
    ASSUME PoolInv, NEW t \in Threads, NEW r \in Threads,
           \/ ScanStep(t) \/ EndScan(t)
           \/ PutDisabled(t) \/ RemoveDisabled(t) \/ DropRecord(t) \/ Retire(t)
           \/ ReadGeneration(t) \/ ResetSelection(t) \/ SaveBegin(t) \/ SaveEnd(t),
           pc'[r] = "returned"
    PROVE  \/ op'[r].key \in Range(proxies)
           \/ pc[r] = "returned" /\ op'[r] = op[r]
<1>1. TypeOK /\ pc \in [Threads -> PCs] /\ op \in [Threads -> Operation]
    BY DEF PoolInv, TypeOK
<1>2. CASE ScanStep(t)
    <2>1. Drawable \subseteq DOMAIN proxies
        BY DEF PoolInv, BagIndicesInRange, Drawable, MustRefill
    <2>2. PICK i \in Drawable : IF PassedOver(t, proxies[i])
                                THEN Skip(t, proxies[i]) ELSE HandOut(t, proxies[i])
        BY <1>2 DEF ScanStep
    <2>3. CASE Skip(t, proxies[i])
        BY <1>1, <2>3 DEF Skip
    <2>4. CASE HandOut(t, proxies[i])
        <3>1. r = t => op'[r].key = proxies[i]
            BY <1>1, <2>4 DEF HandOut, Operation
        <3>2. r # t => pc'[r] = pc[r] /\ op'[r] = op[r]
            BY <1>1, <2>4 DEF HandOut
        <3>3. proxies[i] \in Range(proxies)
            BY <2>1 DEF Range
        <3> QED BY <3>1, <3>2, <3>3
    <2> QED BY <2>2, <2>3, <2>4
<1>3. CASE ~ScanStep(t)
    <2>1. \E label \in {"idle", "retire", "reset", "saving", Continue(op[t])} :
             \E o : Goto(t, label, o)
        BY <1>3 DEF EndScan, PutDisabled, RemoveDisabled, WriteDisabled, DropRecord, Retire,
                    ReadGeneration, ResetSelection, SaveBegin, SaveEnd
    <2>2. Continue(op[t]) # "returned"
        BY DEF Continue
    <2>3. pc'[t] # "returned" /\ (r # t => pc'[r] = pc[r] /\ op'[r] = op[r])
        BY <1>1, <2>1, <2>2, GotoMoves
    <2> QED BY <2>3
<1> QED BY <1>2, <1>3

\* A report hands out nothing.
LEMMA ReportedNotHandedOut ==
    ASSUME PoolInv, NEW t \in Threads, NEW k, NEW r \in Threads, pc'[r] = "returned",
           \/ ReportSuccess(t, k) \/ ReportFailure(t, k)
           \/ RecheckSuccess(t, k, FALSE) \/ RecheckFailure(t, k, FALSE)
    PROVE  pc[r] = "returned" /\ op'[r] = op[r]
<1>1. TypeOK
    BY DEF PoolInv
<1>2. \E label \in {"idle", "rmDisabled", "putDisabled", "dropRecord"} :
         \E o : Goto(t, label, o)
    BY DEF ReportSuccess, ReportFailure, RecheckSuccess, RecheckFailure
<1> QED BY <1>1, <1>2, GotoMoves

\* Every step of a request or of the pool below is one the pool allows.
LEMMA ConnectorMovesPool ==
    ASSUME ConnectorInv, RequestsSeen, [ConnectorNext]_allVars
    PROVE  /\ [Next]_vars /\ ~Restart
           /\ \A r \in Requests : pc'[r] = "returned" =>
                \/ op'[r].key \in Range(proxies)
                \/ pc[r] = "returned" /\ op'[r] = op[r]
<1> DEFINE Returned == \A r \in Requests : pc'[r] = "returned" =>
                         \/ op'[r].key \in Range(proxies)
                         \/ pc[r] = "returned" /\ op'[r] = op[r]
           Goal == [Next]_vars /\ restarts' = restarts /\ Returned
<1>1. /\ PoolInv /\ TypeOK /\ restarts \in Nat
      /\ Requests \subseteq Threads /\ Workers \subseteq Threads /\ Refresher \in Threads
      /\ Requests = Pickers /\ Requests = Reporters
    BY RequestsAreThreads, ConnectorAssumption
       DEF ConnectorInv, PoolInv, TypeOK, Threads, Requests
<1>2. ASSUME UNCHANGED vars PROVE Goal
    BY <1>2 DEF vars, threadVars
<1>3. ASSUME NEW r \in Requests, NEW k \in NodesSeen, ReportSuccess(r, k) \/ ReportFailure(r, k)
      PROVE  Goal
    <2>1. Next
        BY <1>1, <1>3 DEF Next, ReporterCall
    <2>2. restarts' = restarts
        BY <1>3 DEF ReportSuccess, ReportFailure
    <2> QED BY <1>1, <1>3, <2>1, <2>2, ReportedNotHandedOut
<1>4. ASSUME NEW r \in Requests,
             \/ Connect(r) \/ NextDirect(r) \/ NextNone(r) \/ DialExhausted(r)
             \/ ReceiveData(r) \/ CloseStream(r) \/ Finish(r)
      PROVE  Goal
    BY <1>2, <1>4 DEF Connect, NextDirect, NextNone, DialExhausted, ReceiveData, CloseStream,
                      Finish
<1>5. ASSUME NEW r \in Requests, NextScan(r) PROVE Goal
    <2>1. Next
        BY <1>1, <1>5 DEF NextScan, RequestsSeen, Next, PickerCall
    <2>2. /\ restarts' = restarts /\ op' = op
          /\ pc'[r] \in {"scan", "exhausted"} /\ \A u \in Threads \ {r} : pc'[u] = pc[u]
        BY <1>1, <1>5 DEF NextScan, BeginScan, TypeOK
    <2> QED BY <1>1, <2>1, <2>2
<1>6. ASSUME NEW r \in Requests, Picked(r) \/ NothingPicked(r) PROVE Goal
    <2>1. EndScan(r) /\ r \in Threads
        BY <1>1, <1>6 DEF Picked, NothingPicked
    <2>2. Next /\ restarts' = restarts
        BY <2>1 DEF Next, Step, EndScan
    <2> QED BY <1>1, <2>1, <2>2, HandedOut
<1>7. ASSUME NEW r \in Requests, DialSucceeds(r) \/ DialFails(r) PROVE Goal
    <2>1. CASE UNCHANGED vars
        BY <1>2, <2>1
    <2>2. CASE /\ Observed(r)
               /\ ReportSuccess(r, conn[r].key) \/ ReportFailure(r, conn[r].key)
        BY <1>3, <2>2 DEF Observed, RequestsSeen
    <2> QED BY <1>7, <2>1, <2>2 DEF DialSucceeds, DialFails
<1>8. ASSUME NEW r \in Requests, ReadEof(r) \/ StreamError(r) PROVE Goal
    <2>1. CASE UNCHANGED vars
        BY <1>2, <2>1
    <2>2. CASE Observed(r) /\ ReportFailure(r, conn[r].key)
        BY <1>3, <2>2 DEF Observed, RequestsSeen
    <2> QED BY <1>8, <2>1, <2>2 DEF ReadEof, StreamError, ReportPreResponseFailure
<1>9. ASSUME NEW t \in Threads, PoolStep(t) PROVE Goal
    <2>1. \/ ScanStep(t)
          \/ PutDisabled(t) \/ RemoveDisabled(t) \/ DropRecord(t) \/ Retire(t)
          \/ ReadGeneration(t) \/ ResetSelection(t) \/ SaveBegin(t) \/ SaveEnd(t)
        BY <1>9 DEF PoolStep
    <2>2. Next
        BY <2>1 DEF Next, Step
    <2>3. restarts' = restarts
        BY <2>1 DEF ScanStep, PutDisabled, RemoveDisabled, WriteDisabled, DropRecord, Retire,
                    ReadGeneration, ResetSelection, SaveBegin, SaveEnd
    <2> QED BY <1>1, <2>1, <2>2, <2>3, HandedOut
<1>10. ASSUME Maintenance PROVE Goal
    <2>1. Next
        BY <1>10 DEF Maintenance, Next
    <2>2. CASE \E w \in Workers : WorkerCall(w)
        <3>1. PICK w \in Workers, k \in NodesSeen :
                RecheckSuccess(w, k, FALSE) \/ RecheckFailure(w, k, FALSE)
            BY <2>2 DEF WorkerCall
        <3>2. restarts' = restarts
            BY <3>1 DEF RecheckSuccess, RecheckFailure
        <3> QED BY <1>1, <2>1, <3>1, <3>2, ReportedNotHandedOut
    <2>3. CASE \E k \in Keys : CooldownElapses(k)
        <3>1. UNCHANGED <<pc, op, restarts>>
            BY <2>3 DEF CooldownElapses, threadVars
        <3> QED BY <2>1, <3>1
    <2>4. CASE RefresherCall(Refresher)
        <3>1. restarts' = restarts
            BY <2>4 DEF RefresherCall, Flush, Merge
        <3>2. \E label \in {"idle", "save", "reset"} : \E o : Goto(Refresher, label, o)
            BY <2>4 DEF RefresherCall, Flush, Merge
        <3>3. \A r \in Requests : pc'[r] = "returned" => pc[r] = "returned" /\ op'[r] = op[r]
            BY <1>1, <3>2, GotoMoves
        <3> QED BY <2>1, <3>1, <3>3
    <2> QED BY <1>10, <2>2, <2>3, <2>4 DEF Maintenance
<1> HIDE DEF Goal
<1>11. Goal
    <2>1. CASE UNCHANGED allVars
        BY <1>2, <2>1 DEF allVars
    <2> QED BY <1>4, <1>5, <1>6, <1>7, <1>8, <1>9, <1>10, <2>1
            DEF ConnectorNext, ConnectStep, StreamStep
<1>12. ~Restart
    BY <1>1, <1>11 DEF Goal, Restart
<1> QED BY <1>11, <1>12 DEF Goal

\* No request meets a node the pool has not had.
LEMMA SeenStep ==
    ASSUME ConnectorInv, RequestsSeen, [ConnectorNext]_allVars
    PROVE  RequestsSeen'
<1>1. /\ NodesSeen \subseteq NodesSeen' /\ Range(proxies) \subseteq NodesSeen
      /\ \A r \in Requests : pc'[r] = "returned" => op'[r].key \in NodesSeen'
    BY ConnectorMovesPool, NodesStaySeen DEF ConnectorInv, RequestsSeen, NodesSeen
<1>2. conn \in [Requests -> Connection]
    BY DEF ConnectorInv, RequestTypes
<1>3. ASSUME NEW r \in Requests, NEW c, conn' = [conn EXCEPT ![r] = c],
             c.tried \subseteq NodesSeen, c.key \in NodesSeen \cup {NoKey}
      PROVE  RequestsSeen'
    <2>1. conn'[r] = c /\ \A u \in Requests \ {r} : conn'[u] = conn[u]
        BY <1>2, <1>3
    <2> QED BY <1>1, <1>3, <2>1 DEF RequestsSeen
<1>4. ASSUME conn' = conn PROVE RequestsSeen'
    BY <1>1, <1>4 DEF RequestsSeen
<1>5. \A r \in Requests :
         /\ conn[r] \in Connection
         /\ conn[r].tried \subseteq NodesSeen
         /\ conn[r].key \in NodesSeen \cup {NoKey}
    BY <1>2 DEF RequestsSeen
<1>6. ASSUME NEW r \in Requests, Connect(r) PROVE RequestsSeen'
    <2>1. PICK retries \in RetryLimits : conn' = [conn EXCEPT ![r] =
              IF proxies = <<>>
              THEN [NoConnection EXCEPT !.stage = "next", !.remaining = 1, !.direct = TRUE]
              ELSE [NoConnection EXCEPT !.stage = "next",
                        !.remaining = AttemptLimit(Len(proxies), retries)]]
        BY <1>6 DEF Connect
    <2> DEFINE x == IF proxies = <<>>
                    THEN [NoConnection EXCEPT !.stage = "next", !.remaining = 1,
                                              !.direct = TRUE]
                    ELSE [NoConnection EXCEPT !.stage = "next",
                              !.remaining = AttemptLimit(Len(proxies), retries)]
    <2>2. x.tried = {} /\ x.key = NoKey
        BY DEF NoConnection
    <2>3. conn' = [conn EXCEPT ![r] = x]
        BY <2>1
    <2> HIDE DEF x
    <2> QED BY <1>3, <2>2, <2>3
<1>7. ASSUME NEW r \in Requests, NextDirect(r) PROVE RequestsSeen'
    <2> DEFINE x == [conn[r] EXCEPT !.direct = FALSE, !.remaining = 0, !.key = NoKey,
                                    !.stage = "dialing"]
    <2>1. x.tried = conn[r].tried /\ x.key = NoKey
        BY <1>5 DEF Connection
    <2>2. conn' = [conn EXCEPT ![r] = x]
        BY <1>7 DEF NextDirect
    <2> HIDE DEF x
    <2> QED BY <1>3, <1>5, <2>1, <2>2
<1>8. ASSUME NEW r \in Requests, Picked(r) PROVE RequestsSeen'
    <2> DEFINE x == [conn[r] EXCEPT !.tried = @ \cup {op[r].key}, !.remaining = @ - 1,
                                    !.key = op[r].key, !.stage = "dialing"]
    <2>1. x.tried = conn[r].tried \cup {op[r].key} /\ x.key = op[r].key
        BY <1>5 DEF Connection
    <2>2. conn' = [conn EXCEPT ![r] = x] /\ pc[r] = "returned"
        BY <1>8 DEF Picked
    <2>3. op[r].key \in NodesSeen
        BY <2>2 DEF RequestsSeen
    <2> HIDE DEF x
    <2> QED BY <1>3, <1>5, <2>1, <2>2, <2>3
<1>9. ASSUME NEW r \in Requests,
             \/ NextNone(r) \/ NextScan(r) \/ NothingPicked(r)
             \/ DialSucceeds(r) \/ DialFails(r) \/ DialExhausted(r) \/ CloseStream(r)
             \/ ReadEof(r) \/ StreamError(r) \/ ReceiveData(r)
      PROVE  RequestsSeen'
    <2>1. \/ \E s : conn' = [conn EXCEPT ![r].stage = s]
          \/ \E s : conn' = [conn EXCEPT ![r].stage = s, ![r].reported = TRUE]
          \/ conn' = [conn EXCEPT ![r].seen = TRUE]
        BY <1>9 DEF NextNone, NextScan, NothingPicked, DialSucceeds, DialFails, DialExhausted,
                    CloseStream, ReadEof, StreamError, ReportPreResponseFailure, ReceiveData
    <2>2. PICK x : /\ conn' = [conn EXCEPT ![r] = x]
                   /\ x.tried = conn[r].tried /\ x.key = conn[r].key
        <3>1. CASE \E s : conn' = [conn EXCEPT ![r].stage = s]
            BY <1>5, <3>1 DEF Connection
        <3>2. CASE \E s : conn' = [conn EXCEPT ![r].stage = s, ![r].reported = TRUE]
            <4>1. PICK s : conn' = [conn EXCEPT ![r] = [conn[r] EXCEPT !.stage = s,
                                                                       !.reported = TRUE]]
                BY <1>2, <3>2
            <4> DEFINE y == [conn[r] EXCEPT !.stage = s, !.reported = TRUE]
            <4>2. y.tried = conn[r].tried /\ y.key = conn[r].key
                BY <1>5 DEF Connection
            <4>3. conn' = [conn EXCEPT ![r] = y]
                BY <4>1
            <4> HIDE DEF y
            <4> QED BY <4>2, <4>3
        <3>3. CASE conn' = [conn EXCEPT ![r].seen = TRUE]
            <4> DEFINE y == [conn[r] EXCEPT !.seen = TRUE]
            <4>1. y.tried = conn[r].tried /\ y.key = conn[r].key
                BY <1>5 DEF Connection
            <4>2. conn' = [conn EXCEPT ![r] = y]
                BY <3>3
            <4> HIDE DEF y
            <4> QED BY <4>1, <4>2
        <3> QED BY <2>1, <3>1, <3>2, <3>3
    <2> QED BY <1>3, <1>5, <2>2
<1>10. ASSUME NEW r \in Requests, Finish(r) PROVE RequestsSeen'
    <2>1. NoConnection.tried = {} /\ NoConnection.key = NoKey
        BY DEF NoConnection
    <2> QED BY <1>3, <1>10, <2>1 DEF Finish
<1>11. CASE (\E t \in Threads : PoolStep(t)) \/ Maintenance \/ UNCHANGED allVars
    BY <1>4, <1>11 DEF PoolStep, Maintenance, connectorVars, allVars
<1> QED BY <1>6, <1>7, <1>8, <1>9, <1>10, <1>11
        DEF ConnectorNext, ConnectStep, StreamStep

\* The requests use the pool only as the pool allows: what holds of the pool
\* with its unrestricted callers holds of the pool under the requests.
THEOREM ConnectorUsesPool == ConnectorSpec => Spec
<1>1. ConnectorInit => Init /\ RequestsSeen
    BY RequestsAreThreads DEF ConnectorInit, Init, RequestsSeen, NoConnection
<1>2. ConnectorInv /\ RequestsSeen /\ [ConnectorNext]_allVars => RequestsSeen' /\ [Next]_vars
    BY SeenStep, ConnectorMovesPool
<1> QED BY <1>1, <1>2, ConnectorInvariant, PTL DEF ConnectorSpec, Spec

\* The nodes of a pool under requests go through the life cycle: what requests,
\* their retries and their open streams report, however late, moves a node only
\* as the life cycle allows.
THEOREM RequestsFollowLife == ConnectorSpec => NodesFollowLifeCycle
    BY ConnectorUsesPool, PoolImplementsLife, PTL

=============================================================================
