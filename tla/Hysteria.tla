------------------------------- MODULE Hysteria -------------------------------
(***************************************************************************)
(* Dials through Hysteria v1 nodes: HysteriaAdapter of src/src/hysteria.rs *)
(* as the outbound connector and the health probes use it.  Each dial      *)
(* rebuilds the adapter of its node (connection_scoped_clone) and keeps it *)
(* as long as its stream, so that the QUIC session the adapter caches, and *)
(* its UDP socket, go with the stream.                                     *)
(*                                                                         *)
(* Addresses are counted.  The network's answers, the end of a session and *)
(* the timeout around a dial may come at any step.  The packets below a    *)
(* session, and their obfuscation, are left out.                           *)
(***************************************************************************)
EXTENDS Integers

CONSTANTS
    Dials,          \* the tasks that dial
    PoolNode,       \* the adapter that the pool's own node holds
    MaxAddresses    \* bound: addresses of a server

ASSUME HysteriaAssumption ==
    /\ PoolNode \notin Dials
    /\ MaxAddresses \in Nat \ {0}

VARIABLES
    dial,       \* per dial: where it is
    addresses,  \* per dial: addresses it has not tried
    making,     \* per dial: whether it holds an endpoint under construction
    conn        \* per adapter: its cached session

hysteriaVars == <<dial, addresses, making, conn>>

Adapters == Dials \cup {PoolNode}

\* The stages of dial_tcp up to the stream.  From "resolve" to "hello" the
\* adapter's lock is held.
Connecting == {"resolve", "connect", "control", "hello"}
DialStages == {"idle", "lock", "stream", "request", "response", "open"} \cup Connecting

\* Which adapter a dial uses.
SharedAdapter(d) == PoolNode
AdapterOf(d) == d

HysteriaInit ==
    /\ dial = [d \in Dials |-> "idle"]
    /\ addresses = [d \in Dials |-> 0]
    /\ making = [d \in Dials |-> FALSE]
    /\ conn = [a \in Adapters |-> "none"]

-----------------------------------------------------------------------------
(* The dial.                                                               *)

Move(d, stage) == dial' = [dial EXCEPT ![d] = stage]

Locked(a) == \E d \in Dials : AdapterOf(d) = a /\ dial[d] \in Connecting

\* The dial returns an error or is dropped: with it go an endpoint under
\* construction, the lock and the adapter made for the dial.
Abandon(d) ==
    /\ Move(d, "idle")
    /\ addresses' = [addresses EXCEPT ![d] = 0]
    /\ making' = [making EXCEPT ![d] = FALSE]
    /\ conn' = [conn EXCEPT ![d] = "none"]

\* connection_scoped_clone.  An adapter that cannot be rebuilt fails the dial
\* before it has any state.
BeginDial(d) ==
    /\ dial[d] = "idle"
    /\ Move(d, "lock")
    /\ UNCHANGED <<addresses, making, conn>>

\* connection: a cached session is used while it is not closed.
LockConn(d) ==
    /\ dial[d] = "lock"
    /\ ~Locked(AdapterOf(d))
    /\ Move(d, IF conn[AdapterOf(d)] = "live" THEN "stream" ELSE "resolve")
    /\ UNCHANGED <<addresses, making, conn>>

\* resolve_host_all; no address at all is an error.
Resolve(d) ==
    /\ dial[d] = "resolve"
    /\ \/ /\ Move(d, "connect")
          /\ \E n \in 1..MaxAddresses : addresses' = [addresses EXCEPT ![d] = n]
          /\ UNCHANGED <<making, conn>>
       \/ Abandon(d)

\* An address failed: its endpoint is dropped, the next one is tried, the
\* error of the last one is returned.
TryNextAddress(d) ==
    IF addresses[d] = 0 THEN Abandon(d)
    ELSE /\ Move(d, "connect")
         /\ making' = [making EXCEPT ![d] = FALSE]
         /\ UNCHANGED <<addresses, conn>>

\* connect_addr: bind and connect, with a timeout of its own.
ConnectAddr(d) ==
    /\ dial[d] = "connect"
    /\ addresses[d] > 0
    /\ addresses' = [addresses EXCEPT ![d] = @ - 1]
    /\ making' = [making EXCEPT ![d] = TRUE]
    /\ Move(d, "control")
    /\ UNCHANGED conn

\* The session stands and its control stream is open, or the timeout of either
\* is over.
OpenControl(d) ==
    /\ dial[d] = "control"
    /\ \/ Move(d, "hello") /\ UNCHANGED <<addresses, making, conn>>
       \/ TryNextAddress(d)

\* authenticate: the server's hello accepts or rejects, or the stream ends.
Authenticate(d) ==
    /\ dial[d] = "hello"
    /\ \/ /\ Move(d, "stream")
          /\ making' = [making EXCEPT ![d] = FALSE]
          /\ conn' = [conn EXCEPT ![AdapterOf(d)] = "live"]
          /\ UNCHANGED addresses
       \/ TryNextAddress(d)

\* open_bi on the session of the adapter, which may have ended meanwhile.
OpenStream(d) ==
    /\ dial[d] = "stream"
    /\ IF conn[AdapterOf(d)] = "live"
       THEN Move(d, "request") /\ UNCHANGED <<addresses, making, conn>>
       ELSE Abandon(d)

\* The request is written.  With fast_open the answer is not waited for (nor
\* read later: it stays in front of what the target sends).
WriteRequest(d) ==
    /\ dial[d] = "request"
    /\ \/ /\ conn[AdapterOf(d)] = "live"
          /\ \E fastOpen \in BOOLEAN : Move(d, IF fastOpen THEN "open" ELSE "response")
          /\ UNCHANGED <<addresses, making, conn>>
       \/ Abandon(d)

ReadResponse(d) ==
    /\ dial[d] = "response"
    /\ \/ Move(d, "open") /\ UNCHANGED <<addresses, making, conn>>
       \/ Abandon(d)

\* The timeout of Connector::connect or of run_health_check drops the dial at
\* any await; nothing else ends a server that never sends its hello.
Cancel(d) ==
    /\ dial[d] \notin {"idle", "open"}
    /\ Abandon(d)

\* ConnectionScopedStream is dropped, and the adapter it owns.
CloseStream(d) ==
    /\ dial[d] = "open"
    /\ Abandon(d)

\* The peer, an error or the idle timeout ends a session.  The adapter keeps
\* it until it connects anew.
SessionEnds(a) ==
    /\ conn[a] = "live"
    /\ conn' = [conn EXCEPT ![a] = "closed"]
    /\ UNCHANGED <<dial, addresses, making>>

DialStep(d) ==
    \/ BeginDial(d) \/ LockConn(d) \/ Resolve(d) \/ ConnectAddr(d) \/ OpenControl(d)
    \/ Authenticate(d) \/ OpenStream(d) \/ WriteRequest(d) \/ ReadResponse(d)
    \/ Cancel(d) \/ CloseStream(d)

HysteriaNext ==
    \/ \E d \in Dials : DialStep(d)
    \/ \E a \in Adapters : SessionEnds(a)

HysteriaSpec == HysteriaInit /\ [][HysteriaNext]_hysteriaVars

-----------------------------------------------------------------------------
(* Properties.                                                             *)

HysteriaTypeOK ==
    /\ dial \in [Dials -> DialStages]
    /\ addresses \in [Dials -> Nat]
    /\ making \in [Dials -> BOOLEAN]
    /\ conn \in [Adapters -> {"none", "live", "closed"}]

\* connection_scoped_clone exists so that no session outlives the stream it was
\* made for: whichever address fails, whenever a dial is cut off or a session
\* ends, a dial holds at most one socket, the one under construction or the
\* cached one, and a task that is not dialling holds none.  Without it closed
\* streams leave a session per node behind and descriptors run out.
NoSessionOutlivesItsStream ==
    /\ \A a \in Adapters : conn[a] # "none" =>
        /\ a \in Dials
        /\ dial[a] \in {"stream", "request", "response", "open"}
    /\ \A d \in Dials : making[d] => dial[d] \in {"control", "hello"}

=============================================================================
