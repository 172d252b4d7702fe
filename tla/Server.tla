-------------------------------- MODULE Server --------------------------------
(***************************************************************************)
(* The inbound side, src/src/server.rs: the accept loop with its semaphore *)
(* and backoff, and the handler task of each client, which recognises HTTP *)
(* or SOCKS5 by the first byte, asks the Connector for a connection and    *)
(* relays.  What a client sends and whether connect finds a route are the  *)
(* environment's; the answers the handler writes are the replies of each   *)
(* client.  Delays are in units of ACCEPT_ERROR_INITIAL_RETRY_DELAY.       *)
(***************************************************************************)
EXTENDS Integers, Sequences, FiniteSets

CONSTANTS
    Clients,         \* client connections
    MaxConnections,  \* max_concurrent_connections, at least 1
    MaxDelay,        \* ACCEPT_ERROR_MAX_RETRY_DELAY
    MaxErrors        \* bound: accept errors in a row that are counted

ASSUME ServerAssumption ==
    /\ IsFiniteSet(Clients)
    /\ MaxConnections \in Nat \ {0}
    /\ MaxDelay \in Nat \ {0}
    /\ MaxErrors \in Nat

VARIABLES
    listener,  \* where run_listener_with_limit is in its loop
    permits,   \* available permits of connection_limit
    delay,     \* retry_delay
    client,    \* per client: its handler and what it was sent
    errors     \* history: accept errors since the last success, up to MaxErrors

serverVars == <<listener, permits, delay, client, errors>>

HandlerStages == {"away", "backlog", "peek", "httpHead", "socksMethods", "socksRequest",
           "connect", "connected", "relay", "done"}
Protocols == {"none", "http", "httpConnect", "socks5"}
Replies == {"400", "502", "200", "method00", "methodFF",
            "socks00", "socks01", "socks05", "socks07"}

Client == [stage : HandlerStages, protocol : Protocols, remote : BOOLEAN,
           replies : Seq(Replies)]

Away == [stage |-> "away", protocol |-> "none", remote |-> FALSE, replies |-> <<>>]

\* The handler tasks; each owns a permit until it ends.
Handled(stage) == stage \notin {"away", "backlog"}
Handlers == {c \in Clients : Handled(client[c].stage)}

ServerInit ==
    /\ listener = "acquire"
    /\ permits = MaxConnections
    /\ delay = 1
    /\ client = [c \in Clients |-> Away]
    /\ errors = 0

-----------------------------------------------------------------------------
(* run_listener_with_limit.                                                *)

Acquire ==
    /\ listener = "acquire"
    /\ permits > 0
    /\ permits' = permits - 1
    /\ listener' = "accept"
    /\ UNCHANGED <<delay, client, errors>>

AcceptKeepsDelay(c) ==
    /\ listener = "accept"
    /\ client[c].stage = "backlog"
    /\ client' = [client EXCEPT ![c].stage = "peek"]
    /\ errors' = 0
    /\ listener' = "acquire"
    /\ UNCHANGED <<permits, delay>>

\* The permit moves into the handler task.
Accept(c) ==
    /\ listener = "accept"
    /\ client[c].stage = "backlog"
    /\ client' = [client EXCEPT ![c].stage = "peek"]
    /\ delay' = 1
    /\ errors' = 0
    /\ listener' = "acquire"
    /\ UNCHANGED permits

AcceptFailsKeepsPermit ==
    /\ listener = "accept"
    /\ errors' = IF errors < MaxErrors THEN errors + 1 ELSE errors
    /\ listener' = "sleep"
    /\ UNCHANGED <<permits, delay, client>>

AcceptFails ==
    /\ listener = "accept"
    /\ permits' = permits + 1
    /\ errors' = IF errors < MaxErrors THEN errors + 1 ELSE errors
    /\ listener' = "sleep"
    /\ UNCHANGED <<delay, client>>

\* next_accept_retry_delay
DoubledWithoutLimit(d) == 2 * d
Doubled(d) == IF 2 * d < MaxDelay THEN 2 * d ELSE MaxDelay

WakeUp ==
    /\ listener = "sleep"
    /\ delay' = Doubled(delay)
    /\ listener' = "acquire"
    /\ UNCHANGED <<permits, client, errors>>

-----------------------------------------------------------------------------
(* A handler task.                                                         *)

listenerVars == <<listener, permits, delay, errors>>

Enter(c, stage) == client' = [client EXCEPT ![c].stage = stage]

\* Write an answer and go on, or find the client gone.
Reply(c, answer, stage) ==
    \/ client' = [client EXCEPT ![c].replies = Append(@, answer), ![c].stage = stage]
    \/ Enter(c, "done")

\* handle_client
Peek(c) ==
    /\ client[c].stage = "peek"
    /\ \/ client' = [client EXCEPT ![c].stage = "socksMethods", ![c].protocol = "socks5"]
       \/ client' = [client EXCEPT ![c].stage = "httpHead", ![c].protocol = "http"]
    /\ UNCHANGED listenerVars

\* The client closes, or sends what ends the handler without an answer: an
\* unfinished or oversized HTTP header, a bad SOCKS5 greeting.
GiveUp(c) ==
    /\ client[c].stage \in {"peek", "httpHead", "socksMethods"}
    /\ Enter(c, "done")
    /\ UNCHANGED listenerVars

\* parse_http_request
HttpRequest(c) ==
    /\ client[c].stage = "httpHead"
    /\ \E protocol \in {"http", "httpConnect"} :
        client' = [client EXCEPT ![c].stage = "connect", ![c].protocol = protocol]
    /\ UNCHANGED listenerVars

BadHttpRequest(c) ==
    /\ client[c].stage = "httpHead"
    /\ Reply(c, "400", "done")
    /\ UNCHANGED listenerVars

\* handle_socks5: the methods, then the request.
SocksMethods(c) ==
    /\ client[c].stage = "socksMethods"
    /\ Reply(c, "method00", "socksRequest") \/ Reply(c, "methodFF", "done")
    /\ UNCHANGED listenerVars

SocksRequest(c) ==
    /\ client[c].stage = "socksRequest"
    /\ Enter(c, "connect")
    /\ UNCHANGED listenerVars

\* read_socks5_request fails, or the command is not CONNECT.
BadSocksRequest(c) ==
    /\ client[c].stage = "socksRequest"
    /\ \E answer \in {"socks01", "socks07"} : Reply(c, answer, "done")
    /\ UNCHANGED listenerVars

ConnectSucceeds(c) ==
    /\ client[c].stage = "connect"
    /\ client' = [client EXCEPT ![c].stage = "connected", ![c].remote = TRUE]
    /\ UNCHANGED listenerVars

ConnectFailsGoesOn(c) ==
    /\ client[c].stage = "connect"
    /\ Reply(c, IF client[c].protocol = "socks5" THEN "socks05" ELSE "502",
             "connected")
    /\ UNCHANGED listenerVars

ConnectFails(c) ==
    /\ client[c].stage = "connect"
    /\ Reply(c, IF client[c].protocol = "socks5" THEN "socks05" ELSE "502", "done")
    /\ UNCHANGED listenerVars

\* Tunnels are announced to the client; a plain request goes to the remote,
\* whose answer is relayed.
StartRelay(c) ==
    /\ client[c].stage = "connected"
    /\ CASE client[c].protocol = "socks5" -> Reply(c, "socks00", "relay")
         [] client[c].protocol = "httpConnect" -> Reply(c, "200", "relay")
         [] OTHER -> Enter(c, "relay") \/ Enter(c, "done")
    /\ UNCHANGED listenerVars

EndRelay(c) ==
    /\ client[c].stage = "relay"
    /\ Enter(c, "done")
    /\ UNCHANGED listenerVars

EndTaskKeepsPermit(c) ==
    /\ client[c].stage = "done"
    /\ client' = [client EXCEPT ![c] = Away]
    /\ UNCHANGED listenerVars

\* The task ends on every path above: the sockets and the permit are dropped.
EndTask(c) ==
    /\ client[c].stage = "done"
    /\ client' = [client EXCEPT ![c] = Away]
    /\ permits' = permits + 1
    /\ UNCHANGED <<listener, delay, errors>>

HandlerStep(c) ==
    \/ Peek(c) \/ GiveUp(c) \/ HttpRequest(c) \/ BadHttpRequest(c)
    \/ SocksMethods(c) \/ SocksRequest(c) \/ BadSocksRequest(c)
    \/ ConnectSucceeds(c) \/ ConnectFails(c) \/ StartRelay(c) \/ EndRelay(c)
    \/ EndTask(c)

\* A new connection enters the listener's backlog.
Arrive(c) ==
    /\ client[c].stage = "away"
    /\ Enter(c, "backlog")
    /\ UNCHANGED listenerVars

ServerNext ==
    \/ Acquire \/ AcceptFails \/ WakeUp
    \/ \E c \in Clients : Accept(c) \/ HandlerStep(c) \/ Arrive(c)

ServerSpec == ServerInit /\ [][ServerNext]_serverVars

\* The loop runs whenever it can and accept does not fail for ever; a task
\* whose connection is over ends.  No client is obliged to send anything, for
\* no read of a handler has a timeout.
ServerFairness ==
    /\ WF_serverVars(Acquire)
    /\ WF_serverVars(WakeUp)
    /\ \A c \in Clients : SF_serverVars(Accept(c)) /\ WF_serverVars(EndTask(c))

-----------------------------------------------------------------------------
(* Properties.                                                             *)

\* The loop, the semaphore and every handler are in a known state.
ServerTypeOK ==
    /\ listener \in {"acquire", "accept", "sleep"}
    /\ permits \in 0..MaxConnections
    /\ delay \in 1..MaxDelay
    /\ client \in [Clients -> Client]
    /\ errors \in 0..MaxErrors

\* Every permit is free, with the accept loop or with exactly one handler: no
\* error path of the loop or of a handler leaks one, and no more than
\* max_concurrent_connections handlers ever run.
PermitsConserved ==
    permits + Cardinality(Handlers) + (IF listener = "accept" THEN 1 ELSE 0)
        = MaxConnections

\* What a client was told fits what happened: bytes are relayed only behind a
\* success answer to a tunnel (or behind none, to a plain request), success is
\* announced only with a remote connection, and no second verdict follows.
RepliesConsistent ==
    \A c \in Clients :
        LET s == client[c]
            verdicts == {i \in DOMAIN s.replies : s.replies[i] # "method00"}
            said(answers) == \E i \in DOMAIN s.replies : s.replies[i] \in answers
        IN  /\ Cardinality(verdicts) <= 1
            /\ said({"200", "socks00"}) => s.remote
            /\ s.stage = "relay" =>
                /\ s.remote
                /\ s.protocol = "httpConnect" => s.replies = <<"200">>
                /\ s.protocol = "socks5" => s.replies = <<"method00", "socks00">>
                /\ s.protocol = "http" => s.replies = <<>>

\* The sleep after an accept error doubles from error to error up to the
\* maximum and starts over after a success.
BackoffFollowsErrors ==
    listener = "sleep" /\ errors < MaxErrors =>
        delay = IF 2 ^ (errors - 1) < MaxDelay THEN 2 ^ (errors - 1) ELSE MaxDelay

\* A connection in the backlog is accepted in the end unless all permits stay
\* with handlers: accept errors and backoff alone lose no client.
AcceptedUnlessFull ==
    \A c \in Clients :
        client[c].stage = "backlog" ~>
            (client[c].stage # "backlog" \/ Cardinality(Handlers) = MaxConnections)

=============================================================================
