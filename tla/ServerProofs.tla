----------------------------- MODULE ServerProofs -----------------------------
(* Proofs that the accept loop and its handlers conserve the permits, that *)
(* clients are told what happened and that the backoff doubles, for every  *)
(* limit and every finite set of clients.                                  *)
EXTENDS Server, FiniteSetTheorems, SequenceTheorems, TLAPS

Held == IF listener = "accept" THEN 1 ELSE 0

\* The inductive invariant: the accounting equation and the types it needs.
PermitsInv ==
    /\ listener \in {"acquire", "accept", "sleep"}
    /\ permits \in Nat
    /\ client \in [Clients -> Client]
    /\ permits + Cardinality(Handlers) + Held = MaxConnections

\* The handlers are finitely many.
LEMMA HandlersFinite == IsFiniteSet(Handlers) /\ Cardinality(Handlers) \in Nat
<1>1. Handlers \subseteq Clients
    BY DEF Handlers
<1> QED BY <1>1, ServerAssumption, FS_Subset, FS_CardinalityType

\* A step inside one handler keeps the set of handlers and the accounting.
LEMMA HandlerKeeps ==
    ASSUME PermitsInv, NEW c \in Clients, NEW s \in Client,
           Handled(client[c].stage) <=> Handled(s.stage),
           client' = [client EXCEPT ![c] = s],
           UNCHANGED <<listener, permits>>
    PROVE  PermitsInv'
<1>1. client' \in [Clients -> Client]
    BY DEF PermitsInv
<1>2. Handlers' = Handlers
    BY DEF Handlers, PermitsInv
<1> QED BY <1>1, <1>2 DEF PermitsInv, Held

\* Changing a stage, or sending an answer, gives a client record.
LEMMA ClientWrites ==
    ASSUME PermitsInv, NEW c \in Clients
    PROVE  /\ client[c] \in Client
           /\ \A st \in HandlerStages : [client[c] EXCEPT !.stage = st] \in Client
           /\ \A st \in HandlerStages, a \in Replies :
                [client[c] EXCEPT !.replies = Append(@, a), !.stage = st] \in Client
           /\ Away \in Client
<1>1. client[c] \in Client
    BY DEF PermitsInv
<1>2. Away \in Client
    BY DEF Away, Client, HandlerStages, Protocols, Replies
<1>3. ASSUME NEW a \in Replies PROVE Append(client[c].replies, a) \in Seq(Replies)
    BY <1>1 DEF Client
<1> QED BY <1>1, <1>2, <1>3 DEF Client

\* A handler that changes its stage or answers goes on owning its permit.
LEMMA EnterKeeps ==
    ASSUME PermitsInv, NEW c \in Clients, NEW st \in HandlerStages,
           Handled(client[c].stage) <=> Handled(st),
           Enter(c, st), UNCHANGED listenerVars
    PROVE  PermitsInv'
<1> DEFINE s == [client[c] EXCEPT !.stage = st]
<1>1. s \in Client /\ s.stage = st
    BY ClientWrites DEF Client
<1>2. client' = [client EXCEPT ![c] = s]
    BY DEF Enter
<1> HIDE DEF s
<1> QED BY <1>1, <1>2, HandlerKeeps DEF listenerVars

\* The same for a step that answers the client.
LEMMA ReplyKeeps ==
    ASSUME PermitsInv, NEW c \in Clients, NEW st \in HandlerStages, NEW a \in Replies,
           Handled(client[c].stage), Handled(st),
           Reply(c, a, st), UNCHANGED listenerVars
    PROVE  PermitsInv'
<1>1. CASE Enter(c, "done")
    BY <1>1, EnterKeeps DEF Handled, HandlerStages
<1>2. CASE client' = [client EXCEPT ![c].replies = Append(@, a), ![c].stage = st]
    <2> DEFINE s == [client[c] EXCEPT !.replies = Append(@, a), !.stage = st]
    <2>1. s \in Client /\ s.stage = st
        BY ClientWrites DEF Client
    <2>2. client' = [client EXCEPT ![c] = s]
        BY <1>2 DEF PermitsInv
    <2> HIDE DEF s
    <2> QED BY <2>1, <2>2, HandlerKeeps DEF listenerVars
<1> QED BY <1>1, <1>2 DEF Reply

\* Accepting a client makes one more handler, the end of a task one less.
LEMMA HandlerCount ==
    ASSUME PermitsInv, NEW c \in Clients, NEW s \in Client,
           client' = [client EXCEPT ![c] = s]
    PROVE  /\ ~Handled(client[c].stage) /\ Handled(s.stage) =>
                Cardinality(Handlers') = Cardinality(Handlers) + 1
           /\ Handled(client[c].stage) /\ ~Handled(s.stage) =>
                Cardinality(Handlers') = Cardinality(Handlers) - 1
           /\ client' \in [Clients -> Client]
<1>1. client' \in [Clients -> Client]
    BY DEF PermitsInv
<1>2. ASSUME ~Handled(client[c].stage), Handled(s.stage)
      PROVE  Cardinality(Handlers') = Cardinality(Handlers) + 1
    <2>1. Handlers' = Handlers \cup {c} /\ c \notin Handlers
        BY <1>2 DEF Handlers, PermitsInv
    <2> QED BY <2>1, HandlersFinite, FS_AddElement
<1>3. ASSUME Handled(client[c].stage), ~Handled(s.stage)
      PROVE  Cardinality(Handlers') = Cardinality(Handlers) - 1
    <2>1. Handlers' = Handlers \ {c} /\ c \in Handlers
        BY <1>3 DEF Handlers, PermitsInv
    <2> QED BY <2>1, HandlersFinite, FS_RemoveElement
<1> QED BY <1>1, <1>2, <1>3

\* The accept loop moves a permit from the semaphore to a handler or back.
LEMMA ListenerKeeps ==
    ASSUME PermitsInv,
           Acquire \/ AcceptFails \/ WakeUp \/ \E c \in Clients : Accept(c)
    PROVE  PermitsInv'
<1>0. Cardinality(Handlers) \in Nat
    BY HandlersFinite
<1>1. ASSUME client' = client PROVE Handlers' = Handlers
    BY <1>1 DEF Handlers
<1>2. CASE Acquire
    BY <1>0, <1>1, <1>2 DEF Acquire, PermitsInv, Held
<1>3. CASE AcceptFails
    BY <1>0, <1>1, <1>3 DEF AcceptFails, PermitsInv, Held
<1>4. CASE WakeUp
    BY <1>0, <1>1, <1>4 DEF WakeUp, PermitsInv, Held
<1>5. ASSUME NEW c \in Clients, Accept(c) PROVE PermitsInv'
    <2> DEFINE s == [client[c] EXCEPT !.stage = "peek"]
    <2>record. client[c] \in Client
        BY DEF PermitsInv
    <2>types. "peek" \in HandlerStages
        BY DEF HandlerStages
    <2>1. s \in Client /\ s.stage = "peek"
        BY <2>types, <2>record DEF Client
    <2>2. client' = [client EXCEPT ![c] = s]
        BY <1>5 DEF Accept
    <2> HIDE DEF s
    <2>3. ~Handled(client[c].stage) /\ Handled(s.stage)
        BY <1>5, <2>1 DEF Accept, Handled
    <2>4. /\ Cardinality(Handlers') = Cardinality(Handlers) + 1
          /\ client' \in [Clients -> Client]
        BY <2>1, <2>2, <2>3, HandlerCount
    <2>5. listener = "accept" /\ listener' = "acquire" /\ permits' = permits
        BY <1>5 DEF Accept
    <2> QED BY <1>0, <2>4, <2>5 DEF PermitsInv, Held
<1> QED BY <1>2, <1>3, <1>4, <1>5

\* A handler gives its permit back at its end and never before.
LEMMA HandlerStepKeeps ==
    ASSUME PermitsInv, NEW c \in Clients, HandlerStep(c)
    PROVE  PermitsInv'
<1>0. Cardinality(Handlers) \in Nat
    BY HandlersFinite
<1>1. CASE Peek(c)
    <2>1. PICK st \in {"socksMethods", "httpHead"}, p \in {"socks5", "http"} :
            client' = [client EXCEPT ![c].stage = st, ![c].protocol = p]
        BY <1>1 DEF Peek
    <2> DEFINE s == [client[c] EXCEPT !.stage = st, !.protocol = p]
    <2>record. client[c] \in Client
        BY DEF PermitsInv
    <2>types. st \in HandlerStages /\ p \in Protocols
        BY DEF HandlerStages, Protocols
    <2>2. s \in Client /\ s.stage = st
        BY <2>types, <2>record DEF Client
    <2>3. client' = [client EXCEPT ![c] = s]
        BY <2>1 DEF PermitsInv
    <2> HIDE DEF s
    <2> QED BY <1>1, <2>2, <2>3, HandlerKeeps DEF Peek, Handled, listenerVars
<1>2. CASE GiveUp(c) \/ SocksRequest(c) \/ EndRelay(c)
    BY <1>2, EnterKeeps DEF GiveUp, SocksRequest, EndRelay, Handled, HandlerStages
<1>3. CASE HttpRequest(c)
    <2>1. PICK p \in {"http", "httpConnect"} :
            client' = [client EXCEPT ![c].stage = "connect", ![c].protocol = p]
        BY <1>3 DEF HttpRequest
    <2> DEFINE s == [client[c] EXCEPT !.stage = "connect", !.protocol = p]
    <2>record. client[c] \in Client
        BY DEF PermitsInv
    <2>types. "connect" \in HandlerStages /\ p \in Protocols
        BY DEF HandlerStages, Protocols
    <2>2. s \in Client /\ s.stage = "connect"
        BY <2>types, <2>record DEF Client
    <2>3. client' = [client EXCEPT ![c] = s]
        BY <2>1 DEF PermitsInv
    <2> HIDE DEF s
    <2> QED BY <1>3, <2>2, <2>3, HandlerKeeps DEF HttpRequest, Handled, listenerVars
<1>4. CASE BadHttpRequest(c) \/ SocksMethods(c) \/ BadSocksRequest(c) \/ ConnectFails(c)
    BY <1>4, ReplyKeeps
       DEF BadHttpRequest, SocksMethods, BadSocksRequest, ConnectFails,
           Handled, HandlerStages, Replies
<1>5. CASE ConnectSucceeds(c)
    <2> DEFINE s == [client[c] EXCEPT !.stage = "connected", !.remote = TRUE]
    <2>record. client[c] \in Client
        BY DEF PermitsInv
    <2>types. "connected" \in HandlerStages
        BY DEF HandlerStages
    <2>1. s \in Client /\ s.stage = "connected"
        BY <2>types, <2>record DEF Client
    <2>2. client' = [client EXCEPT ![c] = s]
        BY <1>5 DEF ConnectSucceeds, PermitsInv
    <2> HIDE DEF s
    <2> QED BY <1>5, <2>1, <2>2, HandlerKeeps DEF ConnectSucceeds, Handled, listenerVars
<1>6. CASE StartRelay(c)
    <2>1. \/ Reply(c, "socks00", "relay") \/ Reply(c, "200", "relay")
          \/ Enter(c, "relay") \/ Enter(c, "done")
        BY <1>6 DEF StartRelay
    <2>2. Handled(client[c].stage) /\ UNCHANGED listenerVars
        BY <1>6 DEF StartRelay, Handled
    <2> QED BY <2>1, <2>2, ReplyKeeps, EnterKeeps DEF Handled, HandlerStages, Replies
<1>7. CASE EndTask(c)
    <2>1. Handled(client[c].stage) /\ ~Handled(Away.stage)
        BY <1>7 DEF EndTask, Handled, Away
    <2>2. /\ Cardinality(Handlers') = Cardinality(Handlers) - 1
          /\ client' \in [Clients -> Client]
        BY <1>7, <2>1, ClientWrites, HandlerCount DEF EndTask
    <2>3. permits' = permits + 1 /\ listener' = listener
        BY <1>7 DEF EndTask
    <2> QED BY <1>0, <2>2, <2>3 DEF PermitsInv, Held
<1> QED BY <1>1, <1>2, <1>3, <1>4, <1>5, <1>6, <1>7 DEF HandlerStep

\* The accounting of the permits is kept by every step.
THEOREM PermitsInvariant == ServerSpec => []PermitsInv
<1>1. ServerInit => PermitsInv
    <2>1. ASSUME ServerInit PROVE Handlers = {} /\ client \in [Clients -> Client]
        BY <2>1 DEF ServerInit, Handlers, Handled, Away, Client, HandlerStages, Protocols,
                    Replies
    <2>2. Cardinality({}) = 0
        BY FS_EmptySet
    <2>3. MaxConnections \in Nat
        BY ServerAssumption
    <2> QED BY <2>1, <2>2, <2>3 DEF ServerInit, PermitsInv, Held
<1>2. PermitsInv /\ [ServerNext]_serverVars => PermitsInv'
    <2> SUFFICES ASSUME PermitsInv, [ServerNext]_serverVars PROVE PermitsInv'
        OBVIOUS
    <2>1. ASSUME NEW c \in Clients, Arrive(c) PROVE PermitsInv'
        BY <2>1, EnterKeeps DEF Arrive, Handled, HandlerStages
    <2>2. CASE UNCHANGED serverVars
        BY <2>2 DEF serverVars, PermitsInv, Handlers, Held
    <2> QED BY <2>1, <2>2, ListenerKeeps, HandlerStepKeeps DEF ServerNext
<1> QED BY <1>1, <1>2, PTL DEF ServerSpec

\* At most max_concurrent_connections handlers run and no permit is lost, on
\* every path of the accept loop and of the handlers.
THEOREM PermitAccounting == ServerSpec => []PermitsConserved
<1>1. PermitsInv => PermitsConserved
    BY DEF PermitsInv, PermitsConserved, Held
<1> QED BY PermitsInvariant, <1>1, PTL

-----------------------------------------------------------------------------
(* What the clients are told.                                              *)

\* What a client has been told before the verdict on its request.
Opening(protocol) == IF protocol = "socks5" THEN <<"method00">> ELSE <<>>

\* What a client has been told when its bytes are relayed.
Announced(protocol) ==
    CASE protocol = "socks5" -> <<"method00", "socks00">>
      [] protocol = "httpConnect" -> <<"200">>
      [] OTHER -> <<>>

\* The answers to a client so far: at most the method and then one verdict, and
\* a good one only with a remote connection.
Told(s) ==
    \E start \in {<<>>, <<"method00">>} :
        \/ s.replies = start
        \/ \E a \in Replies :
            /\ s.replies = Append(start, a)
            /\ a \in {"200", "socks00"} => s.remote

\* What each stage of a handler knows of its client.
HandlerSound(s) ==
    /\ s.stage \in {"away", "backlog", "peek", "httpHead"} => s.replies = <<>>
    /\ s.stage = "httpHead" => s.protocol = "http"
    /\ s.stage = "socksMethods" => s.protocol = "socks5" /\ s.replies = <<>>
    /\ s.stage = "socksRequest" => s.protocol = "socks5" /\ s.replies = <<"method00">>
    /\ s.stage \in {"connect", "connected"} => s.replies = Opening(s.protocol)
    /\ s.stage = "connected" => s.remote
    /\ s.stage = "relay" => s.remote /\ s.replies = Announced(s.protocol)
    /\ s.stage = "done" => Told(s)

\* The inductive invariant of the answers.
HandlersSound == \A c \in Clients : HandlerSound(client[c])

\* The announcements of a tunnel, behind what was said before.
LEMMA Announcements ==
    /\ Append(<<>>, "200") = <<"200">>
    /\ Append(<<"method00">>, "socks00") = <<"method00", "socks00">>
<1> DEFINE told == Append(<<"method00">>, "socks00")
<1>1. "200" \in Replies /\ "method00" \in Replies /\ "socks00" \in Replies
    BY DEF Replies
<1>2. ASSUME NEW a \in Replies PROVE Append(<<>>, a) = <<a>>
    OBVIOUS
<1>3. <<"method00">> \in Seq(Replies) /\ Len(<<"method00">>) = 1
    BY <1>1
<1>4. told \in Seq(Replies) /\ Len(told) = 2 /\ told[1] = "method00" /\ told[2] = "socks00"
    BY <1>1, <1>3, AppendProperties
<1>5. <<"method00", "socks00">> \in Seq(Replies) /\ Len(<<"method00", "socks00">>) = 2
    BY <1>1
<1> HIDE DEF told
<1>6. told = <<"method00", "socks00">>
    BY <1>4, <1>5, SeqEqual
<1> QED BY <1>1, <1>2, <1>6 DEF told

\* A stage that follows without an answer.
LEMMA EnterFacts ==
    ASSUME client \in [Clients -> Client], NEW c \in Clients, NEW st, Enter(c, st)
    PROVE  /\ client'[c].stage = st /\ client'[c].protocol = client[c].protocol
           /\ client'[c].remote = client[c].remote
           /\ client'[c].replies = client[c].replies
           /\ \A d \in Clients \ {c} : client'[d] = client[d]
BY DEF Enter, Client

\* A stage that follows an answer, or the end of the handler.
LEMMA ReplyFacts ==
    ASSUME client \in [Clients -> Client], NEW c \in Clients, NEW a, NEW st, Reply(c, a, st)
    PROVE  /\ client'[c].protocol = client[c].protocol
           /\ client'[c].remote = client[c].remote
           /\ \A d \in Clients \ {c} : client'[d] = client[d]
           /\ \/ client'[c].stage = st /\ client'[c].replies = Append(client[c].replies, a)
              \/ client'[c].stage = "done" /\ client'[c].replies = client[c].replies
<1>1. CASE Enter(c, "done")
    BY <1>1, EnterFacts
<1>2. CASE client' = [client EXCEPT ![c].replies = Append(@, a), ![c].stage = st]
    BY <1>2 DEF Client
<1> QED BY <1>1, <1>2 DEF Reply

\* Whatever its stage, a client was told no more than Told allows.
LEMMA SoundTold ==
    ASSUME NEW s \in Client, HandlerSound(s)
    PROVE  Told(s)
<1>1. CASE s.replies \in {<<>>, <<"method00">>}
    BY <1>1 DEF Told
<1>2. CASE s.stage = "relay"
    <2>1. s.remote /\ s.replies \in {<<>>, <<"200">>, <<"method00", "socks00">>}
        BY <1>2 DEF HandlerSound, Announced
    <2> QED BY <2>1, Announcements DEF Told, Replies
<1> QED BY <1>1, <1>2 DEF HandlerSound, Opening, Client, HandlerStages

\* A first verdict behind the opening is all a handler adds.
LEMMA VerdictTold ==
    ASSUME NEW s, NEW start \in {<<>>, <<"method00">>}, NEW a \in Replies \ {"200", "socks00"},
           s.replies = Append(start, a)
    PROVE  Told(s)
BY DEF Told

\* Every step of a handler leaves its client with answers that fit.
LEMMA HandlersStep ==
    ASSUME client \in [Clients -> Client], HandlersSound, [ServerNext]_serverVars
    PROVE  HandlersSound'
<1>0. \A c \in Clients : client[c] \in Client /\ HandlerSound(client[c]) /\ Told(client[c])
    BY SoundTold DEF HandlersSound
<1>1. ASSUME NEW c \in Clients, \A d \in Clients \ {c} : client'[d] = client[d],
             HandlerSound(client'[c])
      PROVE  HandlersSound'
    BY <1>1 DEF HandlersSound
<1>2. ASSUME NEW c \in Clients, Enter(c, "done") PROVE HandlersSound'
    <2>1. HandlerSound(client'[c])
        BY <1>0, <1>2, EnterFacts DEF HandlerSound, Told
    <2> QED BY <1>1, <1>2, <2>1, EnterFacts
<1>3. ASSUME NEW c \in Clients, NEW a \in Replies \ {"200", "socks00"}, Reply(c, a, "done"),
             client[c].replies \in {<<>>, <<"method00">>}
      PROVE  HandlersSound'
    <2>1. Told(client'[c]) /\ client'[c].stage = "done"
        BY <1>3, ReplyFacts, VerdictTold DEF Told
    <2>2. HandlerSound(client'[c])
        BY <2>1 DEF HandlerSound
    <2> QED BY <1>1, <1>3, <2>2, ReplyFacts
<1>4. ASSUME NEW c \in Clients, Accept(c) \/ Arrive(c) PROVE HandlersSound'
    <2>1. \E st \in {"peek", "backlog"} : Enter(c, st) /\ client[c].stage \in {"away", "backlog"}
        BY <1>4 DEF Accept, Arrive, Enter
    <2>2. HandlerSound(client'[c])
        BY <1>0, <2>1, EnterFacts DEF HandlerSound
    <2> QED BY <1>1, <2>1, <2>2, EnterFacts
<1>5. ASSUME NEW c \in Clients, Peek(c) PROVE HandlersSound'
    <2>1. /\ client[c].stage = "peek" /\ client'[c].replies = client[c].replies
          /\ \A d \in Clients \ {c} : client'[d] = client[d]
          /\ \/ client'[c].stage = "socksMethods" /\ client'[c].protocol = "socks5"
             \/ client'[c].stage = "httpHead" /\ client'[c].protocol = "http"
        BY <1>5 DEF Peek, Client
    <2>2. HandlerSound(client'[c])
        BY <1>0, <2>1 DEF HandlerSound
    <2> QED BY <1>1, <2>1, <2>2
<1>6. ASSUME NEW c \in Clients, GiveUp(c) \/ EndRelay(c) PROVE HandlersSound'
    BY <1>2, <1>6 DEF GiveUp, EndRelay
<1>7. ASSUME NEW c \in Clients, HttpRequest(c) PROVE HandlersSound'
    <2>1. /\ client[c].stage = "httpHead" /\ client'[c].replies = client[c].replies
          /\ \A d \in Clients \ {c} : client'[d] = client[d]
          /\ client'[c].stage = "connect" /\ client'[c].protocol \in {"http", "httpConnect"}
        BY <1>7 DEF HttpRequest, Client
    <2>2. HandlerSound(client'[c])
        BY <1>0, <2>1 DEF HandlerSound, Opening
    <2> QED BY <1>1, <2>1, <2>2
<1>8. ASSUME NEW c \in Clients, BadHttpRequest(c) \/ BadSocksRequest(c) \/ ConnectFails(c)
      PROVE  HandlersSound'
    <2>1. client[c].replies \in {<<>>, <<"method00">>}
        BY <1>0, <1>8
           DEF BadHttpRequest, BadSocksRequest, ConnectFails, HandlerSound, Opening
    <2>2. \E a \in Replies \ {"200", "socks00"} : Reply(c, a, "done")
        BY <1>8 DEF BadHttpRequest, BadSocksRequest, ConnectFails, Replies
    <2> QED BY <1>3, <2>1, <2>2
<1>9. ASSUME NEW c \in Clients, SocksMethods(c) PROVE HandlersSound'
    <2>1. /\ client[c].stage = "socksMethods" /\ client[c].replies = <<>>
          /\ client[c].protocol = "socks5"
        BY <1>0, <1>9 DEF SocksMethods, HandlerSound
    <2>2. CASE Reply(c, "methodFF", "done")
        BY <1>3, <2>1, <2>2 DEF Replies
    <2>3. CASE Reply(c, "method00", "socksRequest")
        <3>1. HandlerSound(client'[c])
            <4>1. CASE client'[c].stage = "done" /\ client'[c].replies = <<>>
                BY <4>1 DEF HandlerSound, Told
            <4>2. CASE /\ client'[c].stage = "socksRequest"
                       /\ client'[c].replies = Append(<<>>, "method00")
                BY <2>1, <2>3, <4>2, ReplyFacts DEF HandlerSound
            <4> QED BY <2>1, <2>3, <4>1, <4>2, ReplyFacts
        <3> QED BY <1>1, <2>3, <3>1, ReplyFacts
    <2> QED BY <1>9, <2>2, <2>3 DEF SocksMethods
<1>10. ASSUME NEW c \in Clients, SocksRequest(c) PROVE HandlersSound'
    <2>1. client[c].stage = "socksRequest" /\ Enter(c, "connect")
        BY <1>10 DEF SocksRequest
    <2>2. HandlerSound(client'[c])
        BY <1>0, <2>1, EnterFacts DEF HandlerSound, Opening
    <2> QED BY <1>1, <2>1, <2>2, EnterFacts
<1>11. ASSUME NEW c \in Clients, ConnectSucceeds(c) PROVE HandlersSound'
    <2>1. /\ client[c].stage = "connect" /\ client'[c].stage = "connected"
          /\ client'[c].replies = client[c].replies /\ client'[c].remote
          /\ client'[c].protocol = client[c].protocol
          /\ \A d \in Clients \ {c} : client'[d] = client[d]
        BY <1>11 DEF ConnectSucceeds, Client
    <2>2. HandlerSound(client'[c])
        BY <1>0, <2>1 DEF HandlerSound
    <2> QED BY <1>1, <2>1, <2>2
<1>12. ASSUME NEW c \in Clients, StartRelay(c) PROVE HandlersSound'
    <2>1. /\ client[c].stage = "connected" /\ client[c].remote
          /\ client[c].replies = Opening(client[c].protocol)
        BY <1>0, <1>12 DEF StartRelay, HandlerSound
    <2>2. ASSUME NEW a, Reply(c, a, "relay"),
                 Append(client[c].replies, a) = Announced(client[c].protocol)
          PROVE  HandlersSound'
        <3>1. HandlerSound(client'[c])
            <4>1. CASE client'[c].stage = "done" /\ client'[c].replies = client[c].replies
                BY <2>1, <4>1 DEF HandlerSound, Told, Opening
            <4>2. CASE /\ client'[c].stage = "relay"
                       /\ client'[c].replies = Append(client[c].replies, a)
                BY <2>1, <2>2, <4>2, ReplyFacts DEF HandlerSound
            <4> QED BY <2>2, <4>1, <4>2, ReplyFacts
        <3> QED BY <1>1, <2>2, <3>1, ReplyFacts
    <2>3. CASE client[c].protocol = "socks5"
        <3>1. Reply(c, "socks00", "relay")
            BY <1>12, <2>3 DEF StartRelay
        <3>2. client[c].replies = <<"method00">>
              /\ Announced(client[c].protocol) = <<"method00", "socks00">>
            BY <2>1, <2>3 DEF Opening, Announced
        <3> QED BY <2>2, <3>1, <3>2, Announcements
    <2>4. CASE client[c].protocol = "httpConnect"
        <3>1. Reply(c, "200", "relay")
            BY <1>12, <2>4 DEF StartRelay
        <3>2. client[c].replies = <<>> /\ Announced(client[c].protocol) = <<"200">>
            BY <2>1, <2>4 DEF Opening, Announced
        <3> QED BY <2>2, <3>1, <3>2, Announcements
    <2>5. CASE client[c].protocol \notin {"socks5", "httpConnect"}
        <3>1. Enter(c, "relay") \/ Enter(c, "done")
            BY <1>12, <2>5 DEF StartRelay
        <3>2. ASSUME Enter(c, "relay") PROVE HandlerSound(client'[c])
            BY <2>1, <2>5, <3>2, EnterFacts DEF HandlerSound, Opening, Announced
        <3> QED BY <1>1, <1>2, <3>1, <3>2, EnterFacts
    <2> QED BY <2>3, <2>4, <2>5
<1>13. ASSUME NEW c \in Clients, EndTask(c) PROVE HandlersSound'
    <2>1. client'[c] = Away /\ \A d \in Clients \ {c} : client'[d] = client[d]
        BY <1>13 DEF EndTask
    <2>2. HandlerSound(client'[c])
        BY <2>1 DEF HandlerSound, Away
    <2> QED BY <1>1, <2>1, <2>2
<1>14. ASSUME client' = client PROVE HandlersSound'
    BY <1>14 DEF HandlersSound
<1> QED BY <1>4, <1>5, <1>6, <1>7, <1>8, <1>9, <1>10, <1>11, <1>12, <1>13, <1>14
        DEF ServerNext, HandlerStep, Acquire, AcceptFails, WakeUp, serverVars

\* Answers that Told allows hold at most one verdict.
LEMMA OneVerdict ==
    ASSUME NEW s \in Client, Told(s)
    PROVE  /\ Cardinality({i \in DOMAIN s.replies : s.replies[i] # "method00"}) <= 1
           /\ \A i \in DOMAIN s.replies : s.replies[i] \in {"200", "socks00"} => s.remote
<1> DEFINE verdicts == {i \in DOMAIN s.replies : s.replies[i] # "method00"}
<1>1. ASSUME NEW j, verdicts \subseteq {j} PROVE Cardinality(verdicts) <= 1
    <2> HIDE DEF verdicts
    <2>1. IsFiniteSet({j}) /\ Cardinality({j}) = 1
        BY FS_Singleton
    <2> QED BY <1>1, <2>1, FS_Subset
<1>2. PICK start \in {<<>>, <<"method00">>} :
        \/ s.replies = start
        \/ \E a \in Replies :
            /\ s.replies = Append(start, a)
            /\ a \in {"200", "socks00"} => s.remote
    BY DEF Told
<1>3. CASE s.replies = start
    <2>1. verdicts = {} /\ \A i \in DOMAIN s.replies : s.replies[i] = "method00"
        BY <1>2, <1>3
    <2> QED BY <1>1, <2>1
<1>4. ASSUME NEW a \in Replies, s.replies = Append(start, a),
             a \in {"200", "socks00"} => s.remote
      PROVE  /\ Cardinality(verdicts) <= 1
             /\ \A i \in DOMAIN s.replies : s.replies[i] \in {"200", "socks00"} => s.remote
    <2>1. CASE start = <<>>
        <3>1. DOMAIN s.replies = {1} /\ s.replies[1] = a
            BY <1>4, <2>1
        <3> QED BY <1>1, <1>4, <3>1
    <2>2. CASE start = <<"method00">>
        <3>1. DOMAIN s.replies = {1, 2} /\ s.replies[1] = "method00" /\ s.replies[2] = a
            BY <1>4, <2>2
        <3>2. verdicts \subseteq {2}
            BY <3>1
        <3> HIDE DEF verdicts
        <3> QED BY <1>1, <1>4, <3>1, <3>2
    <2> QED BY <1>2, <2>1, <2>2
<1> QED BY <1>2, <1>3, <1>4

\* Every client is told what happened to its request, once.
THEOREM AnswersFit == ServerSpec => []RepliesConsistent
<1>1. ServerInit => HandlersSound
    BY DEF ServerInit, HandlersSound, HandlerSound, Away
<1>2. PermitsInv /\ HandlersSound /\ [ServerNext]_serverVars => HandlersSound'
    BY HandlersStep DEF PermitsInv
<1>3. PermitsInv /\ HandlersSound => RepliesConsistent
    <2> SUFFICES ASSUME PermitsInv, HandlersSound, NEW c \in Clients
                 PROVE  LET s == client[c]
                            verdicts == {i \in DOMAIN s.replies : s.replies[i] # "method00"}
                            said(answers) == \E i \in DOMAIN s.replies : s.replies[i] \in answers
                        IN  /\ Cardinality(verdicts) <= 1
                            /\ said({"200", "socks00"}) => s.remote
                            /\ s.stage = "relay" =>
                                /\ s.remote
                                /\ s.protocol = "httpConnect" => s.replies = <<"200">>
                                /\ s.protocol = "socks5" => s.replies = <<"method00", "socks00">>
                                /\ s.protocol = "http" => s.replies = <<>>
        BY DEF RepliesConsistent
    <2>1. client[c] \in Client /\ HandlerSound(client[c])
        BY DEF PermitsInv, HandlersSound
    <2>2. Told(client[c])
        BY <2>1, SoundTold
    <2>3. client[c].stage = "relay" =>
            client[c].remote /\ client[c].replies = Announced(client[c].protocol)
        BY <2>1 DEF HandlerSound
    <2> QED BY <2>1, <2>2, <2>3, OneVerdict DEF Announced
<1> QED BY PermitsInvariant, <1>1, <1>2, <1>3, PTL DEF ServerSpec

-----------------------------------------------------------------------------
(* The backoff of the accept loop.                                         *)

\* The delay and the count of errors stay in their ranges.
LEMMA DelayStep ==
    ASSUME delay \in 1..MaxDelay, errors \in 0..MaxErrors, [ServerNext]_serverVars
    PROVE  delay' \in 1..MaxDelay /\ errors' \in 0..MaxErrors
<1> USE ServerAssumption
<1>1. CASE WakeUp
    BY <1>1 DEF WakeUp, Doubled
<1>2. CASE AcceptFails
    BY <1>2 DEF AcceptFails
<1>3. ASSUME NEW c \in Clients, Accept(c)
      PROVE  delay' \in 1..MaxDelay /\ errors' \in 0..MaxErrors
    BY <1>3 DEF Accept
<1>4. ASSUME UNCHANGED <<delay, errors>>
      PROVE  delay' \in 1..MaxDelay /\ errors' \in 0..MaxErrors
    BY <1>4
<1>5. ASSUME NEW c \in Clients, HandlerStep(c) \/ Arrive(c) PROVE UNCHANGED <<delay, errors>>
    BY <1>5 DEF HandlerStep, Arrive, Peek, GiveUp, HttpRequest, BadHttpRequest, SocksMethods,
                SocksRequest, BadSocksRequest, ConnectSucceeds, ConnectFails, StartRelay,
                EndRelay, EndTask, listenerVars
<1> QED BY <1>1, <1>2, <1>3, <1>4, <1>5 DEF ServerNext, Acquire, serverVars

\* Types of the accept loop, the semaphore and the handlers: the backoff stays
\* between its first value and ACCEPT_ERROR_MAX_RETRY_DELAY.
THEOREM ServerTypes == ServerSpec => []ServerTypeOK
<1>1. ServerInit => delay \in 1..MaxDelay /\ errors \in 0..MaxErrors
    BY ServerAssumption DEF ServerInit
<1>2. delay \in 1..MaxDelay /\ errors \in 0..MaxErrors /\ [ServerNext]_serverVars
        => (delay \in 1..MaxDelay /\ errors \in 0..MaxErrors)'
    BY DelayStep
<1>3. PermitsInv => permits \in 0..MaxConnections
    BY HandlersFinite, ServerAssumption DEF PermitsInv, Held
<1>4. PermitsInv /\ delay \in 1..MaxDelay /\ errors \in 0..MaxErrors => ServerTypeOK
    BY <1>3 DEF PermitsInv, ServerTypeOK
<1> QED BY PermitsInvariant, <1>1, <1>2, <1>4, PTL DEF ServerSpec

\* The recursion that defines the powers of two.  The provers take ^ for an
\* unknown operator, so what they need to know of it is said here.
PowersOfTwo ==
    /\ 2 ^ 0 = 1
    /\ \A n \in Nat : 2 ^ n \in Nat /\ 2 ^ (n + 1) = 2 * (2 ^ n)

\* The delay after n errors in a row.
Backoff(n) == IF 2 ^ n < MaxDelay THEN 2 ^ n ELSE MaxDelay

\* The inductive invariant: outside a sleep the delay already counts the last
\* error.
BackoffInv ==
    errors < MaxErrors =>
        /\ listener \in {"acquire", "accept"} => delay = Backoff(errors)
        /\ listener = "sleep" => errors > 0 /\ delay = Backoff(errors - 1)

\* Doubling a delay gives the next one, at the maximum too.
LEMMA DoubledBackoff ==
    ASSUME PowersOfTwo, NEW n \in Nat
    PROVE  Doubled(Backoff(n)) = Backoff(n + 1)
<1>1. 2 ^ n \in Nat /\ 2 ^ (n + 1) = 2 * (2 ^ n)
    BY DEF PowersOfTwo
<1> DEFINE p == 2 ^ n
<1>2. p \in Nat /\ 2 ^ (n + 1) = 2 * p
    BY <1>1
<1> HIDE DEF p
<1>3. Backoff(n) = (IF p < MaxDelay THEN p ELSE MaxDelay)
      /\ Backoff(n + 1) = (IF 2 * p < MaxDelay THEN 2 * p ELSE MaxDelay)
    BY <1>2 DEF Backoff, p
<1> QED BY <1>2, <1>3, ServerAssumption DEF Doubled

\* Every step keeps it.
LEMMA BackoffStep ==
    ASSUME PowersOfTwo, ServerTypeOK, BackoffInv, [ServerNext]_serverVars
    PROVE  BackoffInv'
<1>0. Backoff(0) = 1
    BY ServerAssumption DEF Backoff, PowersOfTwo
<1> USE DEF BackoffInv, ServerTypeOK
<1>1. CASE WakeUp
    <2>1. ASSUME errors < MaxErrors PROVE delay' = Backoff(errors)
        <3>1. errors - 1 \in Nat /\ delay = Backoff(errors - 1) /\ (errors - 1) + 1 = errors
            BY <1>1, <2>1, ServerAssumption DEF WakeUp
        <3> QED BY <1>1, <3>1, DoubledBackoff DEF WakeUp
    <2> QED BY <1>1, <2>1 DEF WakeUp
<1>2. CASE AcceptFails
    <2>1. ASSUME errors' < MaxErrors
          PROVE  errors < MaxErrors /\ errors' = errors + 1 /\ errors' - 1 = errors /\ errors' > 0
        BY <1>2, <2>1, ServerAssumption DEF AcceptFails
    <2>2. listener = "accept" /\ listener' = "sleep" /\ delay' = delay
        BY <1>2 DEF AcceptFails
    <2> QED BY <2>1, <2>2
<1>3. ASSUME NEW c \in Clients, Accept(c) PROVE BackoffInv'
    BY <1>0, <1>3 DEF Accept
<1>4. CASE Acquire
    BY <1>4 DEF Acquire
<1>5. ASSUME UNCHANGED <<listener, delay, errors>> PROVE BackoffInv'
    BY <1>5
<1>6. ASSUME NEW c \in Clients, HandlerStep(c) \/ Arrive(c)
      PROVE  UNCHANGED <<listener, delay, errors>>
    BY <1>6 DEF HandlerStep, Arrive, Peek, GiveUp, HttpRequest, BadHttpRequest, SocksMethods,
                SocksRequest, BadSocksRequest, ConnectSucceeds, ConnectFails, StartRelay,
                EndRelay, EndTask, listenerVars
<1> QED BY <1>1, <1>2, <1>3, <1>4, <1>5, <1>6 DEF ServerNext, serverVars

\* The sleep after the n-th accept error in a row is 2^(n-1) initial delays, up
\* to the maximum, and a success starts it over, for every maximum.
THEOREM BackoffDoubles == PowersOfTwo => (ServerSpec => []BackoffFollowsErrors)
<1> SUFFICES ASSUME PowersOfTwo PROVE ServerSpec => []BackoffFollowsErrors
    OBVIOUS
<1>1. ServerInit => BackoffInv
    BY ServerAssumption DEF ServerInit, BackoffInv, Backoff, PowersOfTwo
<1>2. ServerTypeOK /\ BackoffInv /\ [ServerNext]_serverVars => BackoffInv'
    BY BackoffStep
<1>3. BackoffInv => BackoffFollowsErrors
    BY DEF BackoffInv, BackoffFollowsErrors, Backoff
<1> QED BY ServerTypes, <1>1, <1>2, <1>3, PTL DEF ServerSpec

=============================================================================
