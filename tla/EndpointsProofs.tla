---------------------------- MODULE EndpointsProofs ---------------------------
(* Proofs about the sessions of Hysteria dials, for every set of dials and *)
(* number of addresses; and, at the end, about the two ends of a request   *)
(* together: what is proved of the handlers, of a native dial and of the   *)
(* Hysteria dials each on its own holds of their composition.              *)
EXTENDS MCEndpoints, ServerProofs, HandshakeProofs, TLAPS

Using == {"stream", "request", "response", "open"}

\* The inductive invariant.  The second half is NoSessionOutlivesItsStream,
\* which is inductive as soon as the types are known: a dial that takes the
\* lock has no session of its own yet, so none is left behind by a new one.
HysteriaInv == HysteriaTypeOK /\ NoSessionOutlivesItsStream

\* Dropping a dial, its endpoint and its adapter together keeps the invariant.
LEMMA AbandonKeeps ==
    ASSUME HysteriaInv, NEW d \in Dials, Abandon(d)
    PROVE  HysteriaInv'
<1> USE DEF Abandon, Move, HysteriaInv, Adapters
<1>1. HysteriaTypeOK'
    BY DEF HysteriaTypeOK, DialStages
<1>2. ASSUME NEW a \in Adapters, conn'[a] # "none"
      PROVE  a \in Dials /\ dial'[a] \in Using
    BY <1>2 DEF HysteriaTypeOK, NoSessionOutlivesItsStream, Using
<1>3. ASSUME NEW e \in Dials, making'[e] PROVE dial'[e] \in {"control", "hello"}
    BY <1>3 DEF HysteriaTypeOK, NoSessionOutlivesItsStream
<1> QED BY <1>1, <1>2, <1>3 DEF NoSessionOutlivesItsStream, Using

\* A dial that moves on without touching its session keeps the invariant when
\* the stage it reaches is one that may hold what the dial holds.
LEMMA MoveKeeps ==
    ASSUME HysteriaInv, NEW d \in Dials, NEW s \in DialStages, Move(d, s),
           conn' = conn,
           addresses' \in [Dials -> Nat],
           making' \in [Dials -> BOOLEAN],
           \A e \in Dials \ {d} : making'[e] = making[e],
           conn[d] # "none" => s \in Using,
           making'[d] => s \in {"control", "hello"}
    PROVE  HysteriaInv'
<1> USE DEF Move, HysteriaInv, Adapters
<1>1. HysteriaTypeOK'
    BY DEF HysteriaTypeOK
<1>2. ASSUME NEW a \in Adapters, conn'[a] # "none"
      PROVE  a \in Dials /\ dial'[a] \in Using
    BY <1>2 DEF HysteriaTypeOK, NoSessionOutlivesItsStream, Using
<1>3. ASSUME NEW e \in Dials, making'[e] PROVE dial'[e] \in {"control", "hello"}
    BY <1>3 DEF HysteriaTypeOK, NoSessionOutlivesItsStream
<1> QED BY <1>1, <1>2, <1>3 DEF NoSessionOutlivesItsStream, Using

\* A failed address leaves nothing behind.
LEMMA TryNextKeeps ==
    ASSUME HysteriaInv, NEW d \in Dials, dial[d] \in {"control", "hello"},
           TryNextAddress(d)
    PROVE  HysteriaInv'
<1>1. conn[d] = "none"
    BY DEF HysteriaInv, HysteriaTypeOK, NoSessionOutlivesItsStream, Adapters
<1>2. CASE addresses[d] = 0
    BY <1>2, AbandonKeeps DEF TryNextAddress
<1>3. CASE addresses[d] # 0
    <2>1. /\ Move(d, "connect") /\ "connect" \in DialStages
          /\ making' = [making EXCEPT ![d] = FALSE]
          /\ addresses' = addresses /\ conn' = conn
        BY <1>3 DEF TryNextAddress, DialStages, Connecting
    <2>2. making' \in [Dials -> BOOLEAN] /\ ~making'[d]
          /\ \A e \in Dials \ {d} : making'[e] = making[e]
        BY <2>1 DEF HysteriaInv, HysteriaTypeOK
    <2>3. addresses' \in [Dials -> Nat]
        BY <2>1 DEF HysteriaInv, HysteriaTypeOK
    <2> QED BY <1>1, <2>1, <2>2, <2>3, MoveKeeps
<1> QED BY <1>2, <1>3

\* Every step of a dial keeps the invariant.
LEMMA DialKeeps ==
    ASSUME HysteriaInv, NEW d \in Dials, DialStep(d) PROVE HysteriaInv'
<1>0. /\ dial \in [Dials -> DialStages] /\ addresses \in [Dials -> Nat]
      /\ making \in [Dials -> BOOLEAN]
      /\ conn[d] # "none" => dial[d] \in Using
      /\ making[d] => dial[d] \in {"control", "hello"}
      /\ conn[d] \in {"none", "live", "closed"}
    BY DEF HysteriaInv, HysteriaTypeOK, NoSessionOutlivesItsStream, Adapters, Using
<1> DEFINE Stays(s) == Move(d, s) /\ UNCHANGED <<addresses, making, conn>>
<1>a. ASSUME NEW s \in DialStages, Stays(s),
             conn[d] # "none" => s \in Using,
             making[d] => s \in {"control", "hello"}
      PROVE  HysteriaInv'
    BY <1>0, <1>a, MoveKeeps
<1>1. CASE BeginDial(d)
    <2>1. Stays("lock") /\ "lock" \in DialStages /\ conn[d] = "none" /\ ~making[d]
        BY <1>0, <1>1 DEF BeginDial, DialStages, Using
    <2> HIDE DEF Stays
    <2> QED BY <2>1, <1>a
<1>2. CASE LockConn(d)
    <2>1. conn[d] = "none" /\ ~making[d] /\ Stays("resolve") /\ "resolve" \in DialStages
        BY <1>0, <1>2 DEF LockConn, AdapterOf, DialStages, Connecting, Using
    <2> HIDE DEF Stays
    <2> QED BY <2>1, <1>a
<1>3. CASE Resolve(d)
    <2>1. CASE Abandon(d)
        BY <1>3, <2>1, AbandonKeeps DEF Resolve
    <2>2. CASE ~Abandon(d)
        <3>1. PICK n \in 1..MaxAddresses : addresses' = [addresses EXCEPT ![d] = n]
            BY <1>3, <2>2 DEF Resolve
        <3>2. Move(d, "connect") /\ making' = making /\ conn' = conn
            BY <1>3, <2>2 DEF Resolve
        <3>3. addresses' \in [Dials -> Nat] /\ "connect" \in DialStages
            BY <1>0, <3>1, HysteriaAssumption DEF DialStages, Connecting
        <3>4. conn[d] = "none" /\ ~making[d]
            BY <1>0, <1>3 DEF Resolve, Using
        <3> QED BY <1>0, <3>2, <3>3, <3>4, MoveKeeps
    <2> QED BY <2>1, <2>2
<1>4. CASE ConnectAddr(d)
    <2>1. /\ Move(d, "control") /\ "control" \in DialStages
          /\ conn' = conn
        BY <1>4 DEF ConnectAddr, DialStages, Connecting
    <2>2. addresses' \in [Dials -> Nat]
        BY <1>0, <1>4 DEF ConnectAddr
    <2>3. /\ making' \in [Dials -> BOOLEAN]
          /\ \A e \in Dials \ {d} : making'[e] = making[e]
        BY <1>0, <1>4 DEF ConnectAddr
    <2>4. conn[d] = "none"
        BY <1>0, <1>4 DEF ConnectAddr, Using
    <2> QED BY <2>1, <2>2, <2>3, <2>4, MoveKeeps
<1>5. CASE OpenControl(d)
    <2>1. CASE TryNextAddress(d)
        BY <1>5, <2>1, TryNextKeeps DEF OpenControl
    <2>2. CASE ~TryNextAddress(d)
        <3>1. Stays("hello") /\ "hello" \in DialStages /\ conn[d] = "none"
            BY <1>0, <1>5, <2>2 DEF OpenControl, DialStages, Connecting, Using
        <3> HIDE DEF Stays
        <3> QED BY <3>1, <1>a
    <2> QED BY <2>1, <2>2
<1>6. CASE Authenticate(d)
    <2>1. CASE TryNextAddress(d)
        BY <1>6, <2>1, TryNextKeeps DEF Authenticate
    <2>2. CASE ~TryNextAddress(d)
        <3>1. /\ dial' = [dial EXCEPT ![d] = "stream"]
              /\ making' = [making EXCEPT ![d] = FALSE]
              /\ conn' = [conn EXCEPT ![d] = "live"]
              /\ addresses' = addresses
            BY <1>6, <2>2 DEF Authenticate, Move, AdapterOf
        <3>2. HysteriaTypeOK'
            BY <3>1 DEF HysteriaInv, HysteriaTypeOK, DialStages, Adapters
        <3>3. ASSUME NEW a \in Adapters, conn'[a] # "none"
              PROVE  a \in Dials /\ dial'[a] \in Using
            BY <3>1, <3>3 DEF HysteriaInv, HysteriaTypeOK, NoSessionOutlivesItsStream,
                Using, Adapters
        <3>4. ASSUME NEW e \in Dials, making'[e] PROVE dial'[e] \in {"control", "hello"}
            BY <3>1, <3>4 DEF HysteriaInv, HysteriaTypeOK, NoSessionOutlivesItsStream
        <3> QED BY <3>2, <3>3, <3>4 DEF HysteriaInv, NoSessionOutlivesItsStream, Using
    <2> QED BY <2>1, <2>2
<1>7. CASE OpenStream(d)
    <2>1. CASE Abandon(d)
        BY <1>7, <2>1, AbandonKeeps DEF OpenStream
    <2>2. CASE ~Abandon(d)
        <3>1. Stays("request") /\ "request" \in DialStages /\ "request" \in Using /\ ~making[d]
            BY <1>0, <1>7, <2>2 DEF OpenStream, DialStages, Using
        <3> HIDE DEF Stays
        <3> QED BY <3>1, <1>a
    <2> QED BY <2>1, <2>2
<1>8. CASE WriteRequest(d)
    <2>1. CASE Abandon(d)
        BY <1>8, <2>1, AbandonKeeps DEF WriteRequest
    <2>2. CASE ~Abandon(d)
        <3>1. (Stays("open") \/ Stays("response")) /\ ~making[d]
            BY <1>0, <1>8, <2>2 DEF WriteRequest
        <3>2. {"open", "response"} \subseteq DialStages \cap Using
            BY DEF DialStages, Using
        <3> HIDE DEF Stays
        <3> QED BY <3>1, <3>2, <1>a
    <2> QED BY <2>1, <2>2
<1>9. CASE ReadResponse(d)
    <2>1. CASE Abandon(d)
        BY <1>9, <2>1, AbandonKeeps DEF ReadResponse
    <2>2. CASE ~Abandon(d)
        <3>1. Stays("open") /\ "open" \in DialStages /\ "open" \in Using /\ ~making[d]
            BY <1>0, <1>9, <2>2 DEF ReadResponse, DialStages, Using
        <3> HIDE DEF Stays
        <3> QED BY <3>1, <1>a
    <2> QED BY <2>1, <2>2
<1>10. CASE Cancel(d)
    BY <1>10, AbandonKeeps DEF Cancel
<1>11. CASE CloseStream(d)
    BY <1>11, AbandonKeeps DEF CloseStream
<1> QED BY <1>1, <1>2, <1>3, <1>4, <1>5, <1>6, <1>7, <1>8, <1>9, <1>10, <1>11
        DEF DialStep

\* Every step keeps the invariant.
LEMMA HysteriaStep ==
    ASSUME HysteriaInv, [HysteriaNext]_hysteriaVars PROVE HysteriaInv'
<1>1. ASSUME NEW d \in Dials, DialStep(d) PROVE HysteriaInv'
    BY <1>1, DialKeeps
<1>2. ASSUME NEW a \in Adapters, SessionEnds(a) PROVE HysteriaInv'
    BY <1>2 DEF SessionEnds, HysteriaInv, HysteriaTypeOK, NoSessionOutlivesItsStream
<1>3. CASE UNCHANGED hysteriaVars
    BY <1>3 DEF hysteriaVars, HysteriaInv, HysteriaTypeOK, NoSessionOutlivesItsStream
<1> QED BY <1>1, <1>2, <1>3 DEF HysteriaNext

\* The inductive invariant holds in every reachable state.
THEOREM HysteriaInvariant == HysteriaSpec => []HysteriaInv
<1>1. HysteriaInit => HysteriaInv
    BY DEF HysteriaInit, HysteriaInv, HysteriaTypeOK, NoSessionOutlivesItsStream, DialStages
<1>2. HysteriaInv /\ [HysteriaNext]_hysteriaVars => HysteriaInv'
    BY HysteriaStep
<1> QED BY <1>1, <1>2, PTL DEF HysteriaSpec

\* No session, and no socket under construction, outlives the stream or the
\* attempt it was made for, whenever dials are cut off and sessions end.
THEOREM SessionsOwned == HysteriaSpec => []NoSessionOutlivesItsStream
<1>1. HysteriaInv => NoSessionOutlivesItsStream
    BY DEF HysteriaInv
<1> QED BY HysteriaInvariant, <1>1, PTL

\* Types of the dials and their adapters.
THEOREM HysteriaTypes == HysteriaSpec => []HysteriaTypeOK
<1>1. HysteriaInv => HysteriaTypeOK
    BY DEF HysteriaInv
<1> QED BY HysteriaInvariant, <1>1, PTL

-----------------------------------------------------------------------------
(* The composition.  No part writes another's variables, so a behaviour of *)
(* the three is a behaviour of each.                                       *)

\* Seen through the inbound side's variables, the composition is the inbound
\* side: its steps are accepted connections and handlers, the rest stutters.
LEMMA EndpointsServe == EndpointsSpec => ServerSpec
<1>1. EndpointsInit => ServerInit
    BY DEF EndpointsInit
<1>2. [EndpointsNext]_endpointsVars => [ServerNext]_serverVars
    BY DEF EndpointsNext, endpointsVars, serverVars
<1> QED BY <1>1, <1>2, PTL DEF EndpointsSpec, ServerSpec

\* Seen through the variables of a native dial, the composition is that dial.
LEMMA EndpointsDial == EndpointsSpec => HandshakeSpec
<1>1. EndpointsInit => HandshakeInit
    BY DEF EndpointsInit
<1>2. [EndpointsNext]_endpointsVars => [HandshakeNext]_handshakeVars
    BY DEF EndpointsNext, endpointsVars, handshakeVars
<1> QED BY <1>1, <1>2, PTL DEF EndpointsSpec, HandshakeSpec

\* Seen through the variables of the Hysteria adapters, the composition is
\* those adapters.
LEMMA EndpointsTunnel == EndpointsSpec => HysteriaSpec
<1>1. EndpointsInit => HysteriaInit
    BY DEF EndpointsInit
<1>2. [EndpointsNext]_endpointsVars => [HysteriaNext]_hysteriaVars
    BY DEF EndpointsNext, endpointsVars, hysteriaVars
<1> QED BY <1>1, <1>2, PTL DEF EndpointsSpec, HysteriaSpec

\* Both ends of a request keep their types, the bounds of the accept backoff
\* and of an answer's header with them.
THEOREM EndpointsTypes == EndpointsSpec => []EndpointsTypeOK
<1>1. ServerTypeOK /\ HandshakeTypeOK /\ HysteriaTypeOK => EndpointsTypeOK
    BY DEF EndpointsTypeOK
<1> QED
    BY <1>1, EndpointsServe, EndpointsDial, EndpointsTunnel,
       ServerTypes, HandshakeTypeCorrect, HysteriaTypes, PTL

\* The guarantees of the three ends hold together in one behaviour: permits
\* are conserved and replies fit what the connector answered, the relay starts
\* at the first byte behind the proxy's answer and only after its consent,
\* a login is sent when one is demanded, and no session outlives its dial.
THEOREM EndpointsGuarantees ==
    EndpointsSpec => [](/\ PermitsConserved /\ RepliesConsistent
                        /\ StreamAligned /\ VerdictFollowsProxy /\ LoginWhenDemanded
                        /\ NoSessionOutlivesItsStream)
    BY EndpointsServe, EndpointsDial, EndpointsTunnel, PermitAccounting, AnswersFit,
       RelayStartsAligned, VerdictSound, LoginSound, SessionsOwned, PTL
=============================================================================
