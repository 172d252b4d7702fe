---------------------------- MODULE HandshakeProofs ----------------------------
(***************************************************************************)
(* What every dial keeps, for every length of names and headers, every     *)
(* limit and every number of early bytes.                                  *)
(***************************************************************************)
EXTENDS Handshake, SequenceTheorems, TLAPS

\* The dial waits with nothing of the answer taken, and if bytes are there the
\* proxy has answered.
Unread == read = 0 /\ (answer = NoAnswer => arrived = 0)

HeadFraming ==
    stage = "head" =>
        /\ Unread
        /\ answer # NoAnswer => answer.size = Socks5Size(answer.form, answer.name)
        /\ answer # NoAnswer => answer.form # "none"

LengthFraming ==
    stage = "length" =>
        /\ read = 4
        /\ answer.form = "domain"
        /\ answer.verdict = "granted"
        /\ answer.size = 7 + answer.name

RestFraming ==
    stage = "rest" =>
        /\ answer.verdict = "granted"
        /\ read + AddressRest = answer.size

Socks4Framing ==
    stage = "socks4" => Unread /\ (answer # NoAnswer => answer.size = 8)

HeaderFraming ==
    stage = "header" =>
        /\ answer = NoAnswer => read = 0 /\ arrived = 0
        /\ answer # NoAnswer => read < answer.size

\* The inductive invariant: how far into the answer each stage is.
FramingInv ==
    /\ HandshakeTypeOK
    /\ HeadFraming
    /\ LengthFraming
    /\ RestFraming
    /\ Socks4Framing
    /\ HeaderFraming
    /\ StreamAligned
    /\ VerdictFollowsProxy

\* A dial starts with nothing read and nothing decided.
LEMMA FramingInit == HandshakeInit => FramingInv
  <1> SUFFICES ASSUME HandshakeInit PROVE FramingInv
    OBVIOUS
  <1>1. sent \in Seq({"methods", "password", "connect"})
    BY DEF HandshakeInit
  <1>2. HandshakeTypeOK
    BY <1>1 DEF HandshakeInit, HandshakeTypeOK, NoAnswer, Stages, Verdicts, Forms
  <1>3. QED
    BY <1>2 DEF HandshakeInit, FramingInv, HeadFraming, LengthFraming,
       RestFraming, Socks4Framing, HeaderFraming, StreamAligned,
       VerdictFollowsProxy

\* A request starts a new answer, of which nothing is there.
LEMMA AskKeepsFraming ==
  ASSUME FramingInv, NEW request \in {"methods", "password", "connect"},
         NEW s \in {"method", "login", "head", "socks4", "header"}, Ask(request, s)
  PROVE  FramingInv'
  <1>1. HandshakeTypeOK'
    BY HandshakeAssumption DEF FramingInv, HandshakeTypeOK, Ask, NoAnswer, Stages,
       Waiting, Verdicts, Forms
  <1>2. QED
    BY <1>1 DEF FramingInv, Ask, NoAnswer, Unread, HeadFraming, LengthFraming,
       RestFraming, Socks4Framing, HeaderFraming, StreamAligned,
       VerdictFollowsProxy

\* The proxy answers in the sizes of its protocol.
LEMMA AnswerKeepsFraming ==
  ASSUME FramingInv, ProxyAnswers
  PROVE  FramingInv'
  <1>1. stage \in {"method", "login", "head", "socks4", "header"}
    BY DEF ProxyAnswers, AnswersAt
  <1>2. /\ answer'.verdict \in Verdicts
        /\ answer'.form \in Forms
        /\ answer'.name \in Nat
        /\ answer'.size \in Nat
        /\ answer' = [verdict |-> answer'.verdict, form |-> answer'.form,
                      name |-> answer'.name, size |-> answer'.size]
    <2>1. CASE stage \in {"method", "login", "socks4", "header"}
      BY <2>1, HandshakeAssumption DEF ProxyAnswers, AnswersAt, Verdicts, Forms
    <2>2. CASE stage = "head"
      BY <2>2, HandshakeAssumption DEF ProxyAnswers, AnswersAt, Verdicts, Forms
    <2>3. QED
      BY <1>1, <2>1, <2>2
  <1>3. HandshakeTypeOK'
    BY <1>2 DEF FramingInv, HandshakeTypeOK, ProxyAnswers
  <1>4. HeadFraming'
    BY HandshakeAssumption DEF FramingInv, HeadFraming, Unread, ProxyAnswers,
       AnswersAt, Verdicts, NoAnswer
  <1>5. Socks4Framing'
    BY DEF FramingInv, Socks4Framing, Unread, ProxyAnswers, AnswersAt, NoAnswer
  <1>6. HeaderFraming'
    BY HandshakeAssumption DEF FramingInv, HeaderFraming, ProxyAnswers,
       AnswersAt, NoAnswer, HandshakeTypeOK
  <1>7. LengthFraming' /\ RestFraming' /\ StreamAligned' /\ VerdictFollowsProxy'
    BY <1>1 DEF ProxyAnswers, LengthFraming, RestFraming, StreamAligned,
       VerdictFollowsProxy
  <1>8. QED
    BY <1>3, <1>4, <1>5, <1>6, <1>7 DEF FramingInv

\* Bytes arrive without changing what is read or answered.
LEMMA ArrivalKeepsFraming ==
  ASSUME FramingInv, BytesArrive
  PROVE  FramingInv'
  <1>1. arrived' \in Nat
    BY HandshakeAssumption DEF FramingInv, HandshakeTypeOK, BytesArrive, OnTheWire
  <1>2. QED
    BY <1>1 DEF FramingInv, HandshakeTypeOK, BytesArrive, Unread, HeadFraming,
       LengthFraming, RestFraming, Socks4Framing, HeaderFraming, StreamAligned,
       VerdictFollowsProxy, AddressRest

\* A dial that begins, waits for something else than an answer or breaks has
\* nothing to frame.
LEMMA TurnKeepsFraming ==
  ASSUME FramingInv, NEW s \in {"tcp", "tls", "encode", "broken"}, stage' = s,
         HandshakeTypeOK'
  PROVE  FramingInv'
  BY DEF FramingInv, HeadFraming, LengthFraming, RestFraming, Socks4Framing,
     HeaderFraming, StreamAligned, VerdictFollowsProxy

\* A negative verdict leaves nothing to frame, if the proxy did not grant it.
LEMMA RefusalKeepsFraming ==
  ASSUME FramingInv, stage' = "refused", HandshakeTypeOK', UNCHANGED answer,
         answer.verdict = "granted" =>
            answer.form = "unknown" \/ answer.size > HeaderLimit
  PROVE  FramingInv'
  BY DEF FramingInv, HeadFraming, LengthFraming, RestFraming, Socks4Framing,
     HeaderFraming, StreamAligned, VerdictFollowsProxy

\* Every step of the dial, the proxy and the network keeps the framing.
LEMMA FramingStep ==
  ASSUME FramingInv, [HandshakeNext]_handshakeVars
  PROVE  FramingInv'
  <1> USE DEF FramingInv
  <1>1. CASE ProxyAnswers
    BY <1>1, AnswerKeepsFraming
  <1>2. CASE BytesArrive
    BY <1>2, ArrivalKeepsFraming
  <1>3. CASE Dial
    <2>1. sent' \in Seq({"methods", "password", "connect"})
      BY <1>3 DEF Dial
    <2>2. HandshakeTypeOK'
      BY <1>3, <2>1 DEF Dial, HandshakeTypeOK, NoAnswer, Stages, Verdicts, Forms
    <2>3. QED
      BY <1>3, <2>2, TurnKeepsFraming DEF Dial
  <1>4. CASE TcpConnected
    <2>1. CASE node.kind = "http"
      BY <1>4, <2>1, AskKeepsFraming DEF TcpConnected
    <2>2. CASE node.kind = "socks5"
      BY <1>4, <2>2, AskKeepsFraming DEF TcpConnected
    <2>3. CASE node.kind \in {"https", "socks4"}
      <3>1. stage' \in {"tls", "encode"} /\ HandshakeTypeOK'
        BY <1>4, <2>3 DEF TcpConnected, Goto, HandshakeTypeOK, Stages
      <3>2. QED
        BY <3>1, TurnKeepsFraming
    <2>4. QED
      BY <2>1, <2>2, <2>3 DEF HandshakeTypeOK, Node
  <1>5. CASE TlsConnected
    BY <1>5, AskKeepsFraming DEF TlsConnected
  <1>6. CASE ReadMethod
    <2>1. CASE answer.verdict = "granted"
      <3>1. stage' = "encode" /\ HandshakeTypeOK'
        BY <1>6, <2>1 DEF ReadMethod, Goto, HandshakeTypeOK, Stages
      <3>2. QED
        BY <3>1, TurnKeepsFraming
    <2>2. CASE answer.verdict = "password" /\ node.auth
      BY <1>6, <2>2, AskKeepsFraming DEF ReadMethod
    <2>3. CASE answer.verdict # "granted" /\ ~(answer.verdict = "password" /\ node.auth)
      <3>1. stage' = "refused" /\ HandshakeTypeOK' /\ UNCHANGED answer
        BY <1>6, <2>3 DEF ReadMethod, Goto, HandshakeTypeOK, Stages
      <3>2. QED
        BY <2>3, <3>1, RefusalKeepsFraming
    <2>4. QED
      BY <2>1, <2>2, <2>3
  <1>7. CASE ReadLogin
    <2>1. HandshakeTypeOK' /\ UNCHANGED answer
      BY <1>7 DEF ReadLogin, Goto, HandshakeTypeOK, Stages
    <2>2. QED
      BY <1>7, <2>1, TurnKeepsFraming, RefusalKeepsFraming DEF ReadLogin, Goto
  <1>8. CASE SendRequest
    BY <1>8, AskKeepsFraming DEF SendRequest
  <1>9. CASE ReadHead
    <2>1. HandshakeTypeOK' /\ UNCHANGED answer
      BY <1>9 DEF ReadHead, Goto, HandshakeTypeOK, Stages, Waiting
    <2>2. read = 0 /\ read' = 4 /\ answer # NoAnswer
      BY <1>9 DEF ReadHead, HeadFraming, Unread, Available, HandshakeTypeOK
    <2>3. CASE answer.verdict # "granted" \/ answer.form = "unknown"
      BY <1>9, <2>1, <2>3, RefusalKeepsFraming DEF ReadHead, Goto
    <2>4. CASE answer.verdict = "granted" /\ answer.form = "domain"
      <3>1. stage' = "length" /\ answer.size = 7 + answer.name
        BY <1>9, <2>2, <2>4 DEF ReadHead, Goto, HeadFraming, Socks5Size
      <3>2. QED
        BY <2>1, <2>2, <2>4, <3>1 DEF HeadFraming, LengthFraming, RestFraming,
           Socks4Framing, HeaderFraming, StreamAligned, VerdictFollowsProxy
    <2>5. CASE answer.verdict = "granted" /\ answer.form \in {"v4", "v6"}
      <3>1. stage' = "rest" /\ read' + AddressRest' = answer'.size
        BY <1>9, <2>1, <2>2, <2>5
        DEF ReadHead, Goto, HeadFraming, Socks5Size, AddressRest
      <3>2. QED
        BY <2>1, <2>5, <3>1 DEF HeadFraming, LengthFraming, RestFraming,
           Socks4Framing, HeaderFraming, StreamAligned, VerdictFollowsProxy
    <2>6. QED
      BY <1>9, <2>2, <2>3, <2>4, <2>5 DEF HandshakeTypeOK, Forms, HeadFraming,
         ReadHead
  <1>10. CASE ReadLength
    <2>1. HandshakeTypeOK' /\ UNCHANGED answer /\ stage' = "rest"
      BY <1>10 DEF ReadLength, Goto, HandshakeTypeOK, Stages, Waiting
    <2>2. answer.verdict = "granted" /\ read' + AddressRest' = answer'.size
      BY <1>10, <2>1 DEF ReadLength, LengthFraming, AddressRest, HandshakeTypeOK
    <2>3. QED
      BY <2>1, <2>2 DEF HeadFraming, LengthFraming, RestFraming, Socks4Framing,
         HeaderFraming, StreamAligned, VerdictFollowsProxy
  <1>11. CASE ReadRest
    <2>1. AddressRest \in Nat
      BY DEF AddressRest, HandshakeTypeOK
    <2>2. HandshakeTypeOK' /\ UNCHANGED answer /\ stage' = "established"
      BY <1>11, <2>1 DEF ReadRest, Goto, HandshakeTypeOK, Stages
    <2>3. answer.verdict = "granted" /\ read' = answer.size
      BY <1>11 DEF ReadRest, RestFraming
    <2>4. QED
      BY <2>2, <2>3 DEF HeadFraming, LengthFraming, RestFraming, Socks4Framing,
         HeaderFraming, StreamAligned, VerdictFollowsProxy
  <1>12. CASE ReadSocks4
    <2>1. HandshakeTypeOK' /\ UNCHANGED answer
      BY <1>12 DEF ReadSocks4, Goto, HandshakeTypeOK, Stages
    <2>2. read' = 8 /\ answer.size = 8
      BY <1>12 DEF ReadSocks4, Socks4Framing, Unread, Available, HandshakeTypeOK
    <2>3. CASE answer.verdict = "granted"
      BY <1>12, <2>1, <2>2, <2>3 DEF ReadSocks4, Goto, HeadFraming,
         LengthFraming, RestFraming, Socks4Framing, HeaderFraming,
         StreamAligned, VerdictFollowsProxy
    <2>4. CASE answer.verdict # "granted"
      BY <1>12, <2>1, <2>4, RefusalKeepsFraming DEF ReadSocks4, Goto
    <2>5. QED
      BY <2>3, <2>4
  <1>13. CASE ReadHeaderByte
    <2>1. UNCHANGED answer /\ read' = read + 1 /\ read \in Nat /\ answer.size \in Nat
          /\ stage' = AfterByte(read + 1) /\ HeaderLimit \in Nat
      BY <1>13, HandshakeAssumption DEF ReadHeaderByte, Goto, HandshakeTypeOK
    <2>2. answer # NoAnswer /\ read < answer.size
      BY <1>13, <2>1 DEF ReadHeaderByte, HeaderFraming, Available
    <2>3. HandshakeTypeOK'
      BY <1>13, <2>1 DEF ReadHeaderByte, Goto, HandshakeTypeOK, Stages, Waiting,
         AfterByte, Validated
    <2>4. CASE read + 1 = answer.size
      BY <2>1, <2>3, <2>4, RefusalKeepsFraming
      DEF AfterByte, Validated, HeadFraming, LengthFraming, RestFraming,
          Socks4Framing, HeaderFraming, StreamAligned, VerdictFollowsProxy
    <2>5. CASE read + 1 # answer.size /\ read + 1 >= HeaderLimit
      <3>1. stage' = "refused" /\ answer.size > HeaderLimit
        BY <2>1, <2>2, <2>5 DEF AfterByte
      <3>2. QED
        BY <2>1, <2>3, <3>1, RefusalKeepsFraming
    <2>6. CASE read + 1 # answer.size /\ ~(read + 1 >= HeaderLimit)
      <3>1. stage' = "header" /\ read' < answer.size
        BY <2>1, <2>2, <2>6 DEF AfterByte
      <3>2. QED
        BY <2>1, <2>2, <2>3, <3>1 DEF HeadFraming, LengthFraming, RestFraming,
           Socks4Framing, HeaderFraming, StreamAligned, VerdictFollowsProxy
    <2>7. QED
      BY <2>4, <2>5, <2>6
  <1>14. CASE Break
    <2>1. HandshakeTypeOK' /\ stage' = "broken"
      BY <1>14 DEF Break, Goto, HandshakeTypeOK, Stages
    <2>2. QED
      BY <2>1, TurnKeepsFraming
  <1>15. CASE UNCHANGED handshakeVars
    BY <1>15 DEF handshakeVars, HandshakeTypeOK, HeadFraming, LengthFraming,
       RestFraming, Socks4Framing, HeaderFraming, StreamAligned,
       VerdictFollowsProxy, Unread, AddressRest
  <1>16. QED
    BY <1>1, <1>2, <1>3, <1>4, <1>5, <1>6, <1>7, <1>8, <1>9, <1>10, <1>11,
       <1>12, <1>13, <1>14, <1>15 DEF HandshakeNext

\* The framing of the answers holds in every state of every dial.
THEOREM FramingInvariant == HandshakeSpec => []FramingInv
  BY FramingInit, FramingStep, PTL DEF HandshakeSpec

\* The relay of a native node starts exactly behind the proxy's answer, for
\* every address form, name length and header size and whatever follows it.
THEOREM RelayStartsAligned == HandshakeSpec => []StreamAligned
  <1>1. FramingInv => StreamAligned
    BY DEF FramingInv
  <1>2. QED
    BY <1>1, FramingInvariant, PTL

\* A dial succeeds only when granted, and a granted dial is refused only for an
\* unknown address form or a header above the limit, however long the answers.
THEOREM VerdictSound == HandshakeSpec => []VerdictFollowsProxy
  <1>1. FramingInv => VerdictFollowsProxy
    BY DEF FramingInv
  <1>2. QED
    BY <1>1, FramingInvariant, PTL

-----------------------------------------------------------------------------
(* The login.                                                              *)

\* What a dial may have sent, without and with a demand for a login.
Plain == {<<>>, <<"methods">>, <<"connect">>, <<"methods", "connect">>}
Login == {<<"methods", "password">>, <<"methods", "password", "connect">>}

\* The demand is only the present answer while the method is read; later it
\* shows in what was sent.  LoginWhenDemanded does not say which requests are
\* behind a stage, which is what the next request is appended to.
LoginInv ==
    /\ sent \in Plain \cup Login
    /\ sent \in Login => demanded /\ node.auth
    /\ demanded => sent \in Login \cup {<<"methods">>}
    /\ stage \in {"idle", "tcp", "tls"} => sent = <<>>
    /\ stage = "method" => /\ sent = <<"methods">>
                           /\ demanded <=> answer.verdict = "password"
    /\ stage = "login" => sent = <<"methods", "password">>
    /\ stage = "encode" => /\ sent \in {<<>>, <<"methods">>, <<"methods", "password">>}
                           /\ demanded => sent = <<"methods", "password">>

\* What becomes of one request when a second is sent.
LEMMA SecondRequest ==
  ASSUME NEW x, NEW y
  PROVE  Append(<<x>>, y) = <<x, y>>
  <1>1. Append(<<x>>, y) \in Seq({x, y}) /\ <<x, y>> \in Seq({x, y})
    OBVIOUS
  <1>2. \A i \in 1..Len(<<x, y>>) : Append(<<x>>, y)[i] = <<x, y>>[i]
    OBVIOUS
  <1>3. Len(Append(<<x>>, y)) = Len(<<x, y>>)
    OBVIOUS
  <1>4. QED
    BY <1>1, <1>2, <1>3, SeqEqual, Zenon

\* The same for the last of three.
LEMMA ThirdRequest ==
  ASSUME NEW x, NEW y, NEW z
  PROVE  Append(<<x, y>>, z) = <<x, y, z>>
  <1>1. Append(<<x, y>>, z) \in Seq({x, y, z}) /\ <<x, y, z>> \in Seq({x, y, z})
    OBVIOUS
  <1>2. \A i \in 1..Len(<<x, y, z>>) : Append(<<x, y>>, z)[i] = <<x, y, z>>[i]
    OBVIOUS
  <1>3. Len(Append(<<x, y>>, z)) = Len(<<x, y, z>>)
    OBVIOUS
  <1>4. QED
    BY <1>1, <1>2, <1>3, SeqEqual, Zenon

\* Every step keeps the order of the requests and the record of a demand.
LEMMA LoginStep ==
  ASSUME LoginInv, HandshakeTypeOK, [HandshakeNext]_handshakeVars
  PROVE  LoginInv'
  <1> USE DEF LoginInv, Plain, Login
  <1>1. CASE ProxyAnswers
    <2>1. CASE stage = "method"
      <3>1. ~demanded
        BY <1>1, <2>1 DEF ProxyAnswers, NoAnswer
      <3>2. QED
        BY <1>1, <2>1, <3>1 DEF ProxyAnswers
    <2>2. CASE stage # "method"
      <3>1. answer'.verdict # "password"
        BY <1>1, <2>2 DEF ProxyAnswers, AnswersAt, Verdicts
      <3>2. demanded' = demanded
        BY <1>1, <3>1 DEF ProxyAnswers, HandshakeTypeOK
      <3>3. QED
        BY <1>1, <2>2, <3>2 DEF ProxyAnswers
    <2>3. QED
      BY <2>1, <2>2
  <1>2. CASE BytesArrive
    BY <1>2 DEF BytesArrive
  <1>3. CASE Dial
    BY <1>3 DEF Dial
  <1>4. CASE TcpConnected
    <2>1. sent = <<>> /\ ~demanded
      BY <1>4 DEF TcpConnected
    <2>2. CASE node.kind = "http"
      BY <1>4, <2>1, <2>2 DEF TcpConnected, Ask
    <2>3. CASE node.kind = "socks5"
      <3>1. sent' = <<"methods">> /\ stage' = "method" /\ ~demanded'
            /\ answer'.verdict = "none"
        BY <1>4, <2>1, <2>3 DEF TcpConnected, Ask, NoAnswer
      <3>2. QED
        BY <3>1
    <2>4. CASE node.kind \in {"https", "socks4"}
      BY <1>4, <2>1, <2>4 DEF TcpConnected, Goto
    <2>5. QED
      BY <2>2, <2>3, <2>4 DEF HandshakeTypeOK, Node
  <1>5. CASE TlsConnected
    <2>1. sent' = <<"connect">> /\ stage' = "header" /\ ~demanded'
      BY <1>5 DEF TlsConnected, Ask
    <2>2. QED
      BY <2>1
  <1>6. CASE ReadMethod
    <2>1. CASE answer.verdict = "password" /\ node.auth
      <3>1. sent' = <<"methods", "password">> /\ stage' = "login"
            /\ demanded' /\ node'.auth
        BY <1>6, <2>1, SecondRequest DEF ReadMethod, Ask
      <3>2. QED
        BY <3>1
    <2>2. CASE ~(answer.verdict = "password" /\ node.auth)
      BY <1>6, <2>2 DEF ReadMethod, Goto
    <2>3. QED
      BY <2>1, <2>2
  <1>7. CASE ReadLogin
    BY <1>7 DEF ReadLogin, Goto
  <1>8. CASE SendRequest
    <2>1. stage' \in {"head", "socks4"} /\ sent' = Append(sent, "connect")
          /\ UNCHANGED <<node, demanded>>
      BY <1>8 DEF SendRequest, Ask
    <2>2. CASE sent = <<"methods", "password">>
      <3>1. sent' = <<"methods", "password", "connect">>
        BY <2>1, <2>2, ThirdRequest
      <3>2. QED
        BY <1>8, <2>1, <2>2, <3>1
    <2>3. CASE sent \in {<<>>, <<"methods">>}
      <3>1. <<>> # <<"methods", "password">> /\ <<"methods">> # <<"methods", "password">>
        OBVIOUS
      <3>2. ~demanded
        BY <1>8, <2>3, <3>1 DEF SendRequest
      <3>3. sent' \in {<<"connect">>, <<"methods", "connect">>}
        <4>1. CASE sent = <<>>
          BY <2>1, <4>1
        <4>2. CASE sent = <<"methods">>
          <5>1. sent' = Append(<<"methods">>, "connect")
            BY <2>1, <4>2
          <5>2. QED
            BY <5>1, SecondRequest, Zenon
        <4>3. QED
          BY <2>3, <4>1, <4>2
      <3>4. QED
        BY <2>1, <3>2, <3>3
    <2>4. QED
      BY <1>8, <2>2, <2>3 DEF SendRequest
  <1>9. CASE ReadHead \/ ReadLength \/ ReadRest \/ ReadSocks4
    BY <1>9 DEF ReadHead, ReadLength, ReadRest, ReadSocks4, Goto
  <1>10. CASE ReadHeaderByte
    BY <1>10 DEF ReadHeaderByte, Goto, AfterByte, Validated
  <1>11. CASE Break
    BY <1>11 DEF Break, Goto
  <1>12. CASE UNCHANGED handshakeVars
    BY <1>12 DEF handshakeVars
  <1>13. QED
    BY <1>1, <1>2, <1>3, <1>4, <1>5, <1>6, <1>7, <1>8, <1>9, <1>10, <1>11,
       <1>12 DEF HandshakeNext

\* Credentials are sent only on demand, and no CONNECT follows a demand without
\* them, whatever the proxy answers and in which pieces.
THEOREM LoginSound == HandshakeSpec => []LoginWhenDemanded
  <1>1. HandshakeInit => LoginInv
    BY DEF HandshakeInit, LoginInv, Plain, Login
  <1>2. FramingInv /\ LoginInv /\ [HandshakeNext]_handshakeVars => LoginInv'
    BY LoginStep DEF FramingInv
  <1>3. LoginInv => LoginWhenDemanded
    <2> SUFFICES ASSUME LoginInv PROVE LoginWhenDemanded
      OBVIOUS
    <2>1. CASE sent \in Login
      BY <2>1 DEF LoginInv, Login, LoginWhenDemanded
    <2>2. CASE sent \in Plain
      <3>1. \A i \in DOMAIN sent : sent[i] # "password"
        BY <2>2 DEF Plain
      <3>2. demanded => \A i \in DOMAIN sent : sent[i] # "connect"
        BY <2>2 DEF LoginInv, Plain, Login
      <3>3. QED
        BY <3>1, <3>2 DEF LoginWhenDemanded
    <2>3. QED
      BY <2>1, <2>2 DEF LoginInv
  <1>4. QED
    BY <1>1, <1>2, <1>3, FramingInvariant, PTL DEF HandshakeSpec

\* Every variable of a dial keeps its type and no header passes its limit.
THEOREM HandshakeTypeCorrect == HandshakeSpec => []HandshakeTypeOK
  <1>1. FramingInv => HandshakeTypeOK
    BY DEF FramingInv
  <1>2. QED
    BY <1>1, FramingInvariant, PTL

=============================================================================
