------------------------------- MODULE Handshake -------------------------------
(***************************************************************************)
(* One dial of the Connector through a native node, src/src/outbound.rs:   *)
(* TCP, TLS where the node wants it, and the HTTP CONNECT, SOCKS5 or SOCKS4 *)
(* exchange up to the point where the stream is handed to the relay.       *)
(*                                                                         *)
(* The proxy at the other end answers each request as it likes and its     *)
(* bytes arrive in pieces of any size; behind the answer that grants the   *)
(* connection the first bytes of the tunnel may already be on the wire.    *)
(* Of a byte string only the length counts, and of an answer its verdict   *)
(* and its address form.                                                   *)
(***************************************************************************)
EXTENDS Integers, Sequences

CONSTANTS
    NameLengths,   \* lengths of a domain name in a SOCKS5 answer
    HeaderSizes,   \* sizes of an HTTP answer, up to its empty line
    HeaderLimit,   \* HTTP_CONNECT_RESPONSE_LIMIT
    EarlyBytes     \* bytes of the tunnel sent right behind the last answer

ASSUME HandshakeAssumption ==
    /\ NameLengths \subseteq 0..255
    /\ HeaderSizes \subseteq Nat \ {0}
    /\ HeaderLimit \in Nat \ {0}
    /\ EarlyBytes \in Nat

VARIABLES
    node,      \* the node: its kind and whether credentials are configured
    stage,     \* what the dial waits for
    sent,      \* the requests sent to the proxy
    answer,    \* the proxy's answer to the last one
    arrived,   \* bytes received since the last request
    read,      \* bytes of them the dial has taken
    demanded   \* history: the proxy asked for a login

handshakeVars == <<node, stage, sent, answer, arrived, read, demanded>>

Node == [kind : {"http", "https", "socks5", "socks4"}, auth : BOOLEAN]

Waiting == {"method", "login", "head", "length", "rest", "socks4", "header"}
Stages == {"idle", "tcp", "tls", "encode", "established", "refused", "broken"}
          \cup Waiting

Verdicts == {"granted", "password", "denied", "garbled"}
Forms == {"none", "v4", "v6", "domain", "unknown"}

NoAnswer == [verdict |-> "none", form |-> "none", name |-> 0, size |-> 0]

HandshakeInit ==
    /\ node \in Node
    /\ stage = "idle"
    /\ sent = <<>>
    /\ answer = NoAnswer
    /\ arrived = 0
    /\ read = 0
    /\ demanded = FALSE

-----------------------------------------------------------------------------
(* The proxy and the network.                                              *)

\* The size of a SOCKS5 answer to CONNECT, by the protocol.
Socks5Size(form, name) ==
    CASE form = "v4" -> 10
      [] form = "v6" -> 22
      [] form = "domain" -> 7 + name
      [] OTHER -> 4

\* What the proxy may answer at a stage.
AnswersAt(s) ==
    CASE s = "method" -> [verdict : Verdicts, form : {"none"}, name : {0}, size : {2}]
      [] s = "login" -> [verdict : Verdicts \ {"password"}, form : {"none"},
                         name : {0}, size : {2}]
      [] s = "head" ->
            {a \in [verdict : Verdicts \ {"password"},
                    form : {"v4", "v6", "domain", "unknown"},
                    name : NameLengths \cup {0},
                    size : {4, 10, 22} \cup {7 + n : n \in NameLengths}] :
                /\ a.form # "domain" => a.name = 0
                /\ a.form = "domain" => a.name \in NameLengths
                /\ a.size = Socks5Size(a.form, a.name)}
      [] s = "socks4" -> [verdict : {"granted", "denied"}, form : {"none"},
                          name : {0}, size : {8}]
      [] s = "header" -> [verdict : Verdicts \ {"password"}, form : {"none"},
                          name : {0}, size : HeaderSizes]
      [] OTHER -> {}

ProxyAnswers ==
    /\ answer = NoAnswer
    /\ answer' \in AnswersAt(stage)
    /\ demanded' = (demanded \/ answer'.verdict = "password")
    /\ UNCHANGED <<node, stage, sent, arrived, read>>

\* The answer, and the tunnel behind the last one, as far as they are sent.
OnTheWire ==
    IF answer.verdict = "granted" /\ stage \notin {"method", "login"}
    THEN answer.size + EarlyBytes ELSE answer.size

BytesArrive ==
    /\ stage \in Waiting
    /\ answer # NoAnswer
    /\ \E n \in (arrived + 1)..OnTheWire : arrived' = n
    /\ UNCHANGED <<node, stage, sent, answer, read, demanded>>

-----------------------------------------------------------------------------
(* The dial.                                                               *)

Dial ==
    /\ stage \in {"idle", "established", "refused", "broken"}
    /\ node' \in Node
    /\ stage' = "tcp"
    /\ sent' = <<>>
    /\ answer' = NoAnswer
    /\ arrived' = 0
    /\ read' = 0
    /\ demanded' = FALSE

\* Write a request and wait for its answer.
Ask(request, s) ==
    /\ sent' = Append(sent, request)
    /\ stage' = s
    /\ answer' = NoAnswer
    /\ arrived' = 0
    /\ read' = 0
    /\ UNCHANGED <<node, demanded>>

Goto(s) == stage' = s /\ UNCHANGED <<node, sent, answer, arrived, demanded>>

\* connect_proxy_tcp returned.
TcpConnected ==
    /\ stage = "tcp"
    /\ CASE node.kind = "http" -> Ask("connect", "header")
         [] node.kind = "https" -> Goto("tls") /\ UNCHANGED read
         [] node.kind = "socks5" -> Ask("methods", "method")
         [] node.kind = "socks4" -> Goto("encode") /\ UNCHANGED read

TlsConnected ==
    /\ stage = "tls"
    /\ Ask("connect", "header")

\* The next n bytes are there.
Available(n) == read + n <= arrived

\* socks5_authenticate
ReadMethodWithoutLogin ==
    /\ stage = "method"
    /\ Available(2)
    /\ IF answer.verdict = "granted" \/ (answer.verdict = "password" /\ ~node.auth)
       THEN Goto("encode") /\ read' = read + 2
       ELSE IF answer.verdict = "password" THEN Ask("password", "login")
       ELSE Goto("refused") /\ read' = read + 2

ReadMethod ==
    /\ stage = "method"
    /\ Available(2)
    /\ CASE answer.verdict = "granted" -> Goto("encode") /\ read' = read + 2
         [] answer.verdict = "password" /\ node.auth -> Ask("password", "login")
         [] OTHER -> Goto("refused") /\ read' = read + 2

\* send_socks5_password_auth
ReadLogin ==
    /\ stage = "login"
    /\ Available(2)
    /\ Goto(IF answer.verdict = "granted" THEN "encode" ELSE "refused")
    /\ read' = read + 2

\* The address of the target is encoded, or resolved, and sent.
SendRequest ==
    /\ stage = "encode"
    /\ Ask("connect", IF node.kind = "socks5" THEN "head" ELSE "socks4")

\* read_socks5_connect_response: four bytes, then what the address form says.
ReadHead ==
    /\ stage = "head"
    /\ Available(4)
    /\ Goto(IF answer.verdict # "granted" \/ answer.form = "unknown" THEN "refused"
            ELSE IF answer.form = "domain" THEN "length" ELSE "rest")
    /\ read' = read + 4

ReadLength ==
    /\ stage = "length"
    /\ Available(1)
    /\ Goto("rest")
    /\ read' = read + 1

\* The bytes of the address that are left, with the port.
AddressRestWithoutPort ==
    CASE answer.form = "v4" -> 6
      [] answer.form = "v6" -> 18
      [] OTHER -> answer.name

AddressRest ==
    CASE answer.form = "v4" -> 6
      [] answer.form = "v6" -> 18
      [] OTHER -> answer.name + 2

ReadRest ==
    /\ stage = "rest"
    /\ Available(AddressRest)
    /\ Goto("established")
    /\ read' = read + AddressRest

\* connect_socks4_proxy
ReadSocks4 ==
    /\ stage = "socks4"
    /\ Available(8)
    /\ Goto(IF answer.verdict = "granted" THEN "established" ELSE "refused")
    /\ read' = read + 8

\* read_http_header takes one byte at a time, so it never takes one too many;
\* the header is over when its last byte is the end of an empty line.
Validated == IF answer.verdict = "granted" THEN "established" ELSE "refused"

AfterByteUnlimited(n) == IF n = answer.size THEN Validated ELSE "header"

AfterByteShort(n) ==
    IF n >= HeaderLimit THEN "refused"
    ELSE IF n = answer.size THEN Validated ELSE "header"

AfterByte(n) ==
    IF n = answer.size THEN Validated
    ELSE IF n >= HeaderLimit THEN "refused" ELSE "header"

ReadHeaderByte ==
    /\ stage = "header"
    /\ Available(1)
    /\ Goto(AfterByte(read + 1))
    /\ read' = read + 1

\* A connect, a handshake of TLS, a read or a write fails, a name cannot be
\* resolved, a name or a credential is too long to be encoded, the peer closes,
\* or the timeout of the dial expires.
Break ==
    /\ stage \in {"tcp", "tls", "encode"} \cup Waiting
    /\ Goto("broken")
    /\ UNCHANGED read

HandshakeNext ==
    \/ ProxyAnswers \/ BytesArrive
    \/ Dial \/ TcpConnected \/ TlsConnected \/ ReadMethod \/ ReadLogin
    \/ SendRequest \/ ReadHead \/ ReadLength \/ ReadRest \/ ReadSocks4
    \/ ReadHeaderByte \/ Break

HandshakeSpec == HandshakeInit /\ [][HandshakeNext]_handshakeVars

-----------------------------------------------------------------------------
(* Properties.                                                             *)

\* Every variable has its type, and a header is not read beyond its limit.
HandshakeTypeOK ==
    /\ node \in Node
    /\ stage \in Stages
    /\ sent \in Seq({"methods", "password", "connect"})
    /\ answer \in [verdict : Verdicts \cup {"none"}, form : Forms, name : Nat,
                   size : Nat]
    /\ arrived \in Nat
    /\ read \in Nat
    /\ demanded \in BOOLEAN
    /\ stage = "header" => read < HeaderLimit

\* The relay starts at the first byte of the tunnel: an established dial has
\* taken the last answer to its end, whatever its form and its length, and not
\* one byte of what the proxy sent right behind it.
StreamAligned == stage = "established" => read = answer.size

\* A dial succeeds only when the proxy granted it, and it is given up as refused
\* only when the proxy did not grant it, demanded a login that is not
\* configured, answered with an unknown address form or with a header above the
\* limit: an answer that grants is never misread.
VerdictFollowsProxy ==
    /\ stage = "established" => answer.verdict = "granted"
    /\ stage = "refused" /\ answer.verdict = "granted" =>
        answer.form = "unknown" \/ answer.size > HeaderLimit

\* Credentials go to a SOCKS5 proxy only when it demands them, and a demand is
\* never ignored: no CONNECT follows it without a login.
LoginWhenDemanded ==
    LET said(request) == \E i \in DOMAIN sent : sent[i] = request
    IN  /\ said("password") => demanded /\ node.auth
        /\ demanded /\ said("connect") =>
            sent = <<"methods", "password", "connect">>

=============================================================================
