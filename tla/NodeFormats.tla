----------------------------- MODULE NodeFormats -----------------------------
(***************************************************************************)
(* What a line of a source, an entry of a Clash document and a complex     *)
(* node are taken for: the decisions of src/src/parser.rs and of           *)
(* build_meow_node in src/src/meow.rs.  Of a text only the features the    *)
(* decisions look at are kept.                                             *)
(***************************************************************************)

NativeSchemes == {"http", "https", "socks", "ss"}
LinkSchemes == {"vmess", "vless", "trojan", "hysteria", "hysteria2", "tuic",
                "anytls", "ssr"}

-----------------------------------------------------------------------------
(* Lines.  A comment, an empty line and a text that is no URL have the     *)
(* scheme "none".  port: one that is written and not the scheme's default; *)
(* secret: user, password or auth; wellFormed: whatever else the scheme's  *)
(* parser decodes (base64, JSON, cipher, numbers).                         *)

Line ==
    [scheme : NativeSchemes \cup LinkSchemes \cup {"none"}, port : BOOLEAN,
     secret : BOOLEAN, path : BOOLEAN, query : {"none", "tls", "other"},
     fragment : BOOLEAN, wellFormed : BOOLEAN]

\* An HTTP proxy names its port and nothing behind it.
LooksLikeHttpProxyUrl(l) ==
    l.port /\ ~l.path /\ l.query = "none" /\ ~l.fragment

\* An HTTPS proxy has credentials, a node name or a TLS option.
LooksLikeHttpsProxyUrl(l) ==
    ~l.path /\ (l.secret \/ l.fragment \/ l.query = "tls")

IsSubscriptionUrl(l) ==
    l.scheme \in {"http", "https"} /\ ~l.secret /\ ~l.fragment

\* The parts a URL cannot do without; a missing port of the others has a default.
RequiredParts(scheme) ==
    CASE scheme \in LinkSchemes \ {"hysteria2", "anytls"} -> {"port", "secret"}
      [] scheme = "ss" -> {"port", "secret"}
      [] scheme = "anytls" -> {"secret"}
      [] scheme = "socks" -> {"port"}
      [] OTHER -> {}

PartsOf(l) == (IF l.port THEN {"port"} ELSE {}) \cup (IF l.secret THEN {"secret"} ELSE {})

\* parse_proxy_line: a native node, a complex one, an error or nothing.
ParseProxyLine(l) ==
    CASE l.scheme = "none" -> "nothing"
      [] l.scheme = "http" /\ ~LooksLikeHttpProxyUrl(l) -> "nothing"
      [] l.scheme = "https" /\ ~LooksLikeHttpsProxyUrl(l) -> "nothing"
      [] ~l.wellFormed \/ ~(RequiredParts(l.scheme) \subseteq PartsOf(l)) -> "error"
      [] OTHER -> IF l.scheme \in NativeSchemes THEN "native" ELSE "complex"

\* What parse_local_content does with a line.
LineMeans(l, allowSubscriptions) ==
    LET parsed == ParseProxyLine(l)
    IN  CASE parsed \in {"native", "complex"} -> parsed
          [] allowSubscriptions /\ IsSubscriptionUrl(l) -> "url"
          [] OTHER -> "skipped"

LineMeanings ==
    [allow \in BOOLEAN |-> {LineMeans(l, allow) : l \in Line}]

-----------------------------------------------------------------------------
(* Entries of a Clash document.  "policy" stands for the groups and        *)
(* policies, "complex" for the types only a complex node has.              *)

ClashEntry ==
    [type : {"policy", "complex", "http", "socks5", "ss", "unknown"},
     server : BOOLEAN,     \* server, or for an unknown type any other field
     complete : BOOLEAN,   \* port, cipher, password as the type wants them
     plugin : BOOLEAN]

EntryMeans(e) ==
    CASE e.type = "policy" -> "skipped"
      [] e.type = "complex" -> "complex"
      [] e.type = "ss" /\ e.plugin -> "complex"
      [] e.type = "unknown" -> IF e.server THEN "complex" ELSE "skipped"
      [] OTHER -> IF e.server /\ e.complete THEN "native" ELSE "skipped"

\* A provider has a URL to download, or one that is none.
EntryMeanings == {EntryMeans(e) : e \in ClashEntry} \cup {"url", "skipped"}

-----------------------------------------------------------------------------
(* Complex nodes: a document with named fields, from a link or as written  *)
(* in a Clash document.  "wireguard" stands for the kinds that have no     *)
(* builder besides tuic and ssr.  The options are those of Hysteria v1.    *)
(* valid: the values the builder of the kind checks and finds good; plain: *)
(* no version, cipher, flow, transport or protocol without support.        *)

Options == {"sni", "alpn", "obfs"}
Forms == {"unset", "text", "list"}

OptionsOf(kind) == IF kind = "hysteria" THEN Options ELSE {}

\* A UUID that parses, a TLS name that is one (of Trojan, and of VMess and VLESS
\* over TLS), a port other than zero.  The parser of links checks none of them.
CheckedValues(kind) ==
    CASE kind \in {"vmess", "vless"} -> {"uuid", "sni"}
      [] kind = "trojan" -> {"sni"}
      [] kind = "hysteria" -> {"port"}
      [] OTHER -> {}

Links == {l \in Line : ParseProxyLine(l) = "complex"}

\* The parser splits alpn at its commas, and reads no obfs.
LinkForm == [sni |-> "text", alpn |-> "list", obfs |-> "unset"]

\* A link's document: the server and a port, if need be the default one, are
\* always there.  Only hysteria2 may come without a secret: the field is then
\* empty, which its adapter refuses.
LinkDocument(l, given, valid, plain) ==
    [kind |-> l.scheme,
     fields |-> {"server", "port"} \cup
         (IF l.secret THEN {"secret"} ELSE {}),
     options |-> [o \in Options |-> IF o \in given THEN LinkForm[o] ELSE "unset"],
     given |-> given, valid |-> valid, plain |-> plain]

LinkDocuments ==
    UNION {{LinkDocument(l, given, valid, plain) :
              given \in SUBSET OptionsOf(l.scheme),
              valid \in SUBSET CheckedValues(l.scheme), plain \in BOOLEAN} : l \in Links}

ClashDocuments ==
    UNION {{[kind |-> kind, fields |-> fields,
             options |-> [o \in Options |->
                 CASE o \notin given -> "unset"
                   [] o = "alpn" -> alpn
                   [] OTHER -> "text"],
             given |-> given, valid |-> valid, plain |-> plain] :
              given \in SUBSET OptionsOf(kind), alpn \in {"text", "list"},
              valid \in SUBSET CheckedValues(kind), plain \in BOOLEAN, fields \in SUBSET {"server", "port", "secret"}} :
           kind \in LinkSchemes \cup {"snell", "ss", "wireguard"}}

Documents == LinkDocuments \cup ClashDocuments

BuiltKinds == {"vmess", "vless", "trojan", "hysteria", "hysteria2", "snell",
               "anytls", "ss"}

BuildMeowNode(d) ==
    /\ d.kind \in BuiltKinds
    /\ {"server", "secret"} \subseteq d.fields
    /\ d.kind # "anytls" => "port" \in d.fields
    /\ CheckedValues(d.kind) \subseteq d.valid
    /\ d.plain

\* build_hysteria reads each of its options as one text.
HysteriaOptions(d) == {o \in Options : d.options[o] = "text"}

=============================================================================
