-------------------------------- MODULE Loader --------------------------------
(***************************************************************************)
(* load_proxies_from_paths of src/src/parser.rs and the building of        *)
(* complex nodes behind it (src/src/meow.rs), as prepare_proxy_refresh     *)
(* runs them: files in their order, for each a queue of contents to parse, *)
(* where a content adds nodes, its own decoded form and downloads.         *)
(*                                                                         *)
(* Contents are the environment's: whether a content is encoded, its form  *)
(* and its number of lines or entries are chosen when it is read or        *)
(* downloaded, each line when it is parsed, the details of a complex node  *)
(* when it is built.  A URL downloaded twice may bring two contents, one   *)
(* that leads back to itself brings providers for ever.  A content encoded *)
(* twice is never decoded (a decoded text must hold a colon, which base64  *)
(* has not): it is one of lines that mean nothing.                         *)
(***************************************************************************)
EXTENDS NodeFormats, Integers, Sequences, FiniteSets

CONSTANTS
    Nodes,                 \* the nodes lines and entries may stand for
    MaxSubscriptionDepth,  \* MAX_SUBSCRIPTION_DEPTH
    MaxPaths,              \* bound: configured source paths
    MaxFiles,              \* bound: files of a path
    MaxEntries             \* bound: lines or entries of a content

ASSUME LoaderAssumption ==
    /\ MaxSubscriptionDepth \in Nat
    /\ MaxPaths \in Nat
    /\ MaxFiles \in Nat
    /\ MaxEntries \in Nat

VARIABLES
    loading,   \* where the load is
    paths,     \* configured paths not yet opened
    files,     \* files of the open path not yet read
    queue,     \* QueuedContent: contents still to be parsed
    item,      \* the content being parsed or expanded
    result,    \* LocalParseResult of the item: nodes and number of URLs
    fileNodes, \* the nodes of the open file so far
    loaded,    \* LoadedProxySet of the files before
    candidates,\* PreparedProxyRefresh.candidates
    fallback,  \* MeowBuildResult.fallback: complex nodes without an adapter
    build,     \* history: the document built last
    met        \* history: the nodes met in any content of this load

loaderVars == <<loading, paths, files, queue, item, result, fileNodes, loaded,
                candidates, fallback, build, met>>

LoadPhases == {"idle", "files", "next", "parse", "fetch", "build", "done", "failed"}

Content == [encoded : BOOLEAN, form : {"lines", "clash"},
            entries : 0..MaxEntries]

\* hops is history: the downloads between a local file and this content.
QueuedContent ==
    [depth : 0..MaxSubscriptionDepth, allow : BOOLEAN, content : Content, hops : Nat]

NodeSet == [native : SUBSET Nodes, complex : SUBSET Nodes]

NoContent == [encoded |-> FALSE, form |-> "lines", entries |-> 0]
NoItem == [depth |-> 0, allow |-> FALSE, content |-> NoContent, hops |-> 0]
NoSet == [native |-> {}, complex |-> {}]
NoResult == [nodes |-> NoSet, urls |-> 0]
NoDocument == [kind |-> "none", fields |-> {},
               options |-> [o \in Options |-> "unset"], given |-> {}, valid |-> {},
               plain |-> FALSE]

Extend(s, t) ==
    [native |-> s.native \cup t.native, complex |-> s.complex \cup t.complex]

LoaderInit ==
    /\ loading = "idle"
    /\ paths = 0
    /\ files = 0
    /\ queue = <<>>
    /\ item = NoItem
    /\ result = NoResult
    /\ fileNodes = NoSet
    /\ loaded = NoSet
    /\ candidates = {}
    /\ fallback = {}
    /\ build = NoDocument
    /\ met = NoSet

-----------------------------------------------------------------------------
(* Paths and files.                                                        *)

\* build_subscription_client; a subscription_proxy it cannot use is an error.
StartLoad ==
    /\ loading = "idle"
    /\ loading' \in {"files", "failed"}
    /\ paths' \in 0..MaxPaths
    /\ UNCHANGED <<files, queue, item, result, fileNodes, loaded, candidates,
                   fallback, build, met>>

\* collect_source_files: a path that does not exist has no files, a directory
\* that cannot be read ends the load.
OpenPath ==
    /\ loading = "files"
    /\ files = 0 /\ paths > 0
    /\ \/ loading' = "files" /\ paths' = paths - 1 /\ files' \in 0..MaxFiles
       \/ loading' = "failed" /\ UNCHANGED <<paths, files>>
    /\ UNCHANGED <<queue, item, result, fileNodes, loaded, candidates, fallback, build, met>>

\* A file that cannot be read ends the load.
ReadFile ==
    /\ loading = "files"
    /\ files > 0
    /\ \/ /\ loading' = "next"
          /\ files' = files - 1
          /\ \E c \in Content :
                queue' = <<[depth |-> 0, allow |-> TRUE, content |-> c, hops |-> 0]>>
       \/ loading' = "failed" /\ UNCHANGED <<files, queue>>
    /\ UNCHANGED <<paths, item, result, fileNodes, loaded, candidates, fallback, build, met>>

-----------------------------------------------------------------------------
(* parse_content_queue.                                                    *)

DecodedAgain(i) == [i EXCEPT !.allow = FALSE]

\* A decoded content has the depth of its source and expands no lines.
Decoded(i) ==
    [i EXCEPT !.content.encoded = FALSE, !.allow = FALSE]

\* The base64 branch of parse_local_content: nothing else is in the content.
DecodeItem ==
    /\ loading = "next"
    /\ queue # <<>>
    /\ Head(queue).content.encoded
    /\ queue' = Append(Tail(queue), Decoded(Head(queue)))
    /\ UNCHANGED <<loading, paths, files, item, result, fileNodes, loaded,
                   candidates, fallback, build, met>>

TakeItem ==
    /\ loading = "next"
    /\ queue # <<>>
    /\ ~Head(queue).content.encoded
    /\ loading' = "parse"
    /\ item' = Head(queue)
    /\ queue' = Tail(queue)
    /\ UNCHANGED <<paths, files, result, fileNodes, loaded, candidates, fallback, build, met>>

\* A line or an entry was taken for `means`; a node is any of Nodes.
Count(means) ==
    /\ item' = [item EXCEPT !.content.entries = @ - 1]
    /\ \E n \in IF means \in {"native", "complex"} THEN {{k} : k \in Nodes} ELSE {{}} :
        LET found == [native |-> IF means = "native" THEN n ELSE {},
                      complex |-> IF means = "complex" THEN n ELSE {}]
        IN  /\ result' = [nodes |-> Extend(result.nodes, found),
                          urls |-> result.urls + (IF means = "url" THEN 1 ELSE 0)]
            /\ met' = Extend(met, found)
    /\ UNCHANGED <<loading, paths, files, queue, fileNodes, loaded, candidates,
                   fallback, build>>

ParseLine ==
    /\ loading = "parse"
    /\ item.content.form = "lines" /\ item.content.entries > 0
    /\ \E means \in LineMeanings[item.allow] : Count(means)

\* An entry of proxies or a provider.
\* Providers are expanded whatever allow_subscriptions says.
ParseEntry ==
    /\ loading = "parse"
    /\ item.content.form = "clash" /\ item.content.entries > 0
    /\ \E means \in EntryMeanings : Count(means)

\* The depth limit drops the URLs of an item, not its nodes.
EndParseDropping ==
    /\ loading = "parse"
    /\ item.content.entries = 0
    /\ fileNodes' = IF item.depth >= MaxSubscriptionDepth THEN fileNodes
                   ELSE Extend(fileNodes, result.nodes)
    /\ loading' = "fetch"
    /\ result' = [NoResult EXCEPT !.urls =
          IF item.depth >= MaxSubscriptionDepth THEN 0 ELSE result.urls]
    /\ UNCHANGED <<paths, files, queue, item, loaded, candidates, fallback, build, met>>

EndParseLate ==
    /\ loading = "parse"
    /\ item.content.entries = 0
    /\ fileNodes' = Extend(fileNodes, result.nodes)
    /\ loading' = "fetch"
    /\ result' = [NoResult EXCEPT !.urls =
          IF item.depth > MaxSubscriptionDepth THEN 0 ELSE result.urls]
    /\ UNCHANGED <<paths, files, queue, item, loaded, candidates, fallback, build, met>>

EndParse ==
    /\ loading = "parse"
    /\ item.content.entries = 0
    /\ fileNodes' = Extend(fileNodes, result.nodes)
    /\ loading' = "fetch"
    /\ result' = [NoResult EXCEPT !.urls =
          IF item.depth >= MaxSubscriptionDepth THEN 0 ELSE result.urls]
    /\ UNCHANGED <<paths, files, queue, item, loaded, candidates, fallback, build, met>>

DownloadedShallow(c) ==
    [depth |-> item.depth, allow |-> FALSE, content |-> c, hops |-> item.hops + 1]

Downloaded(c) ==
    [depth |-> item.depth + 1, allow |-> FALSE, content |-> c, hops |-> item.hops + 1]

\* fetch_subscription: a download that fails, or does not end in time, is left
\* out and the next one is tried.
FetchSubscription ==
    /\ loading = "fetch"
    /\ result.urls > 0
    /\ result' = [result EXCEPT !.urls = @ - 1]
    /\ \/ \E c \in Content : queue' = Append(queue, Downloaded(c))
       \/ UNCHANGED queue
    /\ UNCHANGED <<loading, paths, files, item, fileNodes, loaded, candidates,
                   fallback, build, met>>

EndFetch ==
    /\ loading = "fetch"
    /\ result.urls = 0
    /\ loading' = "next"
    /\ item' = NoItem
    /\ UNCHANGED <<paths, files, queue, result, fileNodes, loaded, candidates,
                   fallback, build, met>>

EndFile ==
    /\ loading = "next"
    /\ queue = <<>>
    /\ loading' = "files"
    /\ loaded' = Extend(loaded, fileNodes)
    /\ fileNodes' = NoSet
    /\ UNCHANGED <<paths, files, queue, item, result, candidates, fallback, build, met>>

-----------------------------------------------------------------------------
(* prepare_proxy_refresh behind the load: native nodes are candidates as   *)
(* they are, complex ones when an adapter can be built.                    *)

EndFiles ==
    /\ loading = "files"
    /\ files = 0 /\ paths = 0
    /\ loading' = "build"
    /\ candidates' = loaded.native
    /\ UNCHANGED <<paths, files, queue, item, result, fileNodes, loaded, fallback, build, met>>

\* One round of build_meow_nodes.
BuildNode ==
    /\ loading = "build"
    /\ \E k \in loaded.complex, d \in Documents :
        /\ loaded' = [loaded EXCEPT !.complex = @ \ {k}]
        /\ build' = d
        /\ IF BuildMeowNode(d)
           THEN candidates' = candidates \cup {k} /\ UNCHANGED fallback
           ELSE fallback' = fallback \cup {k} /\ UNCHANGED candidates
    /\ UNCHANGED <<loading, paths, files, queue, item, result, fileNodes, met>>

EndBuild ==
    /\ loading = "build"
    /\ loaded.complex = {}
    /\ loading' = "done"
    /\ UNCHANGED <<paths, files, queue, item, result, fileNodes, loaded,
                   candidates, fallback, build, met>>

\* The refresh has taken the candidates, or was abandoned: what a failed load
\* had read so far goes with it.
EndLoad ==
    /\ loading \in {"done", "failed"}
    /\ loading' = "idle"
    /\ paths' = 0
    /\ files' = 0
    /\ queue' = <<>>
    /\ item' = NoItem
    /\ result' = NoResult
    /\ fileNodes' = NoSet
    /\ loaded' = NoSet
    /\ candidates' = {}
    /\ fallback' = {}
    /\ build' = NoDocument
    /\ met' = NoSet

LoadStep ==
    \/ OpenPath \/ ReadFile \/ DecodeItem \/ TakeItem \/ ParseLine \/ ParseEntry
    \/ EndParse \/ FetchSubscription \/ EndFetch \/ EndFile \/ EndFiles
    \/ BuildNode \/ EndBuild \/ EndLoad

LoaderNext == StartLoad \/ LoadStep

LoaderSpec == LoaderInit /\ [][LoaderNext]_loaderVars

\* The scheduler runs the refresh task; a download ends with its timeout.
LoaderFairness == WF_loaderVars(LoadStep)

-----------------------------------------------------------------------------
(* Properties.                                                             *)

LoaderTypeOK ==
    /\ loading \in LoadPhases
    /\ paths \in Nat /\ files \in Nat
    /\ queue \in Seq(QueuedContent)
    /\ item \in QueuedContent
    /\ result \in [nodes : NodeSet, urls : Nat]
    /\ fileNodes \in NodeSet
    /\ loaded \in NodeSet
    /\ candidates \subseteq Nodes /\ fallback \subseteq Nodes
    /\ build \in Documents \cup {NoDocument}
    /\ met \in NodeSet

\* No content is more downloads away from a local file than the limit, however
\* subscriptions and providers refer to each other and whatever is encoded on
\* the way.
ExpansionBounded ==
    /\ item.hops <= MaxSubscriptionDepth
    /\ \A i \in DOMAIN queue : queue[i].hops <= MaxSubscriptionDepth

\* README: sources are merged.  A finished load brings every node of every
\* content it met, also of those at the depth limit and next to downloads that
\* failed, as a candidate or, if no adapter can be built, as skipped; and it
\* brings nothing else.
NothingLost ==
    loading = "done" =>
        /\ met.native \subseteq candidates
        /\ met.complex \subseteq candidates \cup fallback
        /\ candidates \subseteq met.native \cup met.complex

\* README: Hysteria v1 is supported natively for hysteria:// links, with their
\* alpn and an obfs password, and for Clash nodes alike.  The options a node
\* was given reach its adapter.
OptionsReachAdapter ==
    BuildMeowNode(build) => build.given \subseteq HysteriaOptions(build)

\* Every load ends, also when providers lead in a circle.
LoadEnds == loading # "idle" ~> loading = "idle"

=============================================================================
