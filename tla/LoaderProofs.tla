----------------------------- MODULE LoaderProofs -----------------------------
(* Proofs about the loading of sources, for every set of nodes, every       *)
(* depth limit and every number of paths, files and entries; and, at the    *)
(* end, about the start of the process, which rests on the pool as well.    *)
EXTENDS MCStartup, PoolLifeProofs, SequenceTheorems, TLAPS

\* Contents that are as many downloads deep as their depth says.
Reached ==
    {q \in QueuedContent : q.hops = q.depth}

\* The depth of the contents: ExpansionBounded says nothing of an item that is
\* about to be expanded, whose downloads would be one deeper.
DepthInv ==
    /\ queue \in Seq(Reached)
    /\ item \in Reached
    /\ loading = "fetch" /\ result.urls > 0 => item.depth < MaxSubscriptionDepth

\* The types of the rest.
RestTypeOK ==
    /\ loading \in LoadPhases
    /\ paths \in Nat /\ files \in Nat
    /\ result \in [nodes : NodeSet, urls : Nat]
    /\ fileNodes \in NodeSet
    /\ loaded \in NodeSet
    /\ candidates \subseteq Nodes /\ fallback \subseteq Nodes
    /\ build \in Documents \cup {NoDocument}
    /\ met \in NodeSet

LoaderInv == RestTypeOK /\ DepthInv

\* The empty values have their types.
LEMMA EmptyValues ==
    /\ NoContent \in Content
    /\ NoItem \in Reached
    /\ NoSet \in NodeSet
    /\ NoResult \in [nodes : NodeSet, urls : Nat]
<1>1. NoContent \in Content
    BY LoaderAssumption DEF NoContent, Content
<1>2. NoItem \in Reached
    BY <1>1, LoaderAssumption DEF NoItem, Reached, QueuedContent
<1>3. NoSet \in NodeSet
    BY DEF NoSet, NodeSet
<1> QED BY <1>1, <1>2, <1>3 DEF NoResult

\* The union of two node sets is one.
LEMMA ExtendType ==
    ASSUME NEW s \in NodeSet, NEW t \in NodeSet PROVE Extend(s, t) \in NodeSet
BY DEF Extend, NodeSet

\* A reached content is one.
LEMMA ReachedType ==
    ASSUME NEW q \in Reached
    PROVE  /\ q \in QueuedContent /\ q.hops = q.depth /\ q.depth <= MaxSubscriptionDepth
           /\ q.depth \in Nat /\ q.hops \in Nat /\ q.content \in Content
           /\ q.content.entries \in 0..MaxEntries
BY DEF Reached, QueuedContent, Content

\* Decoding leaves a content where it is.
LEMMA DecodedReached ==
    ASSUME NEW q \in Reached PROVE Decoded(q) \in Reached
<1> DEFINE c == [q.content EXCEPT !.encoded = FALSE]
<1>1. c \in Content
    BY ReachedType DEF Content
<1> DEFINE p == [q EXCEPT !.content.encoded = FALSE]
<1>2. p = [depth |-> q.depth, allow |-> q.allow, content |-> c, hops |-> q.hops]
    <2>1. p = [q EXCEPT !.content = c]
        BY ReachedType DEF QueuedContent
    <2> HIDE DEF c
    <2> QED BY <2>1, ReachedType DEF QueuedContent
<1>3. Decoded(q) = [p EXCEPT !.allow = FALSE]
    BY DEF Decoded
<1>4. Decoded(q) = [depth |-> q.depth, allow |-> FALSE, content |-> c, hops |-> q.hops]
    BY <1>2, <1>3
<1> QED BY <1>1, <1>4, ReachedType DEF Reached, QueuedContent

\* What is downloaded below the limit is one deeper and within it.
LEMMA DownloadedReached ==
    ASSUME item \in Reached, item.depth < MaxSubscriptionDepth, NEW c \in Content
    PROVE  Downloaded(c) \in Reached
BY ReachedType, LoaderAssumption DEF Downloaded, Reached, QueuedContent

\* Counting an entry leaves the item where it is.
LEMMA CountReached ==
    ASSUME NEW q \in Reached, q.content.entries > 0
    PROVE  [q EXCEPT !.content.entries = @ - 1] \in Reached
<1> DEFINE c == [q.content EXCEPT !.entries = @ - 1]
           r == [q EXCEPT !.content.entries = @ - 1]
<1>1. c \in Content
    BY ReachedType, LoaderAssumption DEF Content
<1>2. r = [depth |-> q.depth, allow |-> q.allow, content |-> c, hops |-> q.hops]
    BY ReachedType DEF QueuedContent
<1>3. q.allow \in BOOLEAN
    BY ReachedType DEF QueuedContent
<1> QED BY <1>1, <1>2, <1>3, ReachedType DEF Reached, QueuedContent

\* An entry adds at most one node to the sets.
LEMMA CountKeeps ==
    ASSUME LoaderInv, loading = "parse", item.content.entries > 0,
           NEW means, Count(means)
    PROVE  LoaderInv'
<1>1. PICK n \in IF means \in {"native", "complex"} THEN {{k} : k \in Nodes} ELSE {{}} :
        LET found == [native |-> IF means = "native" THEN n ELSE {},
                      complex |-> IF means = "complex" THEN n ELSE {}]
        IN  /\ result' = [nodes |-> Extend(result.nodes, found),
                          urls |-> result.urls + (IF means = "url" THEN 1 ELSE 0)]
            /\ met' = Extend(met, found)
    BY DEF Count
<1> DEFINE found == [native |-> IF means = "native" THEN n ELSE {},
                     complex |-> IF means = "complex" THEN n ELSE {}]
<1>2. n \subseteq Nodes
    OBVIOUS
<1>3. found \in NodeSet
    BY <1>2 DEF NodeSet
<1>4. met' \in NodeSet
    BY <1>1, <1>3, ExtendType DEF LoaderInv, RestTypeOK
<1>5. result' \in [nodes : NodeSet, urls : Nat]
    BY <1>1, <1>3, ExtendType DEF LoaderInv, RestTypeOK
<1>6. item' \in Reached
    BY CountReached DEF Count, LoaderInv, DepthInv
<1> QED BY <1>4, <1>5, <1>6 DEF Count, LoaderInv, RestTypeOK, DepthInv

\* Every step keeps the types and the depths.
LEMMA LoaderStep ==
    ASSUME LoaderInv, [LoaderNext]_loaderVars PROVE LoaderInv'
<1> USE DEF LoaderInv
<1>1. CASE StartLoad
    BY <1>1 DEF StartLoad, RestTypeOK, DepthInv, LoadPhases
<1>2. CASE OpenPath
    BY <1>2, LoaderAssumption DEF OpenPath, RestTypeOK, DepthInv, LoadPhases
<1>3. CASE ReadFile
    <2>1. ASSUME NEW c \in Content
          PROVE  <<[depth |-> 0, allow |-> TRUE, content |-> c, hops |-> 0]>> \in Seq(Reached)
        BY LoaderAssumption DEF Reached, QueuedContent
    <2>2. queue' \in Seq(Reached)
        BY <1>3, <2>1 DEF ReadFile, DepthInv
    <2>3. loading' \in {"next", "failed"} /\ files' \in Nat
        BY <1>3 DEF ReadFile, RestTypeOK
    <2> QED BY <1>3, <2>2, <2>3 DEF ReadFile, RestTypeOK, DepthInv, LoadPhases
<1>4. CASE DecodeItem
    <2>1. Head(queue) \in Reached /\ Tail(queue) \in Seq(Reached)
        BY <1>4 DEF DecodeItem, DepthInv
    <2>2. queue' \in Seq(Reached)
        BY <1>4, <2>1, DecodedReached DEF DecodeItem
    <2> QED BY <1>4, <2>2 DEF DecodeItem, RestTypeOK, DepthInv
<1>5. CASE TakeItem
    <2>1. item' \in Reached /\ queue' \in Seq(Reached)
        BY <1>5 DEF TakeItem, DepthInv
    <2> QED BY <1>5, <2>1 DEF TakeItem, RestTypeOK, DepthInv, LoadPhases
<1>6. CASE ParseLine
    BY <1>6, CountKeeps DEF ParseLine
<1>7. CASE ParseEntry
    BY <1>7, CountKeeps DEF ParseEntry
<1>8. CASE EndParse
    <2>1. fileNodes' \in NodeSet
        BY <1>8, ExtendType DEF EndParse, RestTypeOK
    <2>2. result' \in [nodes : NodeSet, urls : Nat]
          /\ (result'.urls > 0 => item.depth < MaxSubscriptionDepth)
        BY <1>8, EmptyValues, ReachedType, LoaderAssumption
        DEF EndParse, RestTypeOK, DepthInv
    <2> QED BY <1>8, <2>1, <2>2 DEF EndParse, RestTypeOK, DepthInv, LoadPhases
<1>9. CASE FetchSubscription
    <2>1. item.depth < MaxSubscriptionDepth /\ item \in Reached
        BY <1>9 DEF FetchSubscription, DepthInv
    <2>2. queue' \in Seq(Reached)
        BY <1>9, <2>1, DownloadedReached DEF FetchSubscription, DepthInv
    <2>3. result' \in [nodes : NodeSet, urls : Nat]
        BY <1>9 DEF FetchSubscription, RestTypeOK
    <2> QED BY <1>9, <2>1, <2>2, <2>3 DEF FetchSubscription, RestTypeOK, DepthInv
<1>10. CASE EndFetch
    BY <1>10, EmptyValues DEF EndFetch, RestTypeOK, DepthInv, LoadPhases
<1>11. CASE EndFile
    <2>1. loaded' \in NodeSet /\ fileNodes' \in NodeSet
        BY <1>11, ExtendType, EmptyValues DEF EndFile, RestTypeOK
    <2> QED BY <1>11, <2>1 DEF EndFile, RestTypeOK, DepthInv, LoadPhases
<1>12. CASE EndFiles
    <2>1. loaded.native \subseteq Nodes
        BY DEF RestTypeOK, NodeSet
    <2> QED BY <1>12, <2>1 DEF EndFiles, RestTypeOK, DepthInv, LoadPhases
<1>13. CASE BuildNode
    <2>1. PICK k \in loaded.complex, d \in Documents :
            /\ loaded' = [loaded EXCEPT !.complex = @ \ {k}]
            /\ build' = d
            /\ IF BuildMeowNode(d)
               THEN candidates' = candidates \cup {k} /\ UNCHANGED fallback
               ELSE fallback' = fallback \cup {k} /\ UNCHANGED candidates
        BY <1>13 DEF BuildNode
    <2>2. k \in Nodes
        BY DEF RestTypeOK, NodeSet
    <2>3. candidates' \subseteq Nodes /\ fallback' \subseteq Nodes
        BY <2>1, <2>2 DEF RestTypeOK
    <2>4. loaded' \in NodeSet
        BY <2>1 DEF RestTypeOK, NodeSet
    <2> QED BY <1>13, <2>1, <2>3, <2>4 DEF BuildNode, RestTypeOK, DepthInv
<1>14. CASE EndBuild
    BY <1>14 DEF EndBuild, RestTypeOK, DepthInv, LoadPhases
<1>15. CASE EndLoad
    BY <1>15, EmptyValues DEF EndLoad, RestTypeOK, DepthInv, LoadPhases
<1>16. CASE UNCHANGED loaderVars
    BY <1>16 DEF loaderVars, RestTypeOK, DepthInv
<1> QED BY <1>1, <1>2, <1>3, <1>4, <1>5, <1>6, <1>7, <1>8, <1>9, <1>10, <1>11,
           <1>12, <1>13, <1>14, <1>15, <1>16 DEF LoaderNext, LoadStep

\* Types and depths hold throughout.
THEOREM LoaderInvariant == LoaderSpec => []LoaderInv
<1>1. LoaderInit => LoaderInv
    BY EmptyValues DEF LoaderInit, LoaderInv, RestTypeOK, DepthInv, LoadPhases
<1>2. LoaderInv /\ [LoaderNext]_loaderVars => LoaderInv'
    BY LoaderStep
<1> QED BY <1>1, <1>2, PTL DEF LoaderSpec

\* Every variable of the load keeps its type.
THEOREM LoaderTypeCorrect == LoaderSpec => []LoaderTypeOK
<1>1. LoaderInv => LoaderTypeOK
    <2> SUFFICES ASSUME LoaderInv PROVE LoaderTypeOK
        OBVIOUS
    <2>1. item \in QueuedContent
        BY ReachedType DEF LoaderInv, DepthInv
    <2>2. Reached \subseteq QueuedContent
        BY DEF Reached
    <2>3. queue \in Seq(QueuedContent)
        BY <2>2 DEF LoaderInv, DepthInv
    <2> QED BY <2>1, <2>3 DEF LoaderInv, RestTypeOK, LoaderTypeOK
<1> QED BY <1>1, LoaderInvariant, PTL

\* Subscriptions and providers are never followed past the limit, whatever they
\* contain.
THEOREM ExpansionLimited == LoaderSpec => []ExpansionBounded
<1>1. LoaderInv => ExpansionBounded
    <2> SUFFICES ASSUME LoaderInv PROVE ExpansionBounded
        OBVIOUS
    <2>1. item.hops <= MaxSubscriptionDepth
        BY ReachedType DEF LoaderInv, DepthInv
    <2>2. ASSUME NEW i \in DOMAIN queue PROVE queue[i].hops <= MaxSubscriptionDepth
        <3>1. queue[i] \in Reached
            BY DEF LoaderInv, DepthInv
        <3> QED BY <3>1, ReachedType
    <2> QED BY <2>1, <2>2 DEF ExpansionBounded
<1> QED BY <1>1, LoaderInvariant, PTL

-----------------------------------------------------------------------------
(* No node is lost.                                                        *)

\* Where the nodes met so far are.  NothingLost speaks of the end only; on the
\* way they are in the item's result, in the file's nodes or in the set of the
\* files before, and, while adapters are built, among the complex nodes left.
AccountInv ==
    /\ loading \in {"idle", "files", "next", "parse", "fetch"} =>
        /\ met.native = loaded.native \cup fileNodes.native \cup result.nodes.native
        /\ met.complex = loaded.complex \cup fileNodes.complex \cup result.nodes.complex
    /\ loading \in {"idle", "files", "next", "fetch"} => result.nodes = NoSet
    /\ loading \in {"idle", "files"} => fileNodes = NoSet
    /\ loading \in {"build", "done"} =>
        /\ met.native \subseteq candidates
        /\ met.complex \subseteq loaded.complex \cup candidates \cup fallback
        /\ loaded.complex \subseteq met.complex
        /\ candidates \subseteq met.native \cup met.complex
    /\ loading = "done" => loaded.complex = {}

\* An entry that is counted is in the result and among the nodes met.
LEMMA CountAccounts ==
    ASSUME LoaderInv, AccountInv, loading = "parse", NEW means, Count(means)
    PROVE  AccountInv'
<1>1. PICK n \in IF means \in {"native", "complex"} THEN {{k} : k \in Nodes} ELSE {{}} :
        LET found == [native |-> IF means = "native" THEN n ELSE {},
                      complex |-> IF means = "complex" THEN n ELSE {}]
        IN  /\ result' = [nodes |-> Extend(result.nodes, found),
                          urls |-> result.urls + (IF means = "url" THEN 1 ELSE 0)]
            /\ met' = Extend(met, found)
    BY DEF Count
<1> DEFINE found == [native |-> IF means = "native" THEN n ELSE {},
                     complex |-> IF means = "complex" THEN n ELSE {}]
<1>2. /\ met'.native = met.native \cup found.native
      /\ met'.complex = met.complex \cup found.complex
      /\ result'.nodes.native = result.nodes.native \cup found.native
      /\ result'.nodes.complex = result.nodes.complex \cup found.complex
    BY <1>1 DEF Extend
<1>3. loading' = "parse" /\ loaded' = loaded /\ fileNodes' = fileNodes
    BY DEF Count
<1> HIDE DEF found
<1> QED BY <1>2, <1>3 DEF AccountInv

\* Every step keeps the account.
LEMMA AccountStep ==
    ASSUME LoaderInv, AccountInv, [LoaderNext]_loaderVars PROVE AccountInv'
<1>1. CASE StartLoad
    BY <1>1 DEF StartLoad, AccountInv
<1>2. CASE OpenPath
    BY <1>2 DEF OpenPath, AccountInv
<1>3. CASE ReadFile
    BY <1>3 DEF ReadFile, AccountInv
<1>4. CASE DecodeItem
    BY <1>4 DEF DecodeItem, AccountInv
<1>5. CASE TakeItem
    BY <1>5 DEF TakeItem, AccountInv
<1>6. CASE ParseLine
    BY <1>6, CountAccounts DEF ParseLine
<1>7. CASE ParseEntry
    BY <1>7, CountAccounts DEF ParseEntry
<1>8. CASE EndParse
    <2>1. /\ fileNodes'.native = fileNodes.native \cup result.nodes.native
          /\ fileNodes'.complex = fileNodes.complex \cup result.nodes.complex
          /\ result'.nodes = NoSet
        BY <1>8 DEF EndParse, Extend, NoResult
    <2> QED BY <1>8, <2>1 DEF EndParse, AccountInv, NoSet
<1>9. CASE FetchSubscription
    <2>1. result'.nodes = result.nodes
        BY <1>9 DEF FetchSubscription, LoaderInv, RestTypeOK
    <2> QED BY <1>9, <2>1 DEF FetchSubscription, AccountInv
<1>10. CASE EndFetch
    BY <1>10 DEF EndFetch, AccountInv
<1>11. CASE EndFile
    <2>1. /\ loaded'.native = loaded.native \cup fileNodes.native
          /\ loaded'.complex = loaded.complex \cup fileNodes.complex
        BY <1>11 DEF EndFile, Extend
    <2> QED BY <1>11, <2>1 DEF EndFile, AccountInv, NoSet
<1>12. CASE EndFiles
    BY <1>12 DEF EndFiles, AccountInv, NoSet
<1>13. CASE BuildNode
    <2>1. PICK k \in loaded.complex, d \in Documents :
            /\ loaded' = [loaded EXCEPT !.complex = @ \ {k}]
            /\ IF BuildMeowNode(d)
               THEN candidates' = candidates \cup {k} /\ UNCHANGED fallback
               ELSE fallback' = fallback \cup {k} /\ UNCHANGED candidates
        BY <1>13 DEF BuildNode
    <2>2. loaded'.complex = loaded.complex \ {k}
        BY <2>1 DEF LoaderInv, RestTypeOK, NodeSet
    <2> QED BY <1>13, <2>1, <2>2 DEF BuildNode, AccountInv
<1>14. CASE EndBuild
    BY <1>14 DEF EndBuild, AccountInv
<1>15. CASE EndLoad
    BY <1>15 DEF EndLoad, AccountInv, NoSet, NoResult
<1>16. CASE UNCHANGED loaderVars
    BY <1>16 DEF loaderVars, AccountInv
<1> QED BY <1>1, <1>2, <1>3, <1>4, <1>5, <1>6, <1>7, <1>8, <1>9, <1>10, <1>11,
           <1>12, <1>13, <1>14, <1>15, <1>16 DEF LoaderNext, LoadStep

\* A finished load has every node it met, however contents were decoded,
\* expanded, cut at the limit or missing.
THEOREM LoadComplete == LoaderSpec => []NothingLost
<1>1. LoaderInit => AccountInv
    BY DEF LoaderInit, AccountInv, NoSet, NoResult
<1>2. LoaderInv /\ AccountInv /\ [LoaderNext]_loaderVars => AccountInv'
    BY AccountStep
<1>3. AccountInv => NothingLost
    BY DEF AccountInv, NothingLost
<1> QED BY <1>1, <1>2, <1>3, LoaderInvariant, PTL DEF LoaderSpec

-----------------------------------------------------------------------------
(* The start of the process.  Neither part writes the other's variables.    *)

\* Seen through the pool's variables a start is the pool.
LEMMA StartupPools == StartupSpec => Spec
<1>1. StartupInit => Init
    BY DEF StartupInit
<1>2. [StartupNext]_startupVars => [Next]_vars
    BY DEF StartupNext, startupVars, vars
<1> QED BY <1>1, <1>2, PTL DEF StartupSpec, Spec

\* Seen through the loader's variables a start is a load.
LEMMA StartupLoads == StartupSpec => LoaderSpec
<1>1. StartupInit => LoaderInit
    BY DEF StartupInit
<1>2. [StartupNext]_startupVars => [LoaderNext]_loaderVars
    BY DEF StartupNext, startupVars, loaderVars
<1> QED BY <1>1, <1>2, PTL DEF StartupSpec, LoaderSpec

\* The guarantees of the two hold together: the load is bounded and complete,
\* and the restored pool never lists a retired node,
\* holds no node twice and agrees with the disabled list it restored from, if
\* one client task at a time reports and no recheck runs.
THEOREM StartupGuarantees ==
    OneReporter => (StartupSpec => [](/\ LoaderTypeOK /\ ExpansionBounded
                                      /\ NothingLost
                                      /\ RetiredNotActive /\ NoDuplicateNodes
                                      /\ DisabledListsAgree))
<1> SUFFICES ASSUME OneReporter
             PROVE  StartupSpec => [](/\ LoaderTypeOK /\ ExpansionBounded
                                      /\ NothingLost
                                      /\ RetiredNotActive /\ NoDuplicateNodes
                                      /\ DisabledListsAgree)
    OBVIOUS
<1>1. Spec => []DisabledListsAgree
    BY ListsAgree
<1> QED
    BY <1>1, StartupPools, StartupLoads, LoaderTypeCorrect, ExpansionLimited, LoadComplete,
       RetiredStaysOut, NodesDistinct, PTL

=============================================================================
