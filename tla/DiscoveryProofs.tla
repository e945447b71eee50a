--------------------------- MODULE DiscoveryProofs ---------------------------
(***************************************************************************)
(* A discovery keeps its types and merges without loss, on every web, for   *)
(* any sources, answers, limits and number of variants.                     *)
(***************************************************************************)
EXTENDS Discovery, GeneralLemmas

(***************************************************************************)
(* Selections of a sequence                                                 *)
(***************************************************************************)
\* A set of numbers up to a bound is finite.
LEMMA FinitePart ==
    ASSUME NEW n \in Nat, NEW P \in SUBSET (1 .. n)
    PROVE  IsFiniteSet(P) /\ Cardinality(P) \in Nat
<1>1. IsFiniteSet(1 .. n)
  BY FS_Interval
<1>2. IsFiniteSet(P)
  BY <1>1, FS_Subset
<1> QED
  BY <1>2, FS_CardinalityType

\* The elements of a set of numbers have different ranks, from 1 to their number.
LEMMA Ranks ==
    ASSUME NEW n \in Nat, NEW P \in SUBSET (1 .. n)
    PROVE  /\ \A i \in P: Cardinality(P \cap 1 .. i) \in 1 .. Cardinality(P)
           /\ \A i, j \in P: i # j => Cardinality(P \cap 1 .. i) # Cardinality(P \cap 1 .. j)
<1>1. IsFiniteSet(P) /\ Cardinality(P) \in Nat
  BY FinitePart
<1>2. ASSUME NEW a \in P
      PROVE  IsFiniteSet(P \cap 1 .. a) /\ Cardinality(P \cap 1 .. a) \in 1 .. Cardinality(P)
  <2>1. IsFiniteSet(P \cap 1 .. a) /\ Cardinality(P \cap 1 .. a) <= Cardinality(P)
    BY <1>1, FS_Subset
  <2>2. a \in P \cap 1 .. a
    OBVIOUS
  <2>3. Cardinality(P \cap 1 .. a) \in Nat /\ Cardinality(P \cap 1 .. a) # 0
    BY <2>1, <2>2, FS_CardinalityType, FS_EmptySet
  <2> QED
    BY <1>1, <2>1, <2>3
<1>3. ASSUME NEW a \in P, NEW b \in P, a < b
      PROVE  Cardinality(P \cap 1 .. a) # Cardinality(P \cap 1 .. b)
  <2>1. P \cap 1 .. a \subseteq P \cap 1 .. b
    BY <1>3
  <2>2. b \in P \cap 1 .. b /\ b \notin P \cap 1 .. a
    BY <1>3
  <2> QED
    BY <1>2, <2>1, <2>2, FS_Subset
<1>4. \A i, j \in P: i # j => i < j \/ j < i
  OBVIOUS
<1> QED
  BY <1>2, <1>3, <1>4

\* Every rank up to the number of its elements is that of an element of a set of numbers.
LEMMA RankTaken ==
    ASSUME NEW n \in Nat, NEW P \in SUBSET (1 .. n), NEW k \in 1 .. Cardinality(P)
    PROVE  \E i \in P: Cardinality(P \cap 1 .. i) = k
<1> DEFINE Rank(i) == Cardinality(P \cap 1 .. i)
           rank == [i \in P |-> Rank(i)]
<1>1. IsFiniteSet(P) /\ Cardinality(P) \in Nat
  BY FinitePart
<1>2. \A i \in P: Rank(i) \in 1 .. Cardinality(P)
  BY Ranks
<1>3. \A i, j \in P: i # j => Rank(i) # Rank(j)
  BY Ranks
<1>4. SUFFICES ASSUME \A i \in P: Rank(i) # k PROVE FALSE
  OBVIOUS
<1> DEFINE others == (1 .. Cardinality(P)) \ {k}
<1>5. rank \in [P -> others]
  BY <1>2, <1>4
<1>6. IsFiniteSet(others) /\ Cardinality(others) < Cardinality(P)
  <2>1. IsFiniteSet(1 .. Cardinality(P)) /\ Cardinality(1 .. Cardinality(P)) = Cardinality(P)
    BY <1>1, FS_Interval
  <2>2. k \in 1 .. Cardinality(P)
    OBVIOUS
  <2> DEFINE ranks == 1 .. Cardinality(P)
  <2> HIDE DEF ranks
  <2>3. IsFiniteSet(ranks \ {k}) /\ Cardinality(ranks \ {k}) = Cardinality(ranks) - 1
    BY <2>1, <2>2, FS_RemoveElement DEF ranks
  <2> QED
    BY <1>1, <2>1, <2>3 DEF ranks
<1>7. PICK i \in P, j \in P: i # j /\ rank[i] = rank[j]
  <2> HIDE DEF rank, others
  <2> QED
    BY <1>1, <1>5, <1>6, FS_PigeonHole, Zenon
<1>8. Rank(i) = Rank(j)
  BY <1>7
<1> HIDE DEF Rank
<1> QED
  BY <1>3, <1>7, <1>8

\* A selection is a sequence of those elements of the sequence that are in the set.
LEMMA SelectedType ==
    ASSUME NEW T, NEW s \in Seq(T), NEW S
    PROVE  Selected(s, S) \in Seq(S \cap ToSet(s))
<1> DEFINE P == {i \in DOMAIN s: s[i] \in S}
           Nth(k) == CHOOSE i \in P: Cardinality(P \cap 1 .. i) = k
<1>1. Len(s) \in Nat /\ P \in SUBSET (1 .. Len(s))
  OBVIOUS
<1>2. Cardinality(P) \in Nat
  BY <1>1, FinitePart
<1>3. \A k \in 1 .. Cardinality(P): Nth(k) \in P
  <2> TAKE k \in 1 .. Cardinality(P)
  <2> HIDE DEF P
  <2>1. \E i \in P: Cardinality(P \cap 1 .. i) = k
    BY <1>1, RankTaken
  <2> QED
    BY <2>1
<1>4. \A i \in P: s[i] \in S \cap ToSet(s)
  BY DEF ToSet
<1>5. Selected(s, S) = [k \in 1 .. Cardinality(P) |-> s[Nth(k)]]
  BY DEF Selected
<1> HIDE DEF P, Nth
<1>6. [k \in 1 .. Cardinality(P) |-> s[Nth(k)]] \in [1 .. Cardinality(P) -> S \cap ToSet(s)]
  BY <1>3, <1>4
<1> QED
  BY <1>2, <1>5, <1>6, SeqDef

(***************************************************************************)
(* Types                                                                    *)
(***************************************************************************)
LEMMA WebFacts == web \in Webs => WebType(web)
BY WebAssumption

\* What can be read next in a search of the sitemaps has a type.
LEMMA EnqueuedType ==
    ASSUME NEW urls \in Seq(Urls)
    PROVE  Enqueued(urls) \in Seq(Frontier) /\ Rejections(urls) \subseteq Events
<1>1. ToSet(urls) \subseteq Urls
  BY DEF ToSet
<1>2. Enqueued(urls) \in Seq(Frontier \cap ToSet(urls))
  BY SelectedType DEF Enqueued
<1>3. Rejections(urls) \subseteq Events
  BY <1>1 DEF Rejections, Event, Events
<1> QED
  BY <1>2, <1>3, SeqMonotonic

LEMMA RoomType ==
    ASSUME NEW S, NEW locs \in Seq(S), inspected \in 0 .. MaxUrlEntries
    PROVE  /\ Room(locs) \in 0 .. Len(locs)
           /\ inspected + Room(locs) \in 0 .. MaxUrlEntries
BY SitemapAssumption DEF Room

LEMMA EntryEventsType ==
    ASSUME NEW locs \in Seq(Urls \cup {NoLoc}), NEW u \in Urls,
           inspected \in 0 .. MaxUrlEntries
    PROVE  EntryEvents(locs, u) \subseteq Events
<1>1. \A i \in Room(locs) + 1 .. Len(locs): UrlOr(locs[i], u) \in Urls
  BY RoomType DEF UrlOr
<1> QED
  BY <1>1 DEF EntryEvents, Event, Events

LEMMA ListedType ==
    ASSUME NEW locs \in Seq(Urls \cup {NoLoc}), inspected \in 0 .. MaxUrlEntries
    PROVE  DocumentsAmong(SubSeq(locs, 1, Room(locs))) \in Seq(Documents)
<1>1. SubSeq(locs, 1, Room(locs)) \in Seq(Urls \cup {NoLoc})
  BY RoomType
<1> DEFINE inspectedLocs == SubSeq(locs, 1, Room(locs))
<1> HIDE DEF inspectedLocs
<1>2. Selected(inspectedLocs, Documents) \in Seq(Documents \cap ToSet(inspectedLocs))
  BY <1>1, SelectedType DEF inspectedLocs
<1>3. Selected(inspectedLocs, Documents) \in Seq(Documents)
  BY <1>2, SeqMonotonic
<1> QED
  BY <1>3 DEF DocumentsAmong, inspectedLocs

LEMMA RequestTypes ==
    ASSUME SitemapTypeOK, NEW u \in Urls, RequestSitemap(u)
    PROVE  /\ fetched' \in 0 .. MaxSitemapFiles
           /\ seen' \subseteq Frontier
           /\ asked' \in [Urls -> Nat]
           /\ Tail(sitemaps) \in Seq(Frontier)
BY SitemapAssumption
   DEF SitemapTypeOK, RequestSitemap, AtSitemap, FileLimitReached, Remember

\* Every step of a search of the sitemaps keeps its types.
LEMMA SitemapStepTypes ==
    ASSUME web \in Webs, SitemapTypeOK, SitemapStep
    PROVE  SitemapTypeOK'
<1> USE DEF SitemapTypeOK
<1>1. CASE ReadRobots
  <2>1. web.robots[root] \in Seq(Urls)
    BY WebFacts DEF WebType
  <2>2. /\ Enqueued(web.robots[root]) \in Seq(Frontier)
        /\ Rejections(web.robots[root]) \subseteq Events
    BY <2>1, EnqueuedType
  <2> QED
    BY <1>1, <2>2 DEF ReadRobots
<1>2. CASE NextRoot
  BY <1>2, WebAssumption DEF NextRoot
<1>3. CASE SkipForLimit
  BY <1>3, SitemapAssumption DEF SkipForLimit, AtSitemap, LeaveOut, Event, Events
<1>4. CASE SkipSeen
  BY <1>4, SitemapAssumption DEF SkipSeen, AtSitemap, FileLimitReached
<1>5. CASE ReadIndex
  <2>1. PICK u \in DOMAIN web.indexes \ Unsendable:
           /\ RequestSitemap(u)
           /\ sitemaps' = Tail(sitemaps) \o Enqueued(web.indexes[u])
           /\ events' = events \cup Rejections(web.indexes[u])
           /\ UNCHANGED <<reading, root, inspected, listed>>
    BY <1>5 DEF ReadIndex
  <2>2. u \in Urls /\ web.indexes[u] \in Seq(Urls)
    BY WebFacts DEF WebType
  <2>3. Enqueued(web.indexes[u]) \in Seq(Frontier) /\ Rejections(web.indexes[u]) \subseteq Events
    BY <2>2, EnqueuedType
  <2>4. sitemaps' \in Seq(Frontier)
    BY <2>1, <2>2, <2>3, RequestTypes, ConcatProperties
  <2> QED
    BY <2>1, <2>2, <2>3, <2>4, RequestTypes
<1>6. CASE ReadUrlset
  <2>1. PICK u \in DOMAIN web.urlsets \ Unsendable:
           LET locs == web.urlsets[u]
               inspectedLocs == SubSeq(locs, 1, Room(locs))
           IN  /\ RequestSitemap(u)
               /\ inspected' = inspected + Room(locs)
               /\ listed' = listed \o DocumentsAmong(inspectedLocs)
               /\ events' = events \cup EntryEvents(locs, u)
               /\ sitemaps' = Tail(sitemaps)
               /\ UNCHANGED <<reading, root>>
    BY <1>6 DEF ReadUrlset
  <2>2. u \in Urls /\ web.urlsets[u] \in Seq(Urls \cup {NoLoc})
    BY WebFacts DEF WebType
  <2> DEFINE locs == web.urlsets[u]
  <2>3. /\ inspected + Room(locs) \in 0 .. MaxUrlEntries
        /\ EntryEvents(locs, u) \subseteq Events
        /\ DocumentsAmong(SubSeq(locs, 1, Room(locs))) \in Seq(Documents)
    BY <2>2, RoomType, EntryEventsType, ListedType
  <2>4. listed' \in Seq(Documents)
    BY <2>1, <2>3, ConcatProperties
  <2> QED
    BY <2>1, <2>2, <2>3, <2>4, RequestTypes
<1>7. CASE ReadOther
  <2>1. PICK u \in Urls:
           /\ RequestSitemap(u)
           /\ sitemaps' = Tail(sitemaps)
           /\ UNCHANGED <<reading, root, inspected, listed, events>>
    BY <1>7 DEF ReadOther
  <2> QED
    BY <2>1, RequestTypes
<1> QED
  BY <1>1, <1>2, <1>3, <1>4, <1>5, <1>6, <1>7 DEF SitemapStep

LEMMA SitemapBeginTypes ==
    ASSUME SitemapInit \/ BeginSitemaps
    PROVE  /\ SitemapInit => SitemapTypeOK
           /\ BeginSitemaps => SitemapTypeOK'
<1>1. 1 \in DOMAIN Roots
  BY WebAssumption
<1> USE DEF SitemapTypeOK
<1>2. ASSUME SitemapInit PROVE SitemapTypeOK
  BY <1>1, <1>2, SitemapAssumption DEF SitemapInit
<1>3. ASSUME BeginSitemaps PROVE SitemapTypeOK'
  BY <1>1, <1>3, SitemapAssumption DEF BeginSitemaps
<1> QED
  BY <1>2, <1>3

\* A search that fails leaves what it has in place, with one more request counted.
LEMMA SitemapFailsTypes ==
    ASSUME SitemapTypeOK, SitemapFails
    PROVE  SitemapTypeOK'
<1>1. CASE reading = "robots" /\ UNCHANGED sitemapVars
  BY <1>1 DEF SitemapTypeOK, sitemapVars
<1>2. CASE /\ \E u \in Urls: RequestSitemap(u)
           /\ UNCHANGED <<reading, root, sitemaps, inspected, listed, events>>
  BY <1>2, RequestTypes DEF SitemapTypeOK
<1> QED
  BY <1>1, <1>2 DEF SitemapFails

\* While links of a page are looked at, the limit of candidates is not reached.
LinksOpen == links # <<>> => ~LimitReached

LEMMA DepthFacts == Depths \subseteq Nat /\ 0 \in Depths
BY LinkExpansionAssumption DEF Depths

LEMMA AnchorsType ==
    ASSUME web \in Webs, NEW u \in Urls
    PROVE  Anchors(u) \in Seq(Urls)
BY WebFacts, EmptySeq DEF WebType, Anchors

LEMMA CanonicalType ==
    ASSUME NEW u \in Urls
    PROVE  CanonicalOrRaw(u) \in Urls
BY WebAssumption DEF CanonicalOrRaw

LEMMA TakePageTypes ==
    ASSUME ExpansionTypeOK, TakePage
    PROVE  /\ page' \in Pages
           /\ pages' \in Seq(Pages)
           /\ visited' \subseteq Urls
<1>1. Head(pages) \in Pages /\ Tail(pages) \in Seq(Pages)
  BY DEF ExpansionTypeOK, TakePage, AtPage
<1>2. page' \in Pages /\ page'.url \in Urls
  BY <1>1 DEF TakePage, Pages
<1> QED
  BY <1>1, <1>2, CanonicalType DEF ExpansionTypeOK, TakePage

\* Every step of an expansion keeps its types.
LEMMA ExpansionStepTypes ==
    ASSUME web \in Webs, ExpansionTypeOK, LinksOpen, ExpansionStep
    PROVE  ExpansionTypeOK' /\ LinksOpen'
<1>1. CASE PageArrives
  <2>1. page'.url \in Urls
    BY <1>1, TakePageTypes DEF PageArrives, Pages
  <2>2. links' \in Seq(Urls) /\ opened' \subseteq Urls
    BY <1>1, <2>1, AnchorsType DEF PageArrives, ExpansionTypeOK
  <2>3. LinksOpen'
    BY <1>1 DEF PageArrives, TakePage, AtPage, LinksOpen, LimitReached
  <2> QED
    BY <1>1, <2>2, <2>3, TakePageTypes DEF PageArrives, TakePage, ExpansionTypeOK
<1>2. CASE PageRefused
  <2>1. LinksOpen'
    BY <1>2 DEF PageRefused, TakePage, AtPage, LinksOpen, LimitReached
  <2> QED
    BY <1>2, <2>1, TakePageTypes DEF PageRefused, TakePage, ExpansionTypeOK
<1>3. CASE SkipLink
  <2>1. links' \in Seq(Urls)
    BY <1>3 DEF SkipLink, AtLink, ExpansionTypeOK
  <2> QED
    BY <1>3, <2>1 DEF SkipLink, AtLink, ExpansionTypeOK, LinksOpen, LimitReached
<1>4. CASE TakeLink
  <2> DEFINE u == Head(links)
             c == [url |-> u, page |-> page.url]
  <2>1. u \in Urls /\ Tail(links) \in Seq(Urls) /\ page.url \in Urls /\ page.depth \in Nat
    <3>1. links # <<>> /\ links \in Seq(Urls)
      BY <1>4 DEF TakeLink, AtLink, ExpansionTypeOK
    <3>2. page.url \in Urls /\ page.depth \in Nat
      BY DepthFacts DEF ExpansionTypeOK, Pages
    <3> QED
      BY <3>1, <3>2
  <2>2. /\ expanded' \in Seq([url: Urls, page: Urls])
        /\ Len(expanded) \in Nat /\ Len(expanded') = Len(expanded) + 1
    <3>1. c \in [url: Urls, page: Urls] /\ expanded \in Seq([url: Urls, page: Urls])
      BY <2>1 DEF ExpansionTypeOK
    <3>2. expanded' = Append(expanded, c)
      BY <1>4 DEF TakeLink
    <3> HIDE DEF c
    <3> QED
      BY <3>1, <3>2
  <2>3. Len(expanded') <= MaxCandidates
    BY <1>4, <2>2, LinkExpansionAssumption
       DEF TakeLink, AtLink, LinksOpen, LimitReached, ExpansionTypeOK
  <2>4. links' \in Seq(Urls) /\ LinksOpen'
    <3>1. CASE Len(expanded') >= MaxCandidates /\ links' = <<>>
      BY <3>1 DEF LinksOpen
    <3>2. CASE Len(expanded') < MaxCandidates /\ links' = Tail(links)
      BY <2>1, <2>2, <3>2, LinkExpansionAssumption DEF LinksOpen, LimitReached
    <3> QED
      BY <1>4, <3>1, <3>2 DEF TakeLink
  <2>5. pages' \in Seq(Pages)
    <3>1. Followed(u) => page.depth + 1 \in Depths
      BY <2>1, LinkExpansionAssumption DEF Followed, Depths
    <3>2. Followed(u) => [url |-> u, depth |-> page.depth + 1] \in Pages
      BY <2>1, <3>1 DEF Pages
    <3>3. pages \in Seq(Pages)
      BY DEF ExpansionTypeOK
    <3>4. \/ pages' = pages
          \/ Followed(u) /\ pages' = Append(pages, [url |-> u, depth |-> page.depth + 1])
      BY <1>4 DEF TakeLink
    <3> QED
      BY <3>2, <3>3, <3>4
  <2>6. known' \subseteq Urls
    BY <1>4, <2>1, CanonicalType DEF TakeLink, Know, ExpansionTypeOK
  <2> QED
    BY <1>4, <2>2, <2>3, <2>4, <2>5, <2>6 DEF TakeLink, ExpansionTypeOK
<1> QED
  BY <1>1, <1>2, <1>3, <1>4 DEF ExpansionStep

LEMMA ExpansionInitTypes == ExpansionInit => ExpansionTypeOK /\ LinksOpen
BY WebAssumption, LinkExpansionAssumption, DepthFacts
   DEF ExpansionInit, ExpansionTypeOK, LinksOpen, Queued, Pages

LEMMA ExpansionBeginTypes ==
    ASSUME ExpansionTypeOK, NEW urls \in Seq(Urls), BeginExpansion(urls)
    PROVE  ExpansionTypeOK' /\ LinksOpen'
<1>1. Landing(urls) \in Seq(Urls)
  <2>1. Landing(urls) \in Seq((Urls \ Pdfs) \cap ToSet(urls))
    BY SelectedType DEF Landing
  <2> QED
    BY <2>1, SeqMonotonic
<1>2. pages' \in Seq(Pages)
  <2>1. pages' = [i \in 1 .. Len(Landing(urls)) |-> Queued(Landing(urls)[i])]
    BY <1>1 DEF BeginExpansion
  <2>2. \A i \in 1 .. Len(Landing(urls)): Queued(Landing(urls)[i]) \in Pages
    BY <1>1, DepthFacts DEF Queued, Pages
  <2> QED
    BY <1>1, <2>1, <2>2, IsASeq
<1>3. \A u \in ToSet(urls): CanonicalOrRaw(u) \in Urls
  BY CanonicalType DEF ToSet
<1> QED
  BY <1>2, <1>3, LinkExpansionAssumption DEF BeginExpansion, ExpansionTypeOK, LinksOpen

(***************************************************************************)
(* The merge                                                                *)
(***************************************************************************)
Finds == [candidate: Candidates, variant: 1 .. Variants]

MergeTypeOK ==
    /\ DOMAIN table \subseteq Urls
    /\ \A u \in DOMAIN table: table[u] \in TableEntries
    /\ order \in Seq(Urls)
    /\ finds \in Seq(Finds)

\* Nothing was added whose URL canonicalize_url does not read.
FindsReadable == \A i \in DOMAIN finds: Cand(i).url \notin Odd

\* The sort key orders the candidates: what precedes something precedes all that
\* does not precede that.
LEMMA PrecedesOrder ==
    ASSUME NEW c \in Candidates, NEW d \in Candidates, NEW e \in Candidates
    PROVE  /\ ~Precedes(c, c)
           /\ Precedes(c, d) /\ Precedes(d, e) => Precedes(c, e)
           /\ Precedes(c, d) /\ ~Precedes(e, d) => Precedes(c, e)
<1> DEFINE S(x) == SourceRank[x.source]
           U(x) == UrlRank[x.url]
<1>1. /\ c.score \in Nat /\ d.score \in Nat /\ e.score \in Nat
      /\ S(c) \in Nat /\ S(d) \in Nat /\ S(e) \in Nat
      /\ U(c) \in Nat /\ U(d) \in Nat /\ U(e) \in Nat
  BY DiscoveryAssumption DEF Candidates
<1>2. \A x, y: Precedes(x, y) <=>
         \/ x.score > y.score
         \/ x.score = y.score /\ S(x) < S(y)
         \/ x.score = y.score /\ S(x) = S(y) /\ U(x) < U(y)
  BY DEF Precedes
<1> HIDE DEF S, U
<1> QED
  BY <1>1, <1>2

\* The finds, once c is added to them.
LEMMA FindsAfterMerge ==
    ASSUME MergeTypeOK, FindsReadable, NEW c \in Candidates, c.url \notin Odd,
           variant \in 1 .. Variants, Merge(c), NEW n, n = Len(finds) + 1
    PROVE  /\ finds' \in Seq(Finds)
           /\ n \in Nat /\ DOMAIN finds = 1 .. n - 1 /\ DOMAIN finds' = 1 .. n
           /\ \A i \in DOMAIN finds: Cand(i)' = Cand(i) /\ Key(i)' = Key(i)
           /\ Cand(n)' = c /\ Key(n)' = Canonical[c.url]
           /\ FindsReadable'
<1>1. Enriched(c) \in Finds /\ Enriched(c).candidate = c
  BY DEF Enriched, Finds
<1>2. finds' = Append(finds, Enriched(c)) /\ finds \in Seq(Finds)
  BY DEF Merge, MergeTypeOK
<1>3. /\ finds' \in Seq(Finds) /\ n \in Nat
      /\ DOMAIN finds = 1 .. n - 1 /\ DOMAIN finds' = 1 .. n
      /\ \A i \in DOMAIN finds: finds'[i] = finds[i]
      /\ finds'[n] = Enriched(c)
  BY <1>1, <1>2
<1>4. ASSUME NEW i \in DOMAIN finds PROVE Cand(i)' = Cand(i) /\ Key(i)' = Key(i)
  <2>1. finds'[i] = finds[i]
    BY <1>3
  <2> QED
    BY <2>1 DEF Cand, Key
<1>5. Cand(n)' = c
  BY <1>1, <1>3 DEF Cand
<1>6. Key(n)' = Canonical[c.url]
  BY <1>5 DEF Key
<1>7. ASSUME NEW i \in DOMAIN finds' PROVE Cand(i)'.url \notin Odd
  <2>1. CASE i = n
    BY <2>1, <1>5
  <2>2. CASE i \in DOMAIN finds
    BY <2>2, <1>4 DEF FindsReadable
  <2> QED
    BY <1>3, <2>1, <2>2
<1>8. FindsReadable'
  BY <1>7 DEF FindsReadable
<1> QED
  BY <1>3, <1>4, <1>5, <1>6, <1>8

LEMMA FindFacts ==
    ASSUME MergeTypeOK, FindsReadable
    PROVE  /\ \A i \in DOMAIN finds: Cand(i) \in Candidates /\ Key(i) \in Urls
           /\ \A u: FindsOf(u) \subseteq DOMAIN finds /\ FindsOf(u) \subseteq Nat
                   /\ IsFiniteSet(FindsOf(u))
<1>1. ASSUME NEW i \in DOMAIN finds PROVE Cand(i) \in Candidates
  <2>1. finds[i] \in Finds
    BY DEF MergeTypeOK
  <2> QED
    BY <2>1 DEF Finds, Cand
<1>2. \A i \in DOMAIN finds: Key(i) \in Urls
  BY <1>1, WebAssumption DEF Key, Candidates, FindsReadable
<1>3. ASSUME NEW u
      PROVE  /\ FindsOf(u) \subseteq DOMAIN finds /\ FindsOf(u) \subseteq Nat
             /\ IsFiniteSet(FindsOf(u))
  <2>1. Len(finds) \in Nat /\ FindsOf(u) \subseteq 1 .. Len(finds)
    BY DEF MergeTypeOK, FindsOf
  <2>2. IsFiniteSet(FindsOf(u))
    BY <2>1, FinitePart
  <2> QED
    BY <2>1, <2>2 DEF FindsOf
<1> QED
  BY <1>1, <1>2, <1>3

\* Another URL keeps its finds; that of c has one more.
LEMMA FindsOfAfterMerge ==
    ASSUME MergeTypeOK, FindsReadable, NEW c \in Candidates, c.url \notin Odd,
           variant \in 1 .. Variants, Merge(c), NEW n, n = Len(finds) + 1
    PROVE  /\ \A u: u # Canonical[c.url] => FindsOf(u)' = FindsOf(u)
           /\ FindsOf(Canonical[c.url])' = FindsOf(Canonical[c.url]) \cup {n}
           /\ n \notin FindsOf(Canonical[c.url])
           /\ \A u: \A i \in FindsOf(u): i \in DOMAIN finds /\ i < n
<1>1. /\ n \in Nat /\ DOMAIN finds = 1 .. n - 1 /\ DOMAIN finds' = 1 .. n
      /\ \A i \in DOMAIN finds: Key(i)' = Key(i)
      /\ Key(n)' = Canonical[c.url]
  BY FindsAfterMerge
<1>2. n \notin DOMAIN finds /\ DOMAIN finds' = DOMAIN finds \cup {n}
  BY <1>1
<1>3. ASSUME NEW u PROVE FindsOf(u)' = {i \in DOMAIN finds': Key(i)' = u}
  BY DEF FindsOf
<1>4. ASSUME NEW u, u # Canonical[c.url] PROVE FindsOf(u)' = FindsOf(u)
  BY <1>1, <1>2, <1>3, <1>4 DEF FindsOf
<1>5. /\ FindsOf(Canonical[c.url])' = FindsOf(Canonical[c.url]) \cup {n}
      /\ n \notin FindsOf(Canonical[c.url])
  BY <1>1, <1>2, <1>3 DEF FindsOf
<1>6. \A u: \A i \in FindsOf(u): i \in DOMAIN finds /\ i < n
  BY <1>1 DEF FindsOf
<1> QED
  BY <1>4, <1>5, <1>6

LEMMA BestOfNext ==
    ASSUME NEW u, NEW best, table'[u].best = best
    PROVE  BestOf(u)' <=>
               /\ table'[u].occurrences = FindsOf(u)'
               /\ table'[u].count = Cardinality(FindsOf(u)')
               /\ best \in FindsOf(u)'
               /\ \A i \in FindsOf(u)':
                     /\ ~Precedes(Cand(i)', Cand(best)')
                     /\ i < best => Precedes(Cand(best)', Cand(i)')
<1>1. Cand(table[u].best)' = Cand(best)'
  BY DEF Cand
<1> QED
  BY <1>1 DEF BestOf, Precedes

\* The entry of a URL other than that of c is as good as it was.
LEMMA BestUnchanged ==
    ASSUME MergeTypeOK, FindsReadable, NEW c \in Candidates, c.url \notin Odd,
           variant \in 1 .. Variants, Merge(c), NEW u, u # Canonical[c.url],
           table'[u] = table[u], BestOf(u)
    PROVE  BestOf(u)'
<1> DEFINE n == Len(finds) + 1
<1>1. FindsOf(u)' = FindsOf(u) /\ FindsOf(u) \subseteq DOMAIN finds
  BY FindsOfAfterMerge
<1>2. \A i \in FindsOf(u): Cand(i)' = Cand(i)
  BY <1>1, FindsAfterMerge
<1>3. BestOf(u) <=>
        /\ table[u].occurrences = FindsOf(u)
        /\ table[u].count = Cardinality(FindsOf(u))
        /\ table[u].best \in FindsOf(u)
        /\ \A i \in FindsOf(u):
              /\ ~Precedes(Cand(i), Cand(table[u].best))
              /\ i < table[u].best => Precedes(Cand(table[u].best), Cand(i))
  BY DEF BestOf
<1>4. BestOf(u)' <=>
        /\ table'[u].occurrences = FindsOf(u)'
        /\ table'[u].count = Cardinality(FindsOf(u)')
        /\ table'[u].best \in FindsOf(u)'
        /\ \A i \in FindsOf(u)':
              /\ ~Precedes(Cand(i)', Cand(table[u].best)')
              /\ i < table'[u].best => Precedes(Cand(table[u].best)', Cand(i)')
  BY DEF BestOf, Precedes
<1> QED
  BY <1>1, <1>2, <1>3, <1>4

\* The first find of a URL is its entry; every other one takes its place if it goes
\* before it.
LEMMA BestOfMerged ==
    ASSUME MergeTypeOK, FindsReadable, NEW c \in Candidates, c.url \notin Odd,
           variant \in 1 .. Variants, Merge(c), NEW key, key = Canonical[c.url],
           key \in DOMAIN table => BestOf(key),
           key \notin DOMAIN table => FindsOf(key) = {}
    PROVE  BestOf(key)' /\ table'[key] \in TableEntries /\ key \in DOMAIN table'
<1> SUFFICES ASSUME NEW n, n = Len(finds) + 1
             PROVE  BestOf(key)' /\ table'[key] \in TableEntries /\ key \in DOMAIN table'
  OBVIOUS
<1>1. /\ n \in Nat /\ \A i \in DOMAIN finds: Cand(i)' = Cand(i)
      /\ Cand(n)' = c
  BY FindsAfterMerge
<1>2. /\ FindsOf(key)' = FindsOf(key) \cup {n} /\ n \notin FindsOf(key)
      /\ \A i \in FindsOf(key): i \in DOMAIN finds /\ i < n
  BY FindsOfAfterMerge
<1>3. /\ FindsOf(key) \subseteq Nat /\ IsFiniteSet(FindsOf(key))
      /\ \A i \in FindsOf(key): Cand(i) \in Candidates
  BY <1>2, FindFacts
<1>4. Cardinality(FindsOf(key)') = Cardinality(FindsOf(key)) + 1
  BY <1>2, <1>3, FS_AddElement
<1>5. ~Precedes(c, c)
  BY PrecedesOrder
<1>6. CASE key \notin DOMAIN table
  <2>1. table'[key] = Alone(n) /\ key \in DOMAIN table'
    BY <1>6 DEF Merge
  <2>2. FindsOf(key)' = {n} /\ Cardinality(FindsOf(key)') = 1
    <3>1. FindsOf(key) = {} /\ Cardinality({}) = 0
      BY <1>6, FS_EmptySet
    <3> QED
      BY <1>2, <1>4, <3>1
  <2>3. table'[key] = [best |-> n, occurrences |-> {n}, count |-> 1]
    BY <2>1 DEF Alone
  <2>4. table'[key] \in TableEntries
    BY <1>1, <2>3 DEF TableEntries
  <2>5. BestOf(key)'
    <3>1. table'[key].best = n
      BY <2>3
    <3>2. BestOf(key)' <=>
               /\ table'[key].occurrences = FindsOf(key)'
               /\ table'[key].count = Cardinality(FindsOf(key)')
               /\ n \in FindsOf(key)'
               /\ \A i \in FindsOf(key)':
                     /\ ~Precedes(Cand(i)', Cand(n)')
                     /\ i < n => Precedes(Cand(n)', Cand(i)')
      BY <3>1, BestOfNext
    <3> QED
      BY <1>1, <1>5, <2>2, <2>3, <3>2
  <2> QED
    BY <2>1, <2>4, <2>5
<1>7. CASE key \in DOMAIN table
  <2>1. BestOf(key)
    BY <1>7
  <2> SUFFICES ASSUME NEW best, best = table[key].best
               PROVE  BestOf(key)' /\ table'[key] \in TableEntries /\ key \in DOMAIN table'
    OBVIOUS
  <2>2. /\ table[key].occurrences = FindsOf(key)
        /\ table[key].count = Cardinality(FindsOf(key))
        /\ best \in FindsOf(key)
        /\ \A i \in FindsOf(key):
              /\ ~Precedes(Cand(i), Cand(best))
              /\ i < best => Precedes(Cand(best), Cand(i))
    BY <2>1 DEF BestOf
  <2>3. table'[key] = Merged(table[key], c, n) /\ key \in DOMAIN table'
    BY <1>7 DEF Merge
  <2>4. table'[key] = [best |-> IF Precedes(c, Cand(best)) THEN n ELSE best,
                       occurrences |-> FindsOf(key)', count |-> Cardinality(FindsOf(key)')]
    BY <1>2, <1>4, <2>2, <2>3 DEF Merged, Preferred
  <2>5. table'[key] \in TableEntries
    <3>1. FindsOf(key)' \subseteq Nat /\ IsFiniteSet(FindsOf(key)')
      BY <1>1, <1>2, <1>3, FS_AddElement
    <3>2. Cardinality(FindsOf(key)') \in Nat
      BY <3>1, FS_CardinalityType
    <3> QED
      BY <1>1, <1>3, <2>2, <2>4, <3>1, <3>2 DEF TableEntries
  <2>6. \A i \in FindsOf(key)': i = n \/ (i \in FindsOf(key) /\ Cand(i)' = Cand(i))
    BY <1>1, <1>2
  <2>7. best \in Nat /\ best < n /\ Cand(best)\in Candidates
    BY <1>2, <1>3, <2>2
  <2> SUFFICES BestOf(key)'
    BY <2>3, <2>5
  <2>8. CASE Precedes(c, Cand(best))
    <3>1. table'[key].best = n
      BY <2>4, <2>8
    <3>2. ASSUME NEW i \in FindsOf(key)
          PROVE  ~Precedes(Cand(i), c) /\ Precedes(c, Cand(i))
      <4>1. Cand(i) \in Candidates /\ ~Precedes(Cand(i), Cand(best))
        BY <1>3, <2>2
      <4>2. Precedes(c, Cand(i))
        BY <2>7, <2>8, <4>1, PrecedesOrder
      <4> QED
        BY <1>5, <4>1, <4>2, PrecedesOrder
    <3>3. ASSUME NEW i \in FindsOf(key)'
          PROVE  ~Precedes(Cand(i)', c) /\ (i < n => Precedes(c, Cand(i)'))
      BY <1>1, <1>5, <2>6, <3>2
    <3>4. BestOf(key)' <=>
               /\ table'[key].occurrences = FindsOf(key)'
               /\ table'[key].count = Cardinality(FindsOf(key)')
               /\ n \in FindsOf(key)'
               /\ \A i \in FindsOf(key)':
                     /\ ~Precedes(Cand(i)', Cand(n)')
                     /\ i < n => Precedes(Cand(n)', Cand(i)')
      BY <3>1, BestOfNext
    <3> QED
      BY <1>1, <1>2, <2>4, <3>3, <3>4
  <2>9. CASE ~Precedes(c, Cand(best))
    <3>1. table'[key].best = best
      BY <2>4, <2>9
    <3>2. Cand(best)' = Cand(best)
      BY <1>1, <1>2, <2>2
    <3>3. ASSUME NEW i \in FindsOf(key)'
          PROVE  ~Precedes(Cand(i)', Cand(best)) /\ (i < best => Precedes(Cand(best), Cand(i)'))
      <4>1. CASE i = n
        BY <1>1, <2>7, <2>9, <4>1
      <4>2. CASE i \in FindsOf(key) /\ Cand(i)' = Cand(i)
        BY <2>2, <4>2
      <4> QED
        BY <2>6, <4>1, <4>2
    <3>4. BestOf(key)' <=>
               /\ table'[key].occurrences = FindsOf(key)'
               /\ table'[key].count = Cardinality(FindsOf(key)')
               /\ best \in FindsOf(key)'
               /\ \A i \in FindsOf(key)':
                     /\ ~Precedes(Cand(i)', Cand(best)')
                     /\ i < best => Precedes(Cand(best)', Cand(i)')
      BY <3>1, BestOfNext
    <3> QED
      BY <1>2, <2>2, <2>4, <3>2, <3>3, <3>4
  <2> QED
    BY <2>8, <2>9
<1> QED
  BY <1>6, <1>7

\* Adding a candidate keeps the merge what comparing all finds at once gives.
LEMMA MergeStep ==
    ASSUME MergeTypeOK, FindsReadable, MergeKeepsBest, NEW c \in Candidates, c.url \notin Odd,
           variant \in 1 .. Variants, Merge(c)
    PROVE  MergeTypeOK' /\ FindsReadable' /\ MergeKeepsBest'
<1> SUFFICES ASSUME NEW n, n = Len(finds) + 1, NEW key, key = Canonical[c.url]
             PROVE  MergeTypeOK' /\ FindsReadable' /\ MergeKeepsBest'
  OBVIOUS
<1>1. /\ n \in Nat /\ DOMAIN finds = 1 .. n - 1 /\ DOMAIN finds' = 1 .. n
      /\ \A i \in DOMAIN finds: Key(i)' = Key(i)
      /\ Key(n)' = key
      /\ finds' \in Seq(Finds) /\ FindsReadable'
  BY FindsAfterMerge
<1>2. /\ \A u: u # key => FindsOf(u)' = FindsOf(u)
      /\ FindsOf(key)' = FindsOf(key) \cup {n}
      /\ \A u: \A i \in FindsOf(u): i \in DOMAIN finds /\ i < n
  BY FindsOfAfterMerge
<1>3. key \in Urls
  BY WebAssumption DEF Candidates
<1>4. /\ DOMAIN table = {Key(i): i \in DOMAIN finds}
      /\ ToSet(order) = DOMAIN table
      /\ \A u \in DOMAIN table: BestOf(u)
  BY DEF MergeKeepsBest, NothingDropped
<1>5. \A u: FindsOf(u) # {} <=> u \in DOMAIN table
  BY <1>4 DEF FindsOf
<1>6. BestOf(key)' /\ table'[key] \in TableEntries /\ key \in DOMAIN table'
  BY <1>4, <1>5, BestOfMerged
<1>7. /\ DOMAIN table' = DOMAIN table \cup {key}
      /\ \A u \in DOMAIN table: u # key => table'[u] = table[u]
  BY DEF Merge
<1>8. \A u \in DOMAIN table': table'[u] \in TableEntries /\ BestOf(u)'
  <2> TAKE u \in DOMAIN table'
  <2>1. CASE u = key
    BY <1>6, <2>1
  <2>2. CASE u # key
    <3>1. u \in DOMAIN table /\ table'[u] = table[u] /\ BestOf(u)
      BY <1>4, <1>7, <2>2
    <3>2. BestOf(u)'
      BY <2>2, <3>1, BestUnchanged
    <3>3. table[u] \in TableEntries
      BY <3>1 DEF MergeTypeOK
    <3> QED
      BY <3>1, <3>2, <3>3
  <2> QED
    BY <2>1, <2>2
<1>9. DOMAIN table' = {Key(i): i \in DOMAIN finds}'
  BY <1>1, <1>4, <1>7
<1>10. order \in Seq(Urls)
  BY DEF MergeTypeOK
<1>11. CASE key \in DOMAIN table
  <2>1. order' = order
    BY <1>11 DEF Merge
  <2>2. ToSet(order)' = DOMAIN table'
    BY <1>4, <1>7, <1>11, <2>1
  <2>3. InOrderOfArrival'
    <3> SUFFICES ASSUME NEW l \in DOMAIN order, NEW m \in DOMAIN order, l < m
                 PROVE  \E i \in FindsOf(order[l])': \A k \in FindsOf(order[m])': i < k
      BY <2>1 DEF InOrderOfArrival
    <3>1. PICK i \in FindsOf(order[l]): \A k \in FindsOf(order[m]): i < k
      BY DEF MergeKeepsBest, InOrderOfArrival
    <3> QED
      BY <1>2, <2>1, <3>1
  <2> QED
    BY <1>1, <1>7, <1>8, <1>9, <1>10, <1>3, <2>1, <2>2, <2>3
       DEF MergeTypeOK, MergeKeepsBest, NothingDropped
<1>12. CASE key \notin DOMAIN table
  <2>1. order' = Append(order, key)
    BY <1>12 DEF Merge
  <2> SUFFICES ASSUME NEW last, last = Len(order) + 1
               PROVE  MergeTypeOK' /\ FindsReadable' /\ MergeKeepsBest'
    OBVIOUS
  <2>2. /\ order' \in Seq(Urls) /\ last \in Nat
        /\ DOMAIN order = 1 .. last - 1 /\ DOMAIN order' = 1 .. last
        /\ \A m \in DOMAIN order: order'[m] = order[m]
        /\ order'[last] = key
    BY <1>3, <1>10, <2>1
  <2>3. DOMAIN order' = DOMAIN order \cup {last}
    BY <2>2
  <2>4. ToSet(order)' = DOMAIN table'
    <3>1. ToSet(order) = {order[m]: m \in DOMAIN order}
      BY DEF ToSet
    <3>2. ToSet(order)' = {order'[m]: m \in DOMAIN order'}
      BY DEF ToSet
    <3>3. ToSet(order)' = ToSet(order) \cup {key}
      BY <2>2, <2>3, <3>1, <3>2
    <3> QED
      BY <1>4, <1>7, <3>3
  <2>5. InOrderOfArrival'
    <3> SUFFICES ASSUME NEW l \in DOMAIN order', NEW m \in DOMAIN order', l < m
                 PROVE  \E i \in FindsOf(order[l])': \A k \in FindsOf(order[m])': i < k
      BY DEF InOrderOfArrival
    <3>1. l \in DOMAIN order /\ order'[l] = order[l] /\ order[l] # key
      <4>1. l \in DOMAIN order
        BY <2>2
      <4>2. order[l] \in DOMAIN table
        BY <1>4, <4>1 DEF ToSet
      <4> QED
        BY <1>12, <2>2, <4>1, <4>2
    <3>2. FindsOf(order[l])' = FindsOf(order[l])
      BY <1>2, <3>1
    <3>3. CASE m = last
      <4>1. FindsOf(order[m])' = {n}
        BY <1>2, <1>5, <1>12, <2>2, <3>3
      <4>2. PICK i \in FindsOf(order[l]): TRUE
        BY <1>4, <1>5, <3>1 DEF ToSet
      <4> QED
        BY <1>2, <3>2, <4>1, <4>2
    <3>4. CASE m \in DOMAIN order
      <4>1. order'[m] = order[m] /\ order[m] # key
        BY <1>4, <1>12, <2>2, <3>4 DEF ToSet
      <4>2. FindsOf(order[m])' = FindsOf(order[m])
        BY <1>2, <4>1
      <4>3. \E i \in FindsOf(order[l]): \A k \in FindsOf(order[m]): i < k
        BY <3>1, <3>4 DEF MergeKeepsBest, InOrderOfArrival
      <4> QED
        BY <3>2, <4>2, <4>3
    <3> QED
      BY <2>3, <3>3, <3>4
  <2> QED
    BY <1>1, <1>3, <1>7, <1>8, <1>9, <2>2, <2>4, <2>5
       DEF MergeTypeOK, MergeKeepsBest, NothingDropped
<1> QED
  BY <1>11, <1>12

(***************************************************************************)
(* The specification                                                        *)
(***************************************************************************)
\* The step at hand is that of the source at hand.
StepAtHand ==
    /\ pc = "sitemap" => ~Expanding /\ SourceName = SitemapSource
    /\ pc = "expand" => Expanding

IInv == TypeOK /\ LinksOpen /\ StepAtHand /\ FindsReadable /\ MergeKeepsBest

LEMMA MergeTypes == TypeOK => MergeTypeOK
BY DEF TypeOK, MergeTypeOK, Finds

LEMMA SourceNameType ==
    ASSUME TypeOK
    PROVE  /\ SourceName \in SourceNames
           /\ ~Expanding => SourceName \in ToSet(Sources) /\ source + 1 \in 1 .. Len(Sources) + 1
<1>1. Sources \in Seq(SourceNames) /\ Len(Sources) \in Nat
  BY DiscoveryAssumption
<1>2. CASE Expanding
  BY <1>2 DEF SourceName, SourceNames
<1>3. CASE ~Expanding
  <2>1. source \in 1 .. Len(Sources)
    BY <1>1, <1>3 DEF TypeOK, Expanding
  <2> QED
    BY <1>1, <1>3, <2>1 DEF SourceName, ToSet
<1> QED
  BY <1>2, <1>3

\* The URLs of the merged candidates, which the expansion begins with.
LEMMA ValuesType ==
    ASSUME MergeTypeOK, FindsReadable, MergeKeepsBest
    PROVE  Values \in Seq(Urls)
<1>1. order \in Seq(Urls) /\ Len(order) \in Nat
  BY DEF MergeTypeOK
<1>2. Values = [i \in 1 .. Len(order) |-> Cand(table[order[i]].best).url]
  BY <1>1 DEF Values
<1>3. ASSUME NEW i \in 1 .. Len(order) PROVE Cand(table[order[i]].best).url \in Urls
  <2>1. order[i] \in DOMAIN table
    <3>1. order[i] \in ToSet(order)
      BY <1>1 DEF ToSet
    <3> QED
      BY <3>1 DEF MergeKeepsBest, NothingDropped
  <2>2. table[order[i]].best \in DOMAIN finds
    BY <2>1 DEF MergeKeepsBest, BestOf, FindsOf
  <2> QED
    BY <2>2, FindFacts DEF Candidates
<1> QED
  BY <1>1, <1>2, <1>3, IsASeq

LEMMA MergeUnchanged ==
    ASSUME FindsReadable, MergeKeepsBest, UNCHANGED mergeVars
    PROVE  FindsReadable' /\ MergeKeepsBest'
<1>1. finds' = finds /\ table' = table /\ order' = order
  BY DEF mergeVars
<1>2. FindsReadable'
  BY <1>1 DEF FindsReadable, Cand
<1>3. ASSUME NEW u PROVE FindsOf(u)' = FindsOf(u)
  BY <1>1 DEF FindsOf, Key, Cand
<1>4. ASSUME NEW u \in DOMAIN table PROVE BestOf(u)'
  <2>1. BestOf(u)
    BY DEF MergeKeepsBest
  <2> QED
    BY <1>1, <1>3, <2>1 DEF BestOf, Precedes, Cand
<1>5. NothingDropped'
  BY <1>1 DEF MergeKeepsBest, NothingDropped, Key, Cand, ToSet
<1>6. InOrderOfArrival'
  BY <1>1 DEF MergeKeepsBest, InOrderOfArrival, FindsOf, Key, Cand
<1> QED
  BY <1>1, <1>2, <1>4, <1>5, <1>6 DEF MergeKeepsBest

LEMMA FoundTypes ==
    ASSUME IInv, NEW s \in {"completed", "failed"}, NEW candidates \in Seq(Candidates),
           Found(candidates, s), web' = web,
           SitemapTypeOK', ExpansionTypeOK', LinksOpen'
    PROVE  IInv'
<1>1. TypeOK'
  BY DEF IInv, TypeOK, Found, mergeVars
<1>2. StepAtHand'
  BY DEF Found, StepAtHand
<1>3. FindsReadable' /\ MergeKeepsBest'
  BY MergeUnchanged DEF IInv, Found
<1> QED
  BY <1>1, <1>2, <1>3 DEF IInv

LEMMA CandidatesTyped ==
    ASSUME TypeOK
    PROVE  /\ SitemapSource \in SourceNames =>
                [i \in DOMAIN listed |-> SitemapCandidate(listed[i])] \in Seq(Candidates)
           /\ [i \in DOMAIN expanded |-> LinkCandidate(expanded[i].url)] \in Seq(Candidates)
<1>1. listed \in Seq(Documents) /\ expanded \in Seq([url: Urls, page: Urls])
  BY DEF TypeOK, SitemapTypeOK, ExpansionTypeOK
<1>2. ASSUME SitemapSource \in SourceNames, NEW i \in 1 .. Len(listed)
      PROVE  SitemapCandidate(listed[i]) \in Candidates
  BY <1>1, <1>2, SitemapAssumption, DiscoveryAssumption DEF SitemapCandidate, Candidates
<1>3. ASSUME NEW i \in 1 .. Len(expanded)
      PROVE  LinkCandidate(expanded[i].url) \in Candidates
  <2>1. expanded[i].url \in Urls
    <3>1. expanded[i] \in [url: Urls, page: Urls]
      BY <1>1, ElementOfSeq
    <3> QED
      BY <3>1
  <2>2. ExpansionSource \in SourceNames
    BY DEF SourceNames
  <2>3. (IF IsPdf(expanded[i].url) THEN PdfLinkScore ELSE LinkScore) \in Nat
    BY DiscoveryAssumption
  <2> QED
    BY <2>1, <2>2, <2>3 DEF LinkCandidate, Candidates
<1>4. SitemapSource \in SourceNames =>
         [i \in 1 .. Len(listed) |-> SitemapCandidate(listed[i])] \in Seq(Candidates)
  BY <1>1, <1>2, IsASeq
<1>5. [i \in 1 .. Len(expanded) |-> LinkCandidate(expanded[i].url)] \in Seq(Candidates)
  BY <1>1, <1>3, IsASeq
<1>6. DOMAIN listed = 1 .. Len(listed) /\ DOMAIN expanded = 1 .. Len(expanded)
  BY <1>1
<1> QED
  BY <1>4, <1>5, <1>6, Zenon

\* The inductive invariant holds of the first state: nothing is queued, found or merged.
THEOREM InitIInv == Init => IInv
<1> SUFFICES ASSUME Init PROVE IInv
  OBVIOUS
<1>1. SitemapTypeOK /\ ExpansionTypeOK /\ LinksOpen
  BY SitemapBeginTypes, ExpansionInitTypes DEF Init
<1>2. 1 \in 1 .. Variants /\ 1 \in 1 .. Len(Sources) + 1
  BY DiscoveryAssumption
<1>3. TypeOK
  BY <1>1, <1>2 DEF Init, TypeOK
<1>4. StepAtHand
  BY DEF Init, StepAtHand
<1>5. finds = <<>> /\ DOMAIN table = {} /\ order = <<>> /\ DOMAIN finds = {}
  BY DEF Init
<1>6. FindsReadable /\ MergeKeepsBest
  BY <1>5 DEF FindsReadable, MergeKeepsBest, NothingDropped, InOrderOfArrival, ToSet
<1> QED
  BY <1>1, <1>3, <1>4, <1>6 DEF IInv

LEMMA StepKeeps ==
    ASSUME IInv, Discover
    PROVE  IInv'
<1>0. /\ TypeOK /\ LinksOpen /\ StepAtHand /\ FindsReadable /\ MergeKeepsBest
      /\ SitemapTypeOK /\ ExpansionTypeOK /\ web \in Webs
  BY DEF IInv, TypeOK
<1>1. ASSUME UNCHANGED sitemapVars PROVE SitemapTypeOK'
  BY <1>0, <1>1 DEF sitemapVars, SitemapTypeOK
<1>2. ASSUME UNCHANGED expansionVars PROVE ExpansionTypeOK' /\ LinksOpen'
  BY <1>0, <1>2 DEF expansionVars, ExpansionTypeOK, LinksOpen, LimitReached
<1>3. ASSUME UNCHANGED <<web, sitemapVars, expansionVars>>, NEW s \in {"completed", "failed"},
             NEW candidates \in Seq(Candidates), Found(candidates, s)
      PROVE  IInv'
  BY <1>1, <1>2, <1>3, FoundTypes
<1>4. <<>> \in Seq(Candidates)
  OBVIOUS
<1>5. CASE SearchSource
  <2>1. SourceName \in ToSet(Sources) \ {SitemapSource}
    BY <1>0, <1>5, SourceNameType DEF SearchSource
  <2>2. Answers[SourceName] \ {Malformed} \subseteq Seq(Candidates)
    BY <2>1, DiscoveryAssumption
  <2> QED
    BY <1>3, <1>5, <2>2 DEF SearchSource
<1>6. CASE SourceFails
  BY <1>3, <1>4, <1>6 DEF SourceFails, Failed
<1>7. CASE StartSitemaps
  <2>1. SitemapTypeOK'
    BY <1>7, SitemapBeginTypes DEF StartSitemaps
  <2>2. TypeOK'
    BY <1>0, <1>2, <1>7, <2>1 DEF StartSitemaps, TypeOK, stepVars, mergeVars
  <2>3. StepAtHand'
    BY <1>7 DEF StartSitemaps, StepAtHand, stepVars, Expanding, SourceName
  <2>4. UNCHANGED mergeVars /\ UNCHANGED expansionVars
    BY <1>7 DEF StartSitemaps
  <2> QED
    BY <1>0, <1>2, <2>2, <2>3, <2>4, MergeUnchanged DEF IInv
<1>8. CASE SearchSitemaps
  <2>1. SitemapTypeOK'
    BY <1>0, <1>8, SitemapStepTypes DEF SearchSitemaps
  <2>2. TypeOK'
    BY <1>0, <1>2, <1>8, <2>1 DEF SearchSitemaps, TypeOK, stepVars, mergeVars
  <2>3. StepAtHand'
    BY <1>0, <1>8 DEF SearchSitemaps, StepAtHand, stepVars, Expanding, SourceName
  <2>4. UNCHANGED mergeVars /\ UNCHANGED expansionVars
    BY <1>8 DEF SearchSitemaps
  <2> QED
    BY <1>0, <1>2, <2>2, <2>3, <2>4, MergeUnchanged DEF IInv
<1>9. CASE SitemapsEnd
  <2>1. SitemapSource \in SourceNames
    BY <1>0, <1>9, SourceNameType DEF SitemapsEnd, StepAtHand
  <2>2. [i \in DOMAIN listed |-> SitemapCandidate(listed[i])] \in Seq(Candidates)
    BY <1>0, <2>1, CandidatesTyped
  <2> QED
    BY <1>3, <1>9, <2>2 DEF SitemapsEnd
<1>10. CASE SitemapsFail
  BY <1>0, <1>2, <1>4, <1>10, SitemapFailsTypes, FoundTypes DEF SitemapsFail, Failed
<1>11. ASSUME UNCHANGED <<web, sitemapVars, expansionVars>>, Raise PROVE IInv'
  <2>1. TypeOK'
    BY <1>0, <1>1, <1>2, <1>11 DEF Raise, TypeOK, stepVars, mergeVars
  <2> QED
    BY <1>0, <1>2, <1>11, <2>1, MergeUnchanged DEF IInv, Raise, StepAtHand
<1>12. CASE SitemapsRaise
  BY <1>11, <1>12 DEF SitemapsRaise, SitemapRaises
<1>12a. CASE SourceRaises
  BY <1>11, <1>12a DEF SourceRaises
<1>13. CASE StartExpansion
  <2>1. ExpansionTypeOK' /\ LinksOpen'
    BY <1>0, <1>13, MergeTypes, ValuesType, ExpansionBeginTypes DEF StartExpansion
  <2>2. TypeOK'
    BY <1>0, <1>1, <1>13, <2>1 DEF StartExpansion, TypeOK, stepVars, mergeVars
  <2>3. StepAtHand'
    BY <1>13 DEF StartExpansion, StepAtHand, stepVars, Expanding
  <2>4. UNCHANGED mergeVars
    BY <1>13 DEF StartExpansion
  <2> QED
    BY <1>0, <2>1, <2>2, <2>3, <2>4, MergeUnchanged DEF IInv
<1>14. CASE ExpandLinks
  <2>1. ExpansionTypeOK' /\ LinksOpen'
    BY <1>0, <1>14, ExpansionStepTypes DEF ExpandLinks
  <2>2. TypeOK'
    BY <1>0, <1>1, <1>14, <2>1 DEF ExpandLinks, TypeOK, stepVars, mergeVars
  <2>3. StepAtHand'
    BY <1>0, <1>14 DEF ExpandLinks, StepAtHand, stepVars, Expanding
  <2>4. UNCHANGED mergeVars
    BY <1>14 DEF ExpandLinks
  <2> QED
    BY <1>0, <2>1, <2>2, <2>3, <2>4, MergeUnchanged DEF IInv
<1>15. CASE ExpansionEnds
  <2>1. [i \in DOMAIN expanded |-> LinkCandidate(expanded[i].url)] \in Seq(Candidates)
    BY <1>0, CandidatesTyped
  <2> QED
    BY <1>3, <1>15, <2>1 DEF ExpansionEnds
<1>16. CASE ExpansionFails
  BY <1>3, <1>4, <1>16 DEF ExpansionFails, Failed, PageFails
<1>17. CASE ExpansionError
  BY <1>11, <1>17 DEF ExpansionError, ExpansionRaises
<1>18. CASE AddCandidate
  <2> SUFFICES ASSUME NEW c, c = Head(todo) PROVE IInv'
    OBVIOUS
  <2>1. c \in Candidates /\ Tail(todo) \in Seq(Candidates)
    BY <1>0, <1>18 DEF AddCandidate, TypeOK
  <2>2. MergeTypeOK' /\ FindsReadable' /\ MergeKeepsBest'
    BY <1>0, <1>18, <2>1, MergeTypes, MergeStep DEF AddCandidate, TypeOK
  <2>3. TypeOK'
    BY <1>0, <1>1, <1>2, <1>18, <2>1, <2>2 DEF AddCandidate, TypeOK, MergeTypeOK, Finds
  <2>4. StepAtHand'
    BY <1>18 DEF AddCandidate, StepAtHand
  <2> QED
    BY <1>2, <1>18, <2>2, <2>3, <2>4 DEF IInv, AddCandidate
<1>19. CASE AddRaises
  BY <1>11, <1>19 DEF AddRaises
<1>20. CASE Yield
  <2>1. /\ variant' \in 1 .. Variants
        /\ source' \in 1 .. Len(Sources) + 1
        /\ pc' \in {"search", "done"}
    BY <1>0, <1>20, SourceNameType, DiscoveryAssumption DEF Yield, TypeOK
  <2>2. steps' \in Seq([variant: 1 .. Variants, source: SourceNames,
                        status: {"completed", "failed"}, finds: Nat])
    <3>1. Len(finds) \in Nat
      BY <1>0 DEF TypeOK
    <3> QED
      BY <1>0, <1>20, <3>1, SourceNameType DEF Yield, TypeOK
  <2>3. TypeOK'
    BY <1>0, <1>1, <1>2, <1>20, <2>1, <2>2 DEF Yield, TypeOK, mergeVars
  <2>4. StepAtHand'
    BY <2>1 DEF StepAtHand
  <2>5. UNCHANGED mergeVars /\ UNCHANGED expansionVars
    BY <1>20 DEF Yield
  <2> QED
    BY <1>0, <1>2, <2>3, <2>4, <2>5, MergeUnchanged DEF IInv
<1> QED
  BY <1>5, <1>6, <1>7, <1>8, <1>9, <1>10, <1>12, <1>12a, <1>13, <1>14, <1>15, <1>16,
     <1>17, <1>18, <1>19, <1>20
  DEF Discover

\* Every step of a discovery, of whichever traversal, keeps the inductive invariant.
THEOREM NextIInv == IInv /\ [Next]_vars => IInv'
<1>1. ASSUME IInv, UNCHANGED vars PROVE IInv'
  <2>1. SitemapTypeOK' /\ ExpansionTypeOK' /\ LinksOpen'
    BY <1>1 DEF IInv, TypeOK, vars, sitemapVars, expansionVars, SitemapTypeOK, ExpansionTypeOK,
                LinksOpen, LimitReached
  <2>2. TypeOK' /\ StepAtHand'
    BY <1>1, <2>1 DEF IInv, TypeOK, vars, stepVars, mergeVars, StepAtHand, Expanding, SourceName
  <2> QED
    BY <1>1, <2>1, <2>2, MergeUnchanged DEF IInv, vars
<1> QED
  BY <1>1, StepKeeps DEF Next, Finished

\* Types, links, the step at hand and the merge stay as the inductive invariant says.
THEOREM SpecIInv == Spec => []IInv
BY InitIInv, NextIInv, PTL DEF Spec

\* Discovery keeps its types: the queues of its traversals hold what was allowed into
\* them, their counters stay within their limits.
THEOREM TypesHold == Spec => []TypeOK
BY SpecIInv, PTL DEF IInv

\* Whatever the sources, the sitemaps and the links of pages lead to and in whatever
\* order, the merged candidates are what comparing all finds at once gives.
THEOREM MergeIsBest == Spec => []MergeKeepsBest
BY SpecIInv, PTL DEF IInv

(***************************************************************************)
(* Where URLs come from                                                     *)
(***************************************************************************)
FindUrls == {Cand(i).url: i \in DOMAIN finds}
ReachedPages == [url: WebUrls \cup FindUrls, depth: Depths]

\* What is queued was read somewhere on the web; only pages may be finds instead.
FromWeb ==
    /\ sitemaps \in Seq(WebUrls)
    /\ links \in Seq(WebUrls)
    /\ pages \in Seq(ReachedPages)

LEMMA WebUrlsCover ==
    ASSUME web \in Webs
    PROVE  /\ \A i \in DOMAIN Roots: ToSet(web.robots[i]) \subseteq WebUrls
           /\ \A u \in DOMAIN web.pages: ToSet(web.pages[u]) \subseteq WebUrls
           /\ \A u \in DOMAIN web.indexes: ToSet(web.indexes[u]) \subseteq WebUrls
           /\ \A u \in DOMAIN web.urlsets: ToSet(web.urlsets[u]) \subseteq WebUrls
BY DEF WebUrls

LEMMA OwnSeq ==
    ASSUME NEW S, NEW s \in Seq(S), NEW T, ToSet(s) \subseteq T
    PROVE  s \in Seq(T)
<1>1. \A i \in 1 .. Len(s): s[i] \in T
  BY DEF ToSet
<1>2. Len(s) \in Nat /\ s = [i \in 1 .. Len(s) |-> s[i]]
  OBVIOUS
<1> QED
  BY <1>1, <1>2, IsASeq

LEMMA EnqueuedFromWeb ==
    ASSUME NEW urls \in Seq(Urls), ToSet(urls) \subseteq WebUrls
    PROVE  Enqueued(urls) \in Seq(WebUrls)
<1>1. Enqueued(urls) \in Seq(Frontier \cap ToSet(urls))
  BY SelectedType DEF Enqueued
<1> QED
  BY <1>1, SeqMonotonic

LEMMA SitemapFromWeb ==
    ASSUME web \in Webs, SitemapTypeOK, sitemaps \in Seq(WebUrls), SitemapStep
    PROVE  sitemaps' \in Seq(WebUrls)
<1>1. WebType(web)
  BY WebFacts
<1>2. ASSUME sitemaps # <<>> PROVE Tail(sitemaps) \in Seq(WebUrls)
  BY <1>2
<1>3. CASE ReadRobots
  <2>1. root \in DOMAIN Roots /\ web.robots[root] \in Seq(Urls)
    BY <1>1 DEF SitemapTypeOK, WebType
  <2> QED
    BY <1>3, <2>1, WebUrlsCover, EnqueuedFromWeb DEF ReadRobots
<1>4. CASE NextRoot
  BY <1>4 DEF NextRoot
<1>5. CASE SkipForLimit \/ SkipSeen \/ ReadUrlset \/ ReadOther
  BY <1>2, <1>5 DEF SkipForLimit, SkipSeen, ReadUrlset, ReadOther, LeaveOut, RequestSitemap,
                    AtSitemap
<1>6. CASE ReadIndex
  <2>1. PICK u \in DOMAIN web.indexes:
           sitemaps # <<>> /\ sitemaps' = Tail(sitemaps) \o Enqueued(web.indexes[u])
    BY <1>6 DEF ReadIndex, RequestSitemap, AtSitemap
  <2>2. web.indexes[u] \in Seq(Urls) /\ ToSet(web.indexes[u]) \subseteq WebUrls
    BY <1>1, WebUrlsCover DEF WebType
  <2> QED
    BY <1>2, <2>1, <2>2, EnqueuedFromWeb, ConcatProperties
<1> QED
  BY <1>3, <1>4, <1>5, <1>6 DEF SitemapStep

LEMMA AnchorsFromWeb ==
    ASSUME web \in Webs, NEW u \in Urls
    PROVE  Anchors(u) \in Seq(WebUrls)
<1>1. CASE u \in DOMAIN web.pages
  <2>1. web.pages[u] \in Seq(Urls)
    BY <1>1, WebFacts DEF WebType
  <2> QED
    BY <1>1, <2>1, WebUrlsCover, OwnSeq DEF Anchors
<1>2. CASE u \notin DOMAIN web.pages
  BY <1>2, EmptySeq DEF Anchors
<1> QED
  BY <1>1, <1>2

LEMMA ExpansionFromWeb ==
    ASSUME web \in Webs, ExpansionTypeOK, links \in Seq(WebUrls), pages \in Seq(ReachedPages),
           ExpansionStep
    PROVE  links' \in Seq(WebUrls) /\ pages' \in Seq(ReachedPages)
<1>1. ASSUME TakePage PROVE page'.url \in Urls /\ pages' \in Seq(ReachedPages)
  <2>1. page' \in Pages
    BY <1>1, TakePageTypes
  <2> QED
    BY <1>1, <2>1 DEF TakePage, AtPage, Pages
<1>2. CASE PageArrives
  BY <1>1, <1>2, AnchorsFromWeb DEF PageArrives
<1>3. CASE PageRefused
  BY <1>1, <1>3 DEF PageRefused
<1>4. CASE SkipLink
  BY <1>4 DEF SkipLink, AtLink
<1>5. CASE TakeLink
  <2>1. links # <<>>
    BY <1>5 DEF TakeLink, AtLink
  <2>2. Tail(links) \in Seq(WebUrls) /\ Head(links) \in WebUrls
    BY <2>1
  <2>3. page.depth \in Nat
    BY DepthFacts DEF ExpansionTypeOK, Pages
  <2>4. Followed(Head(links)) =>
           [url |-> Head(links), depth |-> page.depth + 1] \in ReachedPages
    BY <2>2, <2>3, LinkExpansionAssumption DEF Followed, Depths, ReachedPages
  <2>5. links' = <<>> \/ links' = Tail(links)
    BY <1>5 DEF TakeLink
  <2>6. \/ pages' = pages
        \/ /\ Followed(Head(links))
           /\ pages' = Append(pages, [url |-> Head(links), depth |-> page.depth + 1])
    BY <1>5 DEF TakeLink
  <2>7. links' \in Seq(WebUrls)
    BY <2>2, <2>5, EmptySeq
  <2>8. pages' \in Seq(ReachedPages)
    <3>1. CASE pages' = pages
      BY <3>1
    <3>2. CASE ~ pages' = pages
      BY <2>4, <2>6, <3>2, AppendProperties
    <3> QED
      BY <3>1, <3>2
  <2> QED
    BY <2>7, <2>8
<1> QED
  BY <1>2, <1>3, <1>4, <1>5 DEF ExpansionStep

\* What the expansion begins with was found.
LEMMA BeginFromWeb ==
    ASSUME TypeOK, FindsReadable, MergeKeepsBest, BeginExpansion(Values)
    PROVE  links' \in Seq(WebUrls) /\ pages' \in Seq(ReachedPages)
<1>1. order \in Seq(Urls) /\ Len(order) \in Nat
  BY DEF TypeOK
<1>2. Values = [i \in 1 .. Len(order) |-> Cand(table[order[i]].best).url]
  BY <1>1 DEF Values
<1>3. ASSUME NEW i \in 1 .. Len(order) PROVE Cand(table[order[i]].best).url \in FindUrls
  <2>1. order[i] \in DOMAIN table
    <3>1. order[i] \in ToSet(order)
      BY <1>1 DEF ToSet
    <3> QED
      BY <3>1 DEF MergeKeepsBest, NothingDropped
  <2>2. table[order[i]].best \in DOMAIN finds
    BY <2>1 DEF MergeKeepsBest, BestOf, FindsOf
  <2> QED
    BY <2>2 DEF FindUrls
<1>4. Values \in Seq(FindUrls)
  BY <1>1, <1>2, <1>3, IsASeq
<1>f. FindUrls \subseteq Urls
  <2>1. \A i \in DOMAIN finds: Cand(i) \in Candidates
    BY MergeTypes, FindFacts
  <2> QED
    BY <2>1 DEF Candidates, FindUrls
<1>5. Landing(Values) \in Seq(FindUrls)
  <2>1. Landing(Values) \in Seq((Urls \ Pdfs) \cap ToSet(Values))
    <3>1. Values \in Seq(Urls)
      BY <1>4, <1>f, SeqMonotonic
    <3> QED
      BY <3>1, SelectedType DEF Landing
  <2>2. ToSet(Values) \subseteq FindUrls
    BY <1>4 DEF ToSet
  <2> QED
    BY <2>1, <2>2, SeqMonotonic
<1>6. pages' \in Seq(ReachedPages)
  <2>1. pages' = [i \in 1 .. Len(Landing(Values)) |-> Queued(Landing(Values)[i])]
    BY <1>5 DEF BeginExpansion
  <2>2. \A i \in 1 .. Len(Landing(Values)): Queued(Landing(Values)[i]) \in ReachedPages
    BY <1>5, DepthFacts DEF Queued, ReachedPages
  <2> QED
    BY <1>5, <2>1, <2>2, IsASeq
<1> QED
  BY <1>6 DEF BeginExpansion

\* An exception that nothing catches is about an answer or a URL that nobody can read.
Refused == (Odd \cup Unsendable) \cap MetUrls # {}
Excused == AnswerMalformed \/ Refused

\* The URLs that a traversal or a step has in hand are among those met.
LEMMA Met == WebUrls \subseteq MetUrls /\ FindUrls \subseteq MetUrls
BY DEF MetUrls, FindUrls

LEMMA RaisesRefused ==
    ASSUME TypeOK, FromWeb,
           SitemapRaises \/ ExpansionRaises \/ (todo # <<>> /\ Head(todo).url \in Odd)
    PROVE  Refused
<1>1. web \in Webs /\ SitemapTypeOK /\ Unparsable \subseteq Odd
  BY WebAssumption DEF TypeOK
<1>2. CASE SitemapRaises
  <2>1. CASE ToSet(web.robots[root]) \cap Unparsable # {}
    <3>1. root \in DOMAIN Roots
      BY <1>1 DEF SitemapTypeOK
    <3> QED
      BY <1>1, <2>1, <3>1, WebUrlsCover, Met DEF Refused
  <2>2. CASE \E u \in Urls: /\ sitemaps # <<>> /\ u = Head(sitemaps) /\ u \in Unsendable
    BY <2>2, Met DEF Refused, FromWeb
  <2>3. CASE \E u \in DOMAIN web.indexes: ToSet(web.indexes[u]) \cap Unparsable # {}
    BY <1>1, <2>3, WebUrlsCover, Met DEF Refused
  <2>4. CASE \E u \in DOMAIN web.urlsets:
                \E i \in 1 .. Room(web.urlsets[u]): web.urlsets[u][i] \in Unparsable
    <3>1. PICK u \in DOMAIN web.urlsets:
             \E i \in 1 .. Room(web.urlsets[u]): web.urlsets[u][i] \in Unparsable
      BY <2>4
    <3>2. web.urlsets[u] \in Seq(Urls \cup {NoLoc})
      BY <1>1, WebFacts DEF WebType
    <3>3. Room(web.urlsets[u]) \in 0 .. Len(web.urlsets[u])
      BY <1>1, <3>2, RoomType DEF SitemapTypeOK
    <3>4. ToSet(web.urlsets[u]) \cap Unparsable # {}
      BY <3>1, <3>2, <3>3 DEF ToSet
    <3> QED
      BY <1>1, <3>4, WebUrlsCover, Met DEF Refused
  <2> QED
    BY <1>2, <2>1, <2>2, <2>3, <2>4 DEF SitemapRaises, AtSitemap
<1>3. CASE ExpansionRaises
  <2>1. CASE links # <<>> /\ Head(links) \in Unparsable
    BY <1>1, <2>1, Met DEF Refused, FromWeb
  <2>2. CASE pages # <<>> /\ Head(pages).url \in Unsendable
    <3>1. Head(pages) \in ReachedPages
      BY <2>2 DEF FromWeb
    <3>2. Head(pages).url \in WebUrls \cup FindUrls
      BY <3>1 DEF ReachedPages
    <3> QED
      BY <2>2, <3>2, Met DEF Refused
  <2> QED
    BY <1>3, <2>1, <2>2 DEF ExpansionRaises, AtPage
<1>4. CASE todo # <<>> /\ Head(todo).url \in Odd
  <2>1. Head(todo) \in ToSet(todo)
    <3>1. todo \in Seq(Candidates)
      BY DEF TypeOK
    <3>2. 1 \in DOMAIN todo /\ Head(todo) = todo[1]
      BY <1>4, <3>1
    <3> QED
      BY <3>2 DEF ToSet
  <2> QED
    BY <1>4, <2>1 DEF Refused, MetUrls
<1> QED
  BY <1>2, <1>3, <1>4

(***************************************************************************)
(* The plan                                                                 *)
(***************************************************************************)
LEMMA Larger ==
    ASSUME NEW a \in Int, NEW b \in Int, NEW n \in Nat, a < b
    PROVE  a * n + n <= b * n
<1>1. PICK d \in Nat: b = a + 1 + d
  <2>1. b - a - 1 \in Nat /\ b = a + 1 + (b - a - 1)
    OBVIOUS
  <2> QED
    BY <2>1
<1>2. b * n = a * n + n + d * n
  BY <1>1
<1>3. d * n >= 0
  OBVIOUS
<1>4. a * n \in Int /\ b * n \in Int /\ d * n \in Int
  OBVIOUS
<1> QED
  BY <1>2, <1>3, <1>4

\* The number of a step gives the variant and the position of its source.
LEMMA StepNumber ==
    ASSUME NEW v \in Nat \ {0}, NEW s \in 1 .. StepsOfVariant, NEW k,
           k = (v - 1) * StepsOfVariant + s
    PROVE  VariantOf(k) = v /\ PositionOf(k) = s
<1> SUFFICES ASSUME NEW n, n = StepsOfVariant PROVE VariantOf(k) = v /\ PositionOf(k) = s
  OBVIOUS
<1>0. n \in Nat \ {0} /\ s \in 1 .. n /\ k = (v - 1) * n + s
  BY DiscoveryAssumption DEF StepsOfVariant
<1>1. ASSUME NEW a \in Nat, NEW q \in Nat, NEW r \in 0 .. n - 1, a = q * n + r
      PROVE  a \div n = q /\ a % n = r
  <2> DEFINE d == a \div n
             m == a % n
  <2>1. d \in Int /\ m \in 0 .. n - 1 /\ a = n * d + m /\ n \in Nat
    BY <1>0
  <2> HIDE DEF d, m
  <2>2. ~ d < q
    <3> SUFFICES ASSUME d < q PROVE FALSE
      OBVIOUS
    <3>1. d * n + n <= q * n
      BY <2>1, Larger
    <3> QED
      BY <1>1, <2>1, <3>1
  <2>3. ~ q < d
    <3> SUFFICES ASSUME q < d PROVE FALSE
      OBVIOUS
    <3>1. q * n + n <= d * n
      BY <2>1, Larger
    <3> QED
      BY <1>1, <2>1, <3>1
  <2>4. d = q
    BY <2>1, <2>2, <2>3
  <2>5. m = r
    BY <1>1, <2>1, <2>4
  <2> QED
    BY <2>4, <2>5 DEF d, m
<1>2. v - 1 \in Nat /\ k - 1 = (v - 1) * n + (s - 1) /\ s - 1 \in 0 .. n - 1 /\ k - 1 \in Nat
  <2>1. (v - 1) * n \in Nat
    BY <1>0
  <2> QED
    BY <1>0, <2>1
<1>3. (k - 1) \div n = v - 1 /\ (k - 1) % n = s - 1
  BY <1>1, <1>2
<1> QED
  BY <1>0, <1>2, <1>3 DEF VariantOf, PositionOf

Searching == pc \in {"search", "sitemap", "expand"}

StepKept(k) ==
    /\ steps[k].variant = Planned(k).variant /\ steps[k].source = Planned(k).source
    /\ steps[k].status = "failed" => steps[k].finds = FindsBefore(k)

\* The position tells how many steps there were; a step that has failed or not yet found
\* anything leaves the finds as the step before it left them.
PlanInv ==
    /\ Len(steps) = IF pc = "done" THEN Variants * StepsOfVariant
                    ELSE (variant - 1) * StepsOfVariant + source - 1
    /\ \A k \in DOMAIN steps: StepKept(k)
    /\ Searching \/ (pc = "add" /\ status = "failed") => Len(finds) = FindsBefore(Len(steps) + 1)
    /\ pc = "add" /\ status = "failed" => todo = <<>>
    /\ pc = "raised" => Excused

LEMMA StepsUnchanged ==
    ASSUME steps' = steps, \A k \in DOMAIN steps: StepKept(k)
    PROVE  /\ \A k \in DOMAIN steps': StepKept(k)'
           /\ FindsBefore(Len(steps) + 1)' = FindsBefore(Len(steps) + 1)
BY DEF StepKept, FindsBefore, Planned, StepsOfVariant

\* A step within a source search or an expansion, its result, and an exception.
LEMMA PlanWithin ==
    ASSUME PlanInv, Searching, UNCHANGED <<variant, source, mergeVars, steps>>,
           \/ Searching'
           \/ pc' = "add" /\ (status' = "failed" => todo' = <<>>)
           \/ pc' = "raised" /\ Excused'
    PROVE  PlanInv'
<1>1. finds' = finds /\ steps' = steps /\ variant' = variant /\ source' = source
  BY DEF mergeVars
<1>2. /\ \A k \in DOMAIN steps': StepKept(k)'
      /\ FindsBefore(Len(steps) + 1)' = FindsBefore(Len(steps) + 1)
  BY <1>1, StepsUnchanged DEF PlanInv
<1>3. pc # "done" /\ pc' # "done"
  BY DEF Searching
<1>4. /\ Len(steps) = (variant - 1) * StepsOfVariant + source - 1
      /\ Len(finds) = FindsBefore(Len(steps) + 1)
  BY <1>3 DEF PlanInv
<1> QED
  BY <1>1, <1>2, <1>3, <1>4 DEF PlanInv, StepsOfVariant, Searching

\* The step that is added is the next one of the plan.
LEMMA PlanYield ==
    ASSUME TypeOK, PlanInv, Yield
    PROVE  PlanInv'
<1> SUFFICES ASSUME NEW n, n = StepsOfVariant, NEW k, k = Len(steps) + 1 PROVE PlanInv'
  OBVIOUS
<1> DEFINE step == [variant |-> variant, source |-> SourceName, status |-> status,
                    finds |-> Len(finds)]
<1>1. /\ Len(Sources) \in Nat /\ n = Len(Sources) + 1 /\ Variants \in Nat \ {0}
      /\ variant \in 1 .. Variants /\ source \in 1 .. n
  BY DiscoveryAssumption DEF TypeOK, StepsOfVariant
<1>2. /\ steps' = Append(steps, step) /\ pc = "add" /\ todo = <<>>
      /\ finds' = finds /\ todo' = todo
      /\ pc' \in {"search", "done"}
  BY DEF Yield, mergeVars
<1>3. Len(steps) \in Nat /\ Len(steps) = (variant - 1) * n + source - 1
  BY <1>2 DEF PlanInv, TypeOK
<1>4. k \in Nat /\ k = (variant - 1) * n + source
  <2>1. (variant - 1) * n \in Int
    BY <1>1
  <2> QED
    BY <1>1, <1>3, <2>1
<1>5. /\ DOMAIN steps = 1 .. k - 1 /\ DOMAIN steps' = 1 .. k /\ Len(steps') = k
      /\ \A j \in DOMAIN steps: steps'[j] = steps[j]
      /\ steps'[k] = step
  <2>1. steps \in Seq([variant: 1 .. Variants, source: SourceNames,
                       status: {"completed", "failed"}, finds: Nat])
    BY DEF TypeOK
  <2> HIDE DEF step
  <2> QED
    BY <1>2, <1>4, <2>1
<1>6. Planned(k).variant = variant /\ Planned(k).source = SourceName
  <2>1. variant \in Nat \ {0} /\ source \in 1 .. StepsOfVariant
    BY <1>1
  <2>2. VariantOf(k) = variant /\ PositionOf(k) = source
    BY <1>4, <2>1, StepNumber
  <2> QED
    BY <1>1, <2>2 DEF Planned, SourceName, Expanding
<1>7. FindsBefore(k)' = FindsBefore(k)
  BY <1>4, <1>5 DEF FindsBefore
<1>8. StepKept(k)'
  <2>1. status = "failed" => Len(finds) = FindsBefore(k)
    BY <1>2 DEF PlanInv
  <2> QED
    BY <1>5, <1>6, <1>7, <2>1 DEF StepKept, Planned
<1>9. ASSUME NEW j \in DOMAIN steps PROVE StepKept(j)'
  <2>1. StepKept(j) /\ FindsBefore(j)' = FindsBefore(j) /\ steps'[j] = steps[j]
    BY <1>4, <1>5 DEF PlanInv, FindsBefore
  <2> QED
    BY <2>1 DEF StepKept, Planned
<1>10. \A j \in DOMAIN steps': StepKept(j)'
  BY <1>4, <1>5, <1>8, <1>9
<1>11. Len(finds)' = FindsBefore(Len(steps) + 1)'
  <2>1. FindsBefore(Len(steps) + 1)' = steps'[k].finds
    BY <1>4, <1>5 DEF FindsBefore
  <2> QED
    BY <1>2, <1>5, <2>1
<1>12. Len(steps)' = IF pc' = "done" THEN Variants * n
                    ELSE (variant' - 1) * n + source' - 1
  <2>1. CASE ~Expanding /\ source' = source + 1 /\ variant' = variant /\ pc' = "search"
    <3>1. (variant - 1) * n \in Int
      BY <1>1
    <3> QED
      BY <1>1, <1>4, <1>5, <2>1, <3>1
  <2>2. CASE Expanding /\ source' = 1 /\ variant' = variant + 1 /\ pc' = "search"
    <3>1. source = n
      BY <1>1, <2>2 DEF Expanding
    <3>2. (variant - 1) * n + n = variant * n
      BY <1>1
    <3>3. variant * n \in Int
      BY <1>1
    <3> QED
      BY <1>1, <1>4, <1>5, <2>2, <3>1, <3>2, <3>3
  <2>3. CASE Expanding /\ variant = Variants /\ pc' = "done"
    <3>1. source = n
      BY <1>1, <2>3 DEF Expanding
    <3>2. (variant - 1) * n + n = variant * n
      BY <1>1
    <3> QED
      BY <1>4, <1>5, <2>3, <3>1, <3>2
  <2> QED
    BY <2>1, <2>2, <2>3 DEF Yield
<1> QED
  BY <1>2, <1>10, <1>11, <1>12 DEF PlanInv, StepsOfVariant

LEMMA PlanStep ==
    ASSUME IInv, FromWeb, PlanInv, Discover
    PROVE  FromWeb' /\ PlanInv'
<1>1. /\ TypeOK /\ FindsReadable /\ MergeKeepsBest /\ web \in Webs
      /\ SitemapTypeOK /\ ExpansionTypeOK
  BY DEF IInv, TypeOK
<1>2. web' = web
  BY DEF Discover, SearchSource, SourceFails, SourceRaises, StartSitemaps, SearchSitemaps,
         SitemapsEnd, SitemapsFail, SitemapsRaise, StartExpansion, ExpandLinks, ExpansionEnds,
         ExpansionFails, ExpansionError, AddCandidate, AddRaises, Yield
<1>3. WebUrls' = WebUrls
  BY <1>2 DEF WebUrls
<1>4. finds' = finds => FindUrls' = FindUrls /\ ReachedPages' = ReachedPages
  BY <1>3 DEF ReachedPages, FindUrls, Cand
<1>5. ASSUME sitemaps' = sitemaps, links' = links, pages' = pages, finds' = finds PROVE FromWeb'
  BY <1>3, <1>4, <1>5 DEF FromWeb
<1>6. UNCHANGED <<todo, source, finds>> => (Excused' <=> Excused)
  BY <1>3 DEF Excused, AnswerMalformed, Refused, MetUrls, Expanding, SourceName, Cand
<1>w. UNCHANGED <<variant, source, mergeVars, steps>> => finds' = finds
  BY DEF mergeVars
<1>7. CASE SearchSource \/ SourceFails \/ SitemapsEnd \/ ExpansionEnds \/ ExpansionFails
  <2>1. sitemaps' = sitemaps /\ links' = links /\ pages' = pages
    BY <1>7 DEF SearchSource, SourceFails, SitemapsEnd, ExpansionEnds, ExpansionFails, PageFails,
                sitemapVars, expansionVars
  <2>2. /\ Searching /\ UNCHANGED <<variant, source, mergeVars, steps>>
        /\ pc' = "add" /\ (status' = "failed" => todo' = <<>>)
    BY <1>7 DEF SearchSource, SourceFails, SitemapsEnd, ExpansionEnds, ExpansionFails, Searching,
                Found, Failed
  <2> QED
    BY <1>5, <1>w, <2>1, <2>2, PlanWithin
<1>8. CASE SitemapsFail
  <2>1. sitemaps' = sitemaps /\ links' = links /\ pages' = pages
    BY <1>8 DEF SitemapsFail, SitemapFails, sitemapVars, expansionVars
  <2>2. /\ Searching /\ UNCHANGED <<variant, source, mergeVars, steps>>
        /\ pc' = "add" /\ todo' = <<>>
    BY <1>8 DEF SitemapsFail, Failed, Found, Searching
  <2> QED
    BY <1>5, <1>w, <2>1, <2>2, PlanWithin
<1>9. CASE StartSitemaps \/ SearchSitemaps \/ StartExpansion \/ ExpandLinks
  <2>1. Searching /\ Searching' /\ UNCHANGED <<variant, source, mergeVars, steps>>
    BY <1>9 DEF StartSitemaps, SearchSitemaps, StartExpansion, ExpandLinks, Searching, stepVars
  <2>2. FromWeb'
    <3>1. CASE StartSitemaps
      BY <1>3, <1>4, <1>w, <2>1, <3>1, EmptySeq
         DEF StartSitemaps, BeginSitemaps, FromWeb, expansionVars
    <3>2. CASE SearchSitemaps
      <4>1. sitemaps' \in Seq(WebUrls)
        BY <1>1, <3>2, SitemapFromWeb DEF SearchSitemaps, FromWeb
      <4> QED
        BY <1>3, <1>4, <1>w, <2>1, <3>2, <4>1 DEF SearchSitemaps, FromWeb, expansionVars
    <3>3. CASE StartExpansion
      <4>1. links' \in Seq(WebUrls) /\ pages' \in Seq(ReachedPages)
        BY <1>1, <3>3, BeginFromWeb DEF StartExpansion
      <4> QED
        BY <1>3, <1>4, <1>w, <2>1, <3>3, <4>1 DEF StartExpansion, FromWeb, sitemapVars
    <3>4. CASE ExpandLinks
      <4>1. links' \in Seq(WebUrls) /\ pages' \in Seq(ReachedPages)
        BY <1>1, <3>4, ExpansionFromWeb DEF ExpandLinks, FromWeb
      <4> QED
        BY <1>3, <1>4, <1>w, <2>1, <3>4, <4>1 DEF ExpandLinks, FromWeb, sitemapVars
    <3> QED
      BY <1>9, <3>1, <3>2, <3>3, <3>4
  <2> QED
    BY <2>1, <2>2, PlanWithin
<1>10. CASE SourceRaises \/ SitemapsRaise \/ ExpansionError
  <2>1. sitemaps' = sitemaps /\ links' = links /\ pages' = pages
    BY <1>10 DEF SourceRaises, SitemapsRaise, SitemapRaises, ExpansionError, ExpansionRaises,
                 sitemapVars, expansionVars
  <2>2. /\ Searching /\ UNCHANGED <<variant, source, mergeVars, steps, todo>>
        /\ pc' = "raised"
    BY <1>10 DEF SourceRaises, SitemapsRaise, ExpansionError, Raise, Searching, stepVars
  <2>3. Excused
    <3>1. CASE SourceRaises
      BY <3>1 DEF SourceRaises, Excused, AnswerMalformed
    <3>2. CASE SitemapsRaise \/ ExpansionError
      BY <1>1, <3>2, RaisesRefused DEF SitemapsRaise, ExpansionError, Excused
    <3> QED
      BY <1>10, <3>1, <3>2
  <2> QED
    BY <1>5, <1>6, <1>w, <2>1, <2>2, <2>3, PlanWithin
<1>11. CASE AddRaises
  <2>1. sitemaps' = sitemaps /\ links' = links /\ pages' = pages
    BY <1>11 DEF AddRaises, sitemapVars, expansionVars
  <2>2. /\ UNCHANGED <<variant, source, todo, finds, steps>> /\ pc = "add" /\ pc' = "raised"
    BY <1>11 DEF AddRaises, Raise, stepVars, mergeVars
  <2>3. Excused'
    BY <1>1, <1>6, <1>11, <2>2, RaisesRefused DEF AddRaises, Excused
  <2>4. \A k \in DOMAIN steps': StepKept(k)'
    BY <2>2, StepsUnchanged DEF PlanInv
  <2> QED
    BY <1>5, <2>1, <2>2, <2>3, <2>4 DEF PlanInv, Searching, StepsOfVariant
<1>12. CASE AddCandidate
  <2>1. sitemaps' = sitemaps /\ links' = links /\ pages' = pages
    BY <1>12 DEF AddCandidate, sitemapVars, expansionVars
  <2>2. /\ UNCHANGED <<variant, source, status, steps>> /\ pc = "add" /\ pc' = "add"
        /\ todo # <<>>
    BY <1>12 DEF AddCandidate
  <2>3. \A k \in DOMAIN steps': StepKept(k)'
    BY <2>2, StepsUnchanged DEF PlanInv
  <2>4. FromWeb'
    <3>1. /\ Head(todo) \in Candidates /\ finds' = Append(finds, Enriched(Head(todo)))
          /\ finds \in Seq([candidate: Candidates, variant: 1 .. Variants])
      BY <1>1, <1>12 DEF AddCandidate, Merge, TypeOK
    <3>2. \A i \in DOMAIN finds: i \in DOMAIN finds' /\ finds'[i] = finds[i]
      <4> DEFINE T == [candidate: Candidates, variant: 1 .. Variants]
                 e == Enriched(Head(todo))
      <4>1. finds \in Seq(T) /\ finds' = Append(finds, e)
        BY <3>1
      <4> HIDE DEF T, e
      <4> QED
        BY <4>1
    <3>3. ReachedPages \subseteq ReachedPages'
      BY <1>3, <3>2 DEF ReachedPages, FindUrls, Cand
    <3>4. pages \in Seq(ReachedPages')
      BY <3>3, SeqMonotonic DEF FromWeb
    <3> QED
      BY <1>3, <2>1, <3>4 DEF FromWeb
  <2> QED
    BY <2>2, <2>3, <2>4 DEF PlanInv, Searching, StepsOfVariant
<1>13. CASE Yield
  <2>1. sitemaps' = sitemaps /\ links' = links /\ pages' = pages /\ finds' = finds
    BY <1>13 DEF Yield, sitemapVars, expansionVars, mergeVars
  <2> QED
    BY <1>1, <1>5, <1>13, <2>1, PlanYield
<1> QED
  BY <1>7, <1>8, <1>9, <1>10, <1>11, <1>12, <1>13 DEF Discover

\* Before the first step nothing has been read of the web and no step is recorded.
THEOREM InitPlan == Init => FromWeb /\ PlanInv
<1> SUFFICES ASSUME Init PROVE FromWeb /\ PlanInv
  OBVIOUS
<1>1. FromWeb
  BY EmptySeq DEF Init, SitemapInit, ExpansionInit, FromWeb
<1>2. Len(Sources) + 1 \in Nat
  BY DiscoveryAssumption
<1>3. finds = <<>> /\ steps = <<>> /\ pc = "search" /\ variant = 1 /\ source = 1
  BY DEF Init
<1> QED
  BY <1>1, <1>2, <1>3 DEF PlanInv, FindsBefore, StepsOfVariant

\* What is in hand comes from the web, and the recorded steps are those of the plan.
THEOREM SpecPlan == Spec => [](FromWeb /\ PlanInv)
<1>1. ASSUME FromWeb, PlanInv, UNCHANGED vars PROVE FromWeb' /\ PlanInv'
  <2>1. WebUrls' = WebUrls /\ ReachedPages' = ReachedPages
    BY <1>1 DEF WebUrls, ReachedPages, FindUrls, Cand, vars, mergeVars
  <2>2. FromWeb'
    BY <1>1, <2>1 DEF FromWeb, vars, sitemapVars, expansionVars
  <2>3. \A k \in DOMAIN steps': StepKept(k)'
    BY <1>1, StepsUnchanged DEF PlanInv, vars
  <2>4. FindsBefore(Len(steps) + 1)' = FindsBefore(Len(steps) + 1)
    BY <1>1 DEF FindsBefore, vars
  <2>5. Excused' <=> Excused
    BY <1>1, <2>1 DEF Excused, AnswerMalformed, Refused, MetUrls, Expanding, SourceName, Cand,
                      vars, stepVars, mergeVars
  <2> QED
    BY <1>1, <2>2, <2>3, <2>4, <2>5
       DEF PlanInv, vars, stepVars, mergeVars, Searching, StepsOfVariant
<1>2. IInv /\ FromWeb /\ PlanInv /\ [Next]_vars => FromWeb' /\ PlanInv'
  BY <1>1, PlanStep DEF Next, Finished
<1> QED
  BY InitPlan, SpecIInv, <1>2, PTL DEF Spec

\* A source or an expansion that fails in a way the pipeline knows costs its own step and
\* no other; only an answer its adapter does not expect, or a URL that cannot be read or
\* requested, ends a run before its last step, and then the steps so far stay.
THEOREM FailureCostsItsStep == Spec => []FailuresContained
<1>1. PlanInv => FailuresContained
  BY DEF PlanInv, StepKept, FailuresContained, Excused, Refused
<1> QED
  BY SpecPlan, <1>1, PTL
=============================================================================
