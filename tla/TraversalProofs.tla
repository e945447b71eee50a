-------------------------- MODULE TraversalProofs --------------------------
(***************************************************************************)
(* The search of the sitemaps and the expansion of links find what is there *)
(* to find, each of it once, on every web and for any limits.               *)
(***************************************************************************)
EXTENDS DiscoveryProofs

(***************************************************************************)
(* What sequences and selections from them hold                             *)
(***************************************************************************)
\* What a sequence holds is at its head or in its tail.
LEMMA TailMembers ==
    ASSUME NEW T, NEW s \in Seq(T), s # <<>>
    PROVE  ToSet(s) = ToSet(Tail(s)) \cup {Head(s)}
<1>1. Head(s) = s[1] /\ 1 \in DOMAIN s
  BY TailFacts
<1>2. \A i \in DOMAIN s: i = 1 \/ (i - 1 \in DOMAIN Tail(s) /\ Tail(s)[i - 1] = s[i])
  BY TailFacts
<1>3. \A i \in DOMAIN Tail(s): i + 1 \in DOMAIN s /\ Tail(s)[i] = s[i + 1]
  BY TailFacts
<1>4. ToSet(s) \subseteq ToSet(Tail(s)) \cup {Head(s)}
  BY <1>1, <1>2 DEF ToSet
<1>5. ToSet(Tail(s)) \cup {Head(s)} \subseteq ToSet(s)
  BY <1>1, <1>3 DEF ToSet
<1> QED
  BY <1>4, <1>5

\* Two sequences one after the other hold what both hold.
LEMMA ConcatMembers ==
    ASSUME NEW T, NEW s \in Seq(T), NEW t \in Seq(T)
    PROVE  ToSet(s \o t) = ToSet(s) \cup ToSet(t)
<1>1. /\ Len(s) \in Nat /\ Len(t) \in Nat /\ DOMAIN s = 1 .. Len(s) /\ DOMAIN t = 1 .. Len(t)
      /\ DOMAIN (s \o t) = 1 .. Len(s) + Len(t)
      /\ \A i \in 1 .. Len(s) + Len(t): (s \o t)[i] = IF i <= Len(s) THEN s[i] ELSE t[i - Len(s)]
  OBVIOUS
<1>2. ToSet(s \o t) \subseteq ToSet(s) \cup ToSet(t)
  <2> SUFFICES ASSUME NEW i \in 1 .. Len(s) + Len(t) PROVE (s \o t)[i] \in ToSet(s) \cup ToSet(t)
    BY <1>1 DEF ToSet
  <2>1. CASE i <= Len(s)
    BY <1>1, <2>1 DEF ToSet
  <2>2. CASE i > Len(s)
    <3>1. i - Len(s) \in DOMAIN t /\ (s \o t)[i] = t[i - Len(s)]
      BY <1>1, <2>2
    <3> QED
      BY <3>1 DEF ToSet
  <2> QED
    BY <1>1, <2>1, <2>2
<1>3. ToSet(s) \subseteq ToSet(s \o t)
  <2> SUFFICES ASSUME NEW i \in DOMAIN s PROVE s[i] \in ToSet(s \o t)
    BY DEF ToSet
  <2>1. i \in DOMAIN (s \o t) /\ (s \o t)[i] = s[i]
    BY <1>1
  <2> QED
    BY <2>1 DEF ToSet
<1>4. ToSet(t) \subseteq ToSet(s \o t)
  <2> SUFFICES ASSUME NEW i \in DOMAIN t PROVE t[i] \in ToSet(s \o t)
    BY DEF ToSet
  <2>1. i + Len(s) \in DOMAIN (s \o t) /\ (s \o t)[i + Len(s)] = t[(i + Len(s)) - Len(s)] /\ (i + Len(s)) - Len(s) = i
    BY <1>1
  <2> QED
    BY <2>1 DEF ToSet
<1> QED
  BY <1>2, <1>3, <1>4

\* The beginning of a sequence, and what comes after it.
LEMMA PrefixMembers ==
    ASSUME NEW T, NEW s \in Seq(T), NEW n \in 0 .. Len(s)
    PROVE  /\ SubSeq(s, 1, n) \in Seq(T) /\ ToSet(SubSeq(s, 1, n)) \subseteq ToSet(s)
           /\ \A i \in DOMAIN s: s[i] \in ToSet(SubSeq(s, 1, n)) \/ i \in n + 1 .. Len(s)
<1>1. /\ Len(s) \in Nat /\ DOMAIN s = 1 .. Len(s) /\ SubSeq(s, 1, n) \in Seq(T)
      /\ DOMAIN SubSeq(s, 1, n) = 1 .. n /\ \A i \in 1 .. n: SubSeq(s, 1, n)[i] = s[i]
  OBVIOUS
<1>2. ToSet(SubSeq(s, 1, n)) \subseteq ToSet(s)
  BY <1>1 DEF ToSet
<1>3. ASSUME NEW i \in DOMAIN s PROVE s[i] \in ToSet(SubSeq(s, 1, n)) \/ i \in n + 1 .. Len(s)
  <2>1. CASE i <= n
    <3>1. i \in DOMAIN SubSeq(s, 1, n) /\ SubSeq(s, 1, n)[i] = s[i]
      BY <1>1, <2>1
    <3> QED
      BY <3>1 DEF ToSet
  <2> QED
    BY <1>1, <2>1
<1> QED
  BY <1>1, <1>2, <1>3

\* Elements of a selection at different places are from different places of the sequence.
LEMMA SelectedPlaces ==
    ASSUME NEW T, NEW s \in Seq(T), NEW S, NEW i \in DOMAIN Selected(s, S),
           NEW j \in DOMAIN Selected(s, S), i # j
    PROVE  \E a, b \in DOMAIN s: a # b /\ Selected(s, S)[i] = s[a] /\ Selected(s, S)[j] = s[b]
<1> DEFINE P == {x \in DOMAIN s: s[x] \in S}
           Nth(k) == CHOOSE x \in P: Cardinality(P \cap 1 .. x) = k
<1>1. Len(s) \in Nat /\ P \in SUBSET (1 .. Len(s)) /\ P \subseteq DOMAIN s
  OBVIOUS
<1>2. ASSUME NEW k \in 1 .. Cardinality(P)
      PROVE  Nth(k) \in P /\ Cardinality(P \cap 1 .. Nth(k)) = k
  <2> HIDE DEF P
  <2>1. \E x \in P: Cardinality(P \cap 1 .. x) = k
    BY <1>1, RankTaken
  <2> QED
    BY <2>1
<1>3. Selected(s, S) = [k \in 1 .. Cardinality(P) |-> s[Nth(k)]]
  BY DEF Selected
<1> HIDE DEF P, Nth
<1>4. i \in 1 .. Cardinality(P) /\ j \in 1 .. Cardinality(P)
  BY <1>3
<1>5. Nth(i) # Nth(j) /\ Nth(i) \in DOMAIN s /\ Nth(j) \in DOMAIN s
  BY <1>1, <1>2, <1>4
<1>6. Selected(s, S)[i] = s[Nth(i)] /\ Selected(s, S)[j] = s[Nth(j)]
  BY <1>3, <1>4
<1> QED
  BY <1>5, <1>6

\* A selection has every element of the sequence that is in the set.
LEMMA SelectedAll ==
    ASSUME NEW T, NEW s \in Seq(T), NEW S, NEW a \in DOMAIN s, s[a] \in S
    PROVE  \E k \in DOMAIN Selected(s, S): Selected(s, S)[k] = s[a]
<1> DEFINE P == {x \in DOMAIN s: s[x] \in S}
           Nth(k) == CHOOSE x \in P: Cardinality(P \cap 1 .. x) = k
           r == Cardinality(P \cap 1 .. a)
<1>1. Len(s) \in Nat /\ P \in SUBSET (1 .. Len(s)) /\ a \in P
  OBVIOUS
<1>2. Selected(s, S) = [k \in 1 .. Cardinality(P) |-> s[Nth(k)]]
  BY DEF Selected
<1> HIDE DEF P
<1>3. r \in 1 .. Cardinality(P)
  BY <1>1, Ranks
<1>4. Nth(r) = a
  <2>1. Nth(r) \in P /\ Cardinality(P \cap 1 .. Nth(r)) = r
    BY <1>1
  <2> QED
    BY <1>1, <2>1, Ranks
<1> HIDE DEF Nth, r
<1> QED
  BY <1>2, <1>3, <1>4

\* A selection is what the sequence and the set have in common.
LEMMA SelectedMembers ==
    ASSUME NEW T, NEW s \in Seq(T), NEW S
    PROVE  ToSet(Selected(s, S)) = ToSet(s) \cap S
<1>1. ToSet(Selected(s, S)) \subseteq ToSet(s) \cap S
  <2>1. Selected(s, S) \in Seq(S \cap ToSet(s))
    BY SelectedType
  <2>2. \A i \in DOMAIN Selected(s, S): Selected(s, S)[i] \in S \cap ToSet(s)
    BY <2>1, SequenceElements
  <2> QED
    BY <2>2 DEF ToSet
<1>2. ASSUME NEW a \in DOMAIN s, s[a] \in S PROVE s[a] \in ToSet(Selected(s, S))
  BY <1>2, SelectedAll DEF ToSet
<1> QED
  BY <1>1, <1>2 DEF ToSet

(***************************************************************************)
(* The search of the sitemaps asks for nothing twice                        *)
(***************************************************************************)
\* What was requested is remembered, and each of it has used up one of the files.
AskedInv ==
    /\ \A u \in Urls: asked[u] = IF u \in seen THEN 1 ELSE 0
    /\ IsFiniteSet(seen) /\ Cardinality(seen) <= fetched

\* A request is for a sitemap that is not remembered; other steps leave both alone.
LEMMA AskedKept ==
    ASSUME TypeOK, AskedInv,
           \/ UNCHANGED <<seen, asked>> /\ fetched' \in {fetched, fetched + 1}
           \/ \E u \in Urls: RequestSitemap(u)
           \/ BeginSitemaps
    PROVE  AskedInv'
<1>1. /\ asked \in [Urls -> Nat] /\ fetched \in Nat /\ Cardinality(seen) \in Nat
  BY SitemapAssumption, FS_CardinalityType DEF TypeOK, SitemapTypeOK, AskedInv
<1>2. CASE UNCHANGED <<seen, asked>> /\ fetched' \in {fetched, fetched + 1}
  BY <1>1, <1>2 DEF AskedInv
<1>3. CASE \E u \in Urls: RequestSitemap(u)
  <2>1. PICK u \in Urls: /\ u \notin seen /\ fetched' = fetched + 1 /\ seen' = seen \cup {u}
                         /\ asked' = [asked EXCEPT ![u] = @ + 1]
    BY <1>3 DEF RequestSitemap, Remember
  <2>2. IsFiniteSet(seen') /\ Cardinality(seen') = Cardinality(seen) + 1
    BY <2>1, FS_AddElement DEF AskedInv
  <2> QED
    BY <1>1, <2>1, <2>2 DEF AskedInv
<1>4. CASE BeginSitemaps
  BY <1>4, FS_EmptySet DEF BeginSitemaps, AskedInv
<1> QED
  BY <1>2, <1>3, <1>4

LEMMA AskedStep ==
    ASSUME TypeOK, AskedInv, [Next]_vars
    PROVE  AskedInv'
<1>1. CASE UNCHANGED sitemapVars
  BY <1>1, AskedKept DEF sitemapVars
<1>2. CASE StartSitemaps
  BY <1>2, AskedKept DEF StartSitemaps
<1>3. CASE SearchSitemaps
  <2>1. CASE ReadRobots \/ NextRoot \/ SkipForLimit \/ SkipSeen
    BY <2>1, AskedKept DEF ReadRobots, NextRoot, SkipForLimit, SkipSeen
  <2>2. CASE ReadIndex \/ ReadUrlset \/ ReadOther
    <3>1. DOMAIN web.indexes \subseteq Urls /\ DOMAIN web.urlsets \subseteq Urls
      BY WebFacts DEF TypeOK, WebType
    <3>2. \E u \in Urls: RequestSitemap(u)
      BY <2>2, <3>1 DEF ReadIndex, ReadUrlset, ReadOther
    <3> QED
      BY <3>2, AskedKept
  <2> QED
    BY <1>3, <2>1, <2>2 DEF SearchSitemaps, SitemapStep
<1>4. CASE SitemapsFail
  BY <1>1, <1>4, AskedKept DEF SitemapsFail, SitemapFails
<1>5. Discover => UNCHANGED sitemapVars \/ StartSitemaps \/ SearchSitemaps \/ SitemapsFail
  BY DEF Discover, SearchSource, SourceFails, SourceRaises, SitemapsEnd, SitemapsRaise,
         SitemapRaises,
         StartExpansion, ExpandLinks, ExpansionEnds, ExpansionFails, ExpansionError,
         AddCandidate, AddRaises, Yield
<1> QED
  BY <1>1, <1>2, <1>3, <1>4, <1>5 DEF Next, Finished, vars

\* However sitemaps name each other, none is requested twice in a search, none outside
\* of the frontier, and no more than the limit of files.
THEOREM SitemapsAskedOnce == Spec => []FrontierKept
<1>1. Init => AskedInv
  BY SitemapAssumption, FS_EmptySet DEF Init, SitemapInit, AskedInv
<1>2. TypeOK /\ AskedInv => FrontierKept
  <2> SUFFICES ASSUME TypeOK, AskedInv PROVE FrontierKept
    OBVIOUS
  <2>1. seen \subseteq Urls /\ seen \subseteq Frontier
    BY SitemapAssumption DEF TypeOK, SitemapTypeOK
  <2>2. SitemapsRead = seen
    BY <2>1 DEF SitemapsRead, AskedInv
  <2> QED
    BY <2>1, <2>2 DEF FrontierKept, AskedInv
<1> QED
  BY <1>1, <1>2, AskedStep, TypesHold, PTL DEF Spec

(***************************************************************************)
(* The search of the sitemaps loses nothing silently                        *)
(***************************************************************************)
\* The number of entries is a sum over the urlsets read.
EntryCounts == [u \in UrlsetsRead |-> EntriesOf(u)]
\* So it is written as a recursion over the set of them, and is this sum.
LEMMA EntriesSum ==
    ASSUME web \in Webs, IsFiniteSet(UrlsetsRead)
    PROVE  /\ EntryCounts \in [UrlsetsRead -> Nat]
           /\ \E h: SumsUp(h, EntryCounts, UrlsetsRead) /\ Entries = h[UrlsetsRead]
<1> DEFINE S == UrlsetsRead
           f == EntryCounts
           c(s) == CHOOSE x \in s: TRUE
           Solves(k) == k = [s \in SUBSET S |-> IF s = {} THEN 0 ELSE EntriesOf(c(s)) + k[s \ {c(s)}]]
           iter == CHOOSE k: Solves(k)
<1>0. f \in [S -> Nat] /\ \A u \in S: f[u] = EntriesOf(u)
  BY WebFacts DEF WebType, UrlsetsRead, EntriesOf, EntryCounts
<1> HIDE DEF f
<1>1. Entries = iter[S]
  BY DEF Entries, MapThenSumSet, MapThenFoldSet
<1>2. \A s \in SUBSET S: s # {} => f[c(s)] = EntriesOf(c(s))
  BY <1>0
<1>3. PICK g \in [SUBSET S -> Nat]: SumsUp(g, f, S)
  <2> HIDE DEF S
  <2> QED
    BY <1>0, SumsExist DEF S
<1>4. Solves(g)
  <2>1. \A s \in SUBSET S: g[s] = IF s = {} THEN 0 ELSE EntriesOf(c(s)) + g[s \ {c(s)}]
    BY <1>2, <1>3 DEF SumsUp
  <2> HIDE DEF c, S
  <2> QED
    BY <2>1
<1>5. Solves(iter)
  <2> HIDE DEF Solves
  <2> QED
    BY <1>4
<1>6. SumsUp(iter, f, S)
  <2> HIDE DEF iter
  <2>1. iter = [s \in SUBSET S |-> IF s = {} THEN 0 ELSE f[c(s)] + iter[s \ {c(s)}]]
    BY <1>2, <1>5
  <2> HIDE DEF S
  <2> QED
    BY <1>0, <2>1, SumsSolved DEF S
<1> HIDE DEF iter
<1> QED
  BY <1>0, <1>1, <1>6 DEF f

\* The same as a fact about a state, which PTL carries to the next one.
EntriesCounted ==
    web \in Webs /\ IsFiniteSet(UrlsetsRead) =>
        /\ EntryCounts \in [UrlsetsRead -> Nat]
        /\ \E h: SumsUp(h, EntryCounts, UrlsetsRead) /\ Entries = h[UrlsetsRead]
LEMMA EntriesCount == EntriesCounted
BY EntriesSum DEF EntriesCounted

LEMMA EntriesCountNext == EntriesCounted'
BY EntriesCount, PTL

\* One more urlset adds its entries.
LEMMA EntriesGrow ==
    ASSUME web \in Webs, web' = web, IsFiniteSet(UrlsetsRead), NEW N \in SUBSET Urls,
           IsFiniteSet(N), N \cap UrlsetsRead = {}, UrlsetsRead' = UrlsetsRead \cup N,
           N = {} \/ \E u: N = {u}
    PROVE  /\ Entries \in Nat
           /\ N = {} => Entries' = Entries
           /\ \A u \in N: Entries' = Entries + EntriesOf(u) /\ EntriesOf(u) \in Nat
<1> DEFINE S == UrlsetsRead
           T == UrlsetsRead'
<1>1. PICK h: SumsUp(h, EntryCounts, S) /\ Entries = h[S]
  BY EntriesCount DEF EntriesCounted
<1>2. IsFiniteSet(T) /\ web' \in Webs
  BY FS_Union
<1>3. PICK k: SumsUp(k, EntryCounts', T) /\ Entries' = k[T]
  BY <1>2, EntriesCountNext DEF EntriesCounted
<1>4. EntryCounts \in [S -> Nat] /\ EntryCounts' \in [T -> Nat]
  BY <1>2, EntriesCount, EntriesCountNext DEF EntriesCounted
<1>5. \A u: EntriesOf(u)' = EntriesOf(u)
  BY DEF EntriesOf
<1>6. \A u \in S: EntryCounts[u] = EntryCounts'[u]
  BY <1>5 DEF EntryCounts
<1>7. \A u \in N: EntryCounts'[u] = EntriesOf(u)
  BY <1>5 DEF EntryCounts
<1>8. T = S \cup N /\ S \subseteq T
  OBVIOUS
<1> HIDE DEF S, T
<1>9. h[S] = k[S] /\ Entries \in Nat
  <2>1. \A s \in SUBSET S: h[s] = k[s]
    BY <1>1, <1>3, <1>6, <1>8, SumsAgree DEF S
  <2> QED
    BY <1>1, <2>1 DEF SumsUp
<1>10. ASSUME NEW u \in N PROVE Entries' = Entries + EntriesOf(u) /\ EntriesOf(u) \in Nat
  <2>1. N = {u} /\ T \ {u} = S /\ u \in T
    BY <1>8 DEF S
  <2>2. k[T] = EntryCounts'[u] + k[T \ {u}]
    BY <1>2, <1>3, <1>4, <2>1, SumTakesOut
  <2>3. EntryCounts'[u] \in Nat
    BY <1>4, <2>1
  <2>4. k[T \ {u}] = Entries
    BY <1>1, <1>9, <2>1
  <2>5. Entries' = EntriesOf(u) + Entries /\ EntriesOf(u) \in Nat
    BY <1>3, <1>7, <2>2, <2>3, <2>4
  <2> QED
    BY <1>9, <2>5
<1> QED
  BY <1>1, <1>3, <1>8, <1>9, <1>10

\* The roots whose robots.txt was read, and what is named by what was read.
RootsRead == {i \in DOMAIN Roots: i < root \/ (i = root /\ reading = "queue")}
NamedSoFar ==
    UNION ({ToSet(web.robots[i]): i \in RootsRead}
           \cup {ToSet(web.indexes[u]): u \in SitemapsRead \cap DOMAIN web.indexes})

\* What was named so far was requested, is queued, or is left out for a reason; what was
\* inspected of the entries so far is all of them or as many as the limit allows.
SearchInv ==
    /\ NamedSoFar \cap Frontier =
          SitemapsRead \cup Reported("traversal_limit_reached") \cup ToSet(sitemaps)
    /\ NamedSoFar \ Frontier = Reported("frontier_rejected")
    /\ Reported("traversal_limit_reached") # {} => fetched = MaxSitemapFiles
    /\ \A u \in UrlsetsRead:
          DocumentsOf(u) \subseteq ToSet(listed) \cup Reported("url_entry_limit_reached")
    /\ inspected = IF Entries < MaxUrlEntries THEN Entries ELSE MaxUrlEntries
    /\ Reported("url_entry_limit_reached") # {} <=> Entries > MaxUrlEntries
    /\ reading = "robots" => sitemaps = <<>>

ListedInv == ToSet(listed) \subseteq UNION {DocumentsOf(u): u \in UrlsetsRead}

\* More events of one type are more reports of this type and of no other.
LEMMA ReportedMore ==
    ASSUME NEW E, events' = events \cup E, NEW t, \A x \in E: x.type = t
    PROVE  /\ Reported(t)' = Reported(t) \cup {e.url: e \in E}
           /\ \A s: s # t => Reported(s)' = Reported(s)
BY DEF Reported

\* What an index or a robots.txt names outside of the frontier is reported as rejected.
LEMMA RejectionsReported ==
    ASSUME NEW urls, events' = events \cup Rejections(urls)
    PROVE  /\ Reported("traversal_limit_reached")' = Reported("traversal_limit_reached")
           /\ Reported("url_entry_limit_reached")' = Reported("url_entry_limit_reached")
           /\ Reported("frontier_rejected")' = Reported("frontier_rejected") \cup (ToSet(urls) \ Frontier)
<1>1. \A x \in Rejections(urls): x.type = "frontier_rejected"
  BY DEF Rejections, Event
<1>2. {e.url: e \in Rejections(urls)} = ToSet(urls) \ Frontier
  <2> DEFINE W == ToSet(urls) \ Frontier
  <2>1. Rejections(urls) = {Event("frontier_rejected", u): u \in W}
    BY DEF Rejections
  <2>2. \A u: Event("frontier_rejected", u).url = u
    BY DEF Event
  <2> HIDE DEF W
  <2>3. {e.url: e \in Rejections(urls)} \subseteq W
    BY <2>1, <2>2
  <2>4. W \subseteq {e.url: e \in Rejections(urls)}
    BY <2>1, <2>2
  <2>5. {e.url: e \in Rejections(urls)} = W
    BY <2>3, <2>4
  <2> QED
    BY <2>5 DEF W
<1>3. "traversal_limit_reached" # "frontier_rejected" /\ "url_entry_limit_reached" # "frontier_rejected"
  OBVIOUS
<1> HIDE DEF Rejections
<1> QED
  BY <1>1, <1>2, <1>3, ReportedMore

\* What was requested is what is remembered.
SeenIsRead == SitemapsRead = seen /\ seen \subseteq Urls /\ IsFiniteSet(UrlsetsRead)

LEMMA ReadIsSeen == TypeOK /\ AskedInv => SeenIsRead
<1> SUFFICES ASSUME TypeOK, AskedInv PROVE SeenIsRead
  OBVIOUS
<1>1. seen \subseteq Urls /\ SitemapsRead = seen
  BY SitemapAssumption DEF TypeOK, SitemapTypeOK, AskedInv, SitemapsRead
<1> QED
  BY <1>1, FS_Subset DEF AskedInv, UrlsetsRead, SeenIsRead

LEMMA ReadIsSeenNext == TypeOK' /\ AskedInv' => SeenIsRead'
BY ReadIsSeen, PTL

\* A request is for a sitemap that was named and that nothing was asked for before.
LEMMA Requested ==
    ASSUME TypeOK, TypeOK', AskedInv, AskedInv', web' = web, SearchInv, NEW u \in Urls, RequestSitemap(u)
    PROVE  /\ SitemapsRead' = SitemapsRead \cup {u} /\ u \notin SitemapsRead /\ u \in Frontier
           /\ Reported("traversal_limit_reached") = {} /\ reading = "queue"
           /\ sitemaps \in Seq(Frontier) /\ Tail(sitemaps) \in Seq(Frontier)
           /\ ToSet(sitemaps) = ToSet(Tail(sitemaps)) \cup {u} /\ Entries \in Nat
           /\ u \notin DOMAIN web.urlsets => UrlsetsRead' = UrlsetsRead /\ Entries' = Entries
           /\ u \in DOMAIN web.urlsets =>
                 /\ UrlsetsRead' = UrlsetsRead \cup {u} /\ Entries' = Entries + EntriesOf(u)
                 /\ EntriesOf(u) \in Nat
<1>1. /\ reading = "queue" /\ sitemaps # <<>> /\ fetched < MaxSitemapFiles /\ u = Head(sitemaps)
      /\ u \notin seen /\ seen' = seen \cup {u} /\ sitemaps \in Seq(Frontier) /\ web \in Webs
  BY SitemapAssumption DEF RequestSitemap, AtSitemap, FileLimitReached, Remember, TypeOK, SitemapTypeOK
<1>2. /\ SitemapsRead = seen /\ SitemapsRead' = seen' /\ IsFiniteSet(UrlsetsRead)
  BY ReadIsSeen, ReadIsSeenNext DEF SeenIsRead
<1>3. /\ u \in Frontier /\ Tail(sitemaps) \in Seq(Frontier)
      /\ ToSet(sitemaps) = ToSet(Tail(sitemaps)) \cup {u}
  BY <1>1, TailMembers, TailFacts
<1>4. Reported("traversal_limit_reached") = {}
  BY <1>1, SitemapAssumption DEF SearchInv
<1>5. Entries \in Nat
  <2>1. PICK h: SumsUp(h, EntryCounts, UrlsetsRead) /\ Entries = h[UrlsetsRead]
    BY <1>1, <1>2, EntriesSum
  <2> QED
    BY <2>1 DEF SumsUp
<1>6. CASE u \notin DOMAIN web.urlsets
  <2>1. UrlsetsRead' = UrlsetsRead
    BY <1>1, <1>2, <1>6 DEF UrlsetsRead
  <2> DEFINE N == {}
  <2>2. N \in SUBSET Urls /\ IsFiniteSet(N) /\ N \cap UrlsetsRead = {} /\ N = {}
        /\ UrlsetsRead' = UrlsetsRead \cup N
    BY <2>1, FS_EmptySet
  <2> HIDE DEF N
  <2>3. Entries' = Entries
    BY <1>1, <1>2, <2>2, EntriesGrow
  <2> QED
    BY <1>1, <1>2, <1>3, <1>4, <1>5, <1>6, <2>1, <2>3
<1>7. CASE u \in DOMAIN web.urlsets
  <2>1. UrlsetsRead' = UrlsetsRead \cup {u} /\ u \notin UrlsetsRead
    BY <1>1, <1>2, <1>7 DEF UrlsetsRead
  <2> DEFINE N == {u}
  <2>2. N \in SUBSET Urls /\ IsFiniteSet(N) /\ N \cap UrlsetsRead = {} /\ u \in N
        /\ UrlsetsRead' = UrlsetsRead \cup N /\ (N = {} \/ \E v: N = {v})
    BY <2>1, FS_Singleton
  <2> HIDE DEF N
  <2>3. Entries' = Entries + EntriesOf(u) /\ EntriesOf(u) \in Nat
    BY <1>1, <1>2, <2>2, EntriesGrow
  <2> QED
    BY <1>1, <1>2, <1>3, <1>4, <1>5, <1>7, <2>1, <2>3
<1> QED
  BY <1>6, <1>7

\* The search begins with nothing named.
LEMMA SearchBegins ==
    ASSUME TypeOK, TypeOK', AskedInv', web' = web, BeginSitemaps
    PROVE  SearchInv' /\ ListedInv'
<1>1. /\ reading' = "robots" /\ root' = 1 /\ sitemaps' = <<>> /\ seen' = {} /\ inspected' = 0
      /\ listed' = <<>> /\ events' = {}
  BY DEF BeginSitemaps
<1>2. SitemapsRead' = {} /\ UrlsetsRead' = {}
  BY <1>1, ReadIsSeenNext DEF SeenIsRead, UrlsetsRead
<1>3. NamedSoFar' = {}
  <2>1. RootsRead' = {}
    BY <1>1, WebAssumption DEF RootsRead
  <2> QED
    BY <1>2, <2>1 DEF NamedSoFar
<1>4. \A t: Reported(t)' = {}
  BY <1>1 DEF Reported
<1>5. Entries' = 0
  <2>1. web' \in Webs /\ IsFiniteSet(UrlsetsRead')
    BY <1>2, FS_EmptySet DEF TypeOK
  <2>2. PICK h: SumsUp(h, EntryCounts', UrlsetsRead') /\ Entries' = h[UrlsetsRead']
    BY <2>1, EntriesCountNext DEF EntriesCounted
  <2> QED
    BY <1>2, <2>2 DEF SumsUp
<1>6. ToSet(sitemaps') = {} /\ ToSet(listed') = {}
  BY <1>1 DEF ToSet
<1> QED
  BY <1>1, <1>2, <1>3, <1>4, <1>5, <1>6, SitemapAssumption DEF SearchInv, ListedInv

\* What a step leaves alone that reads no sitemap.
LEMMA NothingRead ==
    ASSUME TypeOK, TypeOK', AskedInv, AskedInv', web' = web, seen' = seen
    PROVE  SitemapsRead' = SitemapsRead /\ UrlsetsRead' = UrlsetsRead /\ Entries' = Entries
<1>1. SitemapsRead' = SitemapsRead /\ IsFiniteSet(UrlsetsRead)
  BY ReadIsSeen, ReadIsSeenNext DEF SeenIsRead
<1>2. UrlsetsRead' = UrlsetsRead
  BY <1>1 DEF UrlsetsRead
<1> DEFINE N == {}
<1>3. N \in SUBSET Urls /\ IsFiniteSet(N) /\ N \cap UrlsetsRead = {} /\ N = {}
      /\ UrlsetsRead' = UrlsetsRead \cup N
  BY <1>2, FS_EmptySet
<1> HIDE DEF N
<1>4. Entries' = Entries
  BY <1>1, <1>3, EntriesGrow DEF TypeOK
<1> QED
  BY <1>1, <1>2, <1>4

\* A robots.txt names sitemaps; those of the frontier are queued.
LEMMA SearchRobots ==
    ASSUME TypeOK, TypeOK', AskedInv, AskedInv', web' = web, SearchInv, ReadRobots
    PROVE  SearchInv'
<1> DEFINE named == web.robots[root]
<1>1. /\ reading = "robots" /\ sitemaps = <<>> /\ sitemaps' = Enqueued(named)
      /\ events' = events \cup Rejections(named) /\ reading' = "queue"
      /\ UNCHANGED <<root, seen, fetched, inspected, listed>>
  BY DEF ReadRobots, SearchInv
<1>2. named \in Seq(Urls) /\ root \in DOMAIN Roots
  BY WebFacts DEF TypeOK, SitemapTypeOK, WebType
<1>3. ToSet(sitemaps') = ToSet(named) \cap Frontier /\ ToSet(sitemaps) = {}
  <2>1. ToSet(Selected(named, Frontier)) = ToSet(named) \cap Frontier
    BY <1>2, SelectedMembers
  <2> QED
    BY <1>1, <2>1 DEF Enqueued, ToSet
<1>4. SitemapsRead' = SitemapsRead /\ UrlsetsRead' = UrlsetsRead /\ Entries' = Entries
  BY <1>1, NothingRead
<1>5. NamedSoFar' = NamedSoFar \cup ToSet(named)
  <2>1. RootsRead' = RootsRead \cup {root}
    BY <1>1, <1>2 DEF RootsRead
  <2> QED
    BY <1>4, <2>1 DEF NamedSoFar
<1>6. /\ Reported("traversal_limit_reached")' = Reported("traversal_limit_reached")
      /\ Reported("url_entry_limit_reached")' = Reported("url_entry_limit_reached")
      /\ Reported("frontier_rejected")' = Reported("frontier_rejected") \cup (ToSet(named) \ Frontier)
  BY <1>1, RejectionsReported
<1> HIDE DEF named
<1> QED
  BY <1>1, <1>3, <1>4, <1>5, <1>6 DEF SearchInv, DocumentsOf

\* The next root.
LEMMA SearchNextRoot ==
    ASSUME TypeOK, TypeOK', AskedInv, AskedInv', web' = web, SearchInv, NextRoot
    PROVE  SearchInv'
<1>1. /\ reading = "queue" /\ sitemaps = <<>> /\ root' = root + 1 /\ reading' = "robots"
      /\ UNCHANGED <<sitemaps, seen, fetched, inspected, listed, events>> /\ root \in Nat
  <2>0. DOMAIN Roots \subseteq Nat
    BY WebAssumption
  <2>1. root \in Nat
    BY <2>0 DEF TypeOK, SitemapTypeOK
  <2> QED
    BY <2>1 DEF NextRoot
<1>2. SitemapsRead' = SitemapsRead /\ UrlsetsRead' = UrlsetsRead /\ Entries' = Entries
  BY <1>1, NothingRead
<1>3. NamedSoFar' = NamedSoFar
  <2>1. RootsRead' = RootsRead
    <3>1. DOMAIN Roots \subseteq Nat
      BY WebAssumption
    <3> QED
      BY <1>1, <3>1 DEF RootsRead
  <2> QED
    BY <1>2, <2>1 DEF NamedSoFar
<1> QED
  BY <1>1, <1>2, <1>3 DEF SearchInv, DocumentsOf, Reported

\* Past the limit of files a sitemap is reported, and before it one that was read before
\* is passed over.
LEMMA SearchPasses ==
    ASSUME TypeOK, TypeOK', AskedInv, AskedInv', web' = web, SearchInv, SkipForLimit \/ SkipSeen
    PROVE  SearchInv'
<1>1. /\ reading = "queue" /\ sitemaps # <<>> /\ sitemaps' = Tail(sitemaps) /\ sitemaps \in Seq(Frontier)
      /\ UNCHANGED <<reading, root, seen, inspected, listed>>
  BY DEF SkipForLimit, SkipSeen, AtSitemap, LeaveOut, TypeOK, SitemapTypeOK
<1>2. SitemapsRead' = SitemapsRead /\ UrlsetsRead' = UrlsetsRead /\ Entries' = Entries
      /\ SitemapsRead = seen
  BY <1>1, NothingRead, ReadIsSeen DEF SeenIsRead
<1>3. NamedSoFar' = NamedSoFar
  BY <1>1, <1>2 DEF NamedSoFar, RootsRead
<1>4. ToSet(sitemaps) = ToSet(sitemaps') \cup {Head(sitemaps)}
  BY <1>1, TailMembers
<1>5. CASE SkipForLimit
  <2>1. fetched = MaxSitemapFiles /\ fetched' = fetched
        /\ events' = events \cup {Event("traversal_limit_reached", Head(sitemaps))}
    BY <1>5, SitemapAssumption DEF SkipForLimit, FileLimitReached, LeaveOut, TypeOK, SitemapTypeOK
  <2>2. /\ Reported("traversal_limit_reached")' = Reported("traversal_limit_reached") \cup {Head(sitemaps)}
        /\ Reported("url_entry_limit_reached")' = Reported("url_entry_limit_reached")
        /\ Reported("frontier_rejected")' = Reported("frontier_rejected")
    <3> DEFINE E == {Event("traversal_limit_reached", Head(sitemaps))}
    <3>1. /\ \A x \in E: x.type = "traversal_limit_reached"
          /\ {e.url: e \in E} = {Head(sitemaps)}
      BY DEF Event
    <3>2. /\ "url_entry_limit_reached" # "traversal_limit_reached"
          /\ "frontier_rejected" # "traversal_limit_reached"
      OBVIOUS
    <3> QED
      BY <2>1, <3>1, <3>2, ReportedMore
  <2> QED
    BY <1>1, <1>2, <1>3, <1>4, <2>1, <2>2 DEF SearchInv, DocumentsOf
<1>6. CASE SkipSeen
  <2>1. fetched < MaxSitemapFiles /\ Head(sitemaps) \in seen /\ events' = events
    BY <1>6, SitemapAssumption DEF SkipSeen, FileLimitReached, TypeOK, SitemapTypeOK
  <2>2. \A t: Reported(t)' = Reported(t)
    BY <2>1 DEF Reported
  <2>3. Reported("traversal_limit_reached") = {}
    BY <2>1, SitemapAssumption DEF SearchInv, TypeOK, SitemapTypeOK
  <2> QED
    BY <1>1, <1>2, <1>3, <1>4, <2>1, <2>2, <2>3 DEF SearchInv, DocumentsOf
<1> QED
  BY <1>5, <1>6

\* An index names sitemaps as a robots.txt does; what is neither index nor urlset names none.
LEMMA SearchIndex ==
    ASSUME TypeOK, TypeOK', AskedInv, AskedInv', web' = web, SearchInv, ReadIndex \/ ReadOther
    PROVE  SearchInv'
<1>w. WebType(web)
  BY WebFacts DEF TypeOK
<1>1. PICK u \in Urls, named \in Seq(Urls):
          /\ RequestSitemap(u) /\ u \notin DOMAIN web.urlsets
          /\ sitemaps' = Tail(sitemaps) \o Enqueued(named)
          /\ events' = events \cup Rejections(named)
          /\ ToSet(named) = IF u \in DOMAIN web.indexes THEN ToSet(web.indexes[u]) ELSE {}
          /\ UNCHANGED <<reading, root, inspected, listed>>
  <2>1. CASE ReadIndex
    <3>1. PICK u \in DOMAIN web.indexes:
              /\ RequestSitemap(u)
              /\ sitemaps' = Tail(sitemaps) \o Enqueued(web.indexes[u])
              /\ events' = events \cup Rejections(web.indexes[u])
              /\ UNCHANGED <<reading, root, inspected, listed>>
      BY <2>1 DEF ReadIndex
    <3>2. u \in Urls /\ u \notin DOMAIN web.urlsets /\ web.indexes[u] \in Seq(Urls)
      BY <1>w DEF WebType
    <3> QED
      BY <3>1, <3>2
  <2>2. CASE ReadOther
    <3>1. PICK u \in Urls \ (DOMAIN web.indexes \cup DOMAIN web.urlsets):
              /\ RequestSitemap(u) /\ sitemaps' = Tail(sitemaps)
              /\ UNCHANGED <<reading, root, inspected, listed, events>>
      BY <2>2 DEF ReadOther
    <3>2. sitemaps \in Seq(Frontier) /\ sitemaps # <<>>
      BY <3>1 DEF RequestSitemap, AtSitemap, TypeOK, SitemapTypeOK
    <3> DEFINE none == <<>>
    <3>3. ToSet(none) = {} /\ none \in Seq(Urls) /\ Rejections(none) = {}
      BY DEF ToSet, Rejections
    <3>4. Enqueued(none) \in Seq(Frontier \cap {})
      BY <3>3, SelectedType DEF Enqueued
    <3>5. Enqueued(none) = <<>>
      BY <3>4
    <3>6. Tail(sitemaps) \o Enqueued(none) = Tail(sitemaps)
      <4>1. Tail(sitemaps) \in Seq(Frontier)
        BY <3>2, TailFacts
      <4> QED
        BY <3>5, <4>1
    <3> HIDE DEF none
    <3> QED
      BY <3>1, <3>3, <3>6
  <2> QED
    BY <2>1, <2>2
<1>2. /\ SitemapsRead' = SitemapsRead \cup {u} /\ u \in Frontier
      /\ Reported("traversal_limit_reached") = {} /\ reading = "queue"
      /\ Tail(sitemaps) \in Seq(Frontier)
      /\ ToSet(sitemaps) = ToSet(Tail(sitemaps)) \cup {u}
      /\ UrlsetsRead' = UrlsetsRead /\ Entries' = Entries
  BY <1>1, Requested
<1>3. ToSet(sitemaps') = ToSet(Tail(sitemaps)) \cup (ToSet(named) \cap Frontier)
  <2>1. Enqueued(named) \in Seq(Frontier)
    BY EnqueuedType
  <2>2. ToSet(Enqueued(named)) = ToSet(named) \cap Frontier
    BY SelectedMembers DEF Enqueued
  <2> DEFINE front == Tail(sitemaps)
             back == Enqueued(named)
  <2>3. front \in Seq(Frontier) /\ back \in Seq(Frontier) /\ sitemaps' = front \o back
    BY <1>1, <1>2, <2>1
  <2>4. ToSet(back) = ToSet(named) \cap Frontier
    BY <2>2
  <2> HIDE DEF front, back
  <2>5. ToSet(front \o back) = ToSet(front) \cup ToSet(back)
    BY <2>3, ConcatMembers
  <2> QED
    BY <2>3, <2>4, <2>5 DEF front
<1>4. NamedSoFar' = NamedSoFar \cup ToSet(named)
  <2>1. RootsRead' = RootsRead
    BY <1>1 DEF RootsRead
  <2>2. CASE u \in DOMAIN web.indexes
    BY <1>1, <1>2, <2>1, <2>2 DEF NamedSoFar
  <2>3. CASE u \notin DOMAIN web.indexes
    <3>1. SitemapsRead' \cap DOMAIN web.indexes = SitemapsRead \cap DOMAIN web.indexes
      BY <1>2, <2>3
    <3> QED
      BY <1>1, <2>1, <2>3, <3>1 DEF NamedSoFar
  <2> QED
    BY <2>2, <2>3
<1>5. /\ Reported("traversal_limit_reached")' = Reported("traversal_limit_reached")
      /\ Reported("url_entry_limit_reached")' = Reported("url_entry_limit_reached")
      /\ Reported("frontier_rejected")' = Reported("frontier_rejected") \cup (ToSet(named) \ Frontier)
  BY <1>1, RejectionsReported
<1> QED
  BY <1>1, <1>2, <1>3, <1>4, <1>5 DEF SearchInv, DocumentsOf

\* The entries of a urlset that are reported: those there is no room for, each by its URL
\* if it has one.
LEMMA EntriesReported ==
    ASSUME NEW locs, NEW u, events' = events \cup EntryEvents(locs, u)
    PROVE  /\ Reported("traversal_limit_reached")' = Reported("traversal_limit_reached")
           /\ Reported("frontier_rejected")' = Reported("frontier_rejected")
           /\ Reported("url_entry_limit_reached")' =
                 Reported("url_entry_limit_reached")
                 \cup {UrlOr(locs[i], u): i \in Room(locs) + 1 .. Len(locs)}
<1> DEFINE I == Room(locs) + 1 .. Len(locs)
           K == {k \in 1 .. Room(locs): locs[k] = NoLoc}
           A == {Event("malformed_entry", u): i \in K}
           B == {Event("url_entry_limit_reached", UrlOr(locs[i], u)): i \in I}
           R == {UrlOr(locs[i], u): i \in I}
<1>1. events' = events \cup A \cup B
  BY DEF EntryEvents
<1>2. \A x \in A: x.type = "malformed_entry"
  BY DEF Event
<1>3. \A x \in B: x.type = "url_entry_limit_reached" /\ x.url \in R
  BY DEF Event
<1>4. \A r \in R: \E x \in B: x.url = r
  <2> SUFFICES ASSUME NEW i \in I PROVE \E x \in B: x.url = UrlOr(locs[i], u)
    OBVIOUS
  <2> WITNESS Event("url_entry_limit_reached", UrlOr(locs[i], u)) \in B
  <2> QED
    BY DEF Event
<1> HIDE DEF A, B, R
<1>5. \A t: t # "malformed_entry" /\ t # "url_entry_limit_reached" => Reported(t)' = Reported(t)
  BY <1>1, <1>2, <1>3 DEF Reported
<1>6. Reported("url_entry_limit_reached")' = Reported("url_entry_limit_reached") \cup R
  <2>1. Reported("url_entry_limit_reached")' \subseteq Reported("url_entry_limit_reached") \cup R
    BY <1>1, <1>2, <1>3 DEF Reported
  <2>2. Reported("url_entry_limit_reached") \subseteq Reported("url_entry_limit_reached")'
    BY <1>1 DEF Reported
  <2>3. R \subseteq Reported("url_entry_limit_reached")'
    BY <1>1, <1>3, <1>4 DEF Reported
  <2> QED
    BY <2>1, <2>2, <2>3
<1> QED
  BY <1>5, <1>6 DEF R

\* A urlset adds its entries: as many as there is room for are inspected, the documents
\* among them are listed, and the others are reported.
LEMMA SearchUrlset ==
    ASSUME TypeOK, TypeOK', AskedInv, AskedInv', web' = web, SearchInv, ReadUrlset
    PROVE  /\ SearchInv'
           /\ ListedInv => ListedInv'
<1>w. WebType(web)
  BY WebFacts DEF TypeOK
<1>1. PICK u \in DOMAIN web.urlsets:
          /\ RequestSitemap(u)
          /\ inspected' = inspected + Room(web.urlsets[u])
          /\ listed' = listed \o DocumentsAmong(SubSeq(web.urlsets[u], 1, Room(web.urlsets[u])))
          /\ events' = events \cup EntryEvents(web.urlsets[u], u)
          /\ sitemaps' = Tail(sitemaps)
          /\ UNCHANGED <<reading, root>>
  BY DEF ReadUrlset
<1> DEFINE locs == web.urlsets[u]
           n == Room(locs)
           within == SubSeq(locs, 1, n)
           beyond == {UrlOr(locs[i], u): i \in n + 1 .. Len(locs)}
<1>2. u \in Urls /\ u \notin DOMAIN web.indexes /\ locs \in Seq(Urls \cup {NoLoc})
  BY <1>w DEF WebType
<1>3. /\ SitemapsRead' = SitemapsRead \cup {u} /\ u \in Frontier
      /\ Reported("traversal_limit_reached") = {} /\ reading = "queue"
      /\ ToSet(sitemaps) = ToSet(Tail(sitemaps)) \cup {u}
      /\ UrlsetsRead' = UrlsetsRead \cup {u} /\ Entries' = Entries + Len(locs)
      /\ Entries \in Nat /\ Len(locs) \in Nat
  BY <1>1, <1>2, Requested DEF EntriesOf
<1>4. NamedSoFar' = NamedSoFar
  <2>1. RootsRead' = RootsRead
    BY <1>1 DEF RootsRead
  <2>2. SitemapsRead' \cap DOMAIN web.indexes = SitemapsRead \cap DOMAIN web.indexes
    BY <1>2, <1>3
  <2> QED
    BY <2>1, <2>2 DEF NamedSoFar
<1>5. /\ Reported("traversal_limit_reached")' = Reported("traversal_limit_reached")
      /\ Reported("frontier_rejected")' = Reported("frontier_rejected")
      /\ Reported("url_entry_limit_reached")' = Reported("url_entry_limit_reached") \cup beyond
  <2> HIDE DEF locs
  <2>1. events' = events \cup EntryEvents(locs, u)
    BY <1>1 DEF locs
  <2> QED
    BY <2>1, EntriesReported
<1> DEFINE counted == IF Entries < MaxUrlEntries THEN Entries ELSE MaxUrlEntries
<1>6. /\ inspected = counted /\ MaxUrlEntries \in Nat
      /\ n = IF Len(locs) <= MaxUrlEntries - inspected THEN Len(locs) ELSE MaxUrlEntries - inspected
  BY SitemapAssumption DEF SearchInv, Room
<1>7. n \in 0 .. Len(locs)
  <2> HIDE DEF n, locs
  <2>1. inspected \in Nat /\ inspected <= MaxUrlEntries
    BY <1>3, <1>6
  <2> QED
    BY <1>3, <1>6, <2>1
<1>8. inspected' = IF Entries' < MaxUrlEntries THEN Entries' ELSE MaxUrlEntries
  <2> HIDE DEF locs
  <2>1. inspected' = inspected + n
    BY <1>1 DEF locs
  <2> DEFINE more == Len(locs)
             entries == Entries
             entriesNext == Entries'
  <2>2. /\ entries \in Nat /\ more \in Nat /\ MaxUrlEntries \in Nat /\ entriesNext = entries + more
        /\ inspected = IF entries < MaxUrlEntries THEN entries ELSE MaxUrlEntries
        /\ n = IF more <= MaxUrlEntries - inspected THEN more ELSE MaxUrlEntries - inspected
    BY <1>3, <1>6
  <2> HIDE DEF n, more, entries, entriesNext
  <2>3. inspected' = IF entriesNext < MaxUrlEntries THEN entriesNext ELSE MaxUrlEntries
    BY <2>1, <2>2
  <2> QED
    BY <2>3 DEF entriesNext
<1>9. beyond # {} <=> n < Len(locs)
  <2>1. n \in Nat
    BY <1>3, <1>7
  <2> HIDE DEF n, locs
  <2>2. beyond # {} => n + 1 .. Len(locs) # {}
    OBVIOUS
  <2>3. n < Len(locs) => n + 1 \in n + 1 .. Len(locs)
    BY <1>3, <2>1
  <2>4. n < Len(locs) => UrlOr(locs[n + 1], u) \in beyond
    BY <2>3
  <2> QED
    BY <1>3, <2>1, <2>2, <2>4
<1>10. Reported("url_entry_limit_reached")' # {} <=> Entries' > MaxUrlEntries
  <2>1. Reported("url_entry_limit_reached") # {} <=> Entries > MaxUrlEntries
    BY DEF SearchInv
  <2>2. n < Len(locs) => Entries' > MaxUrlEntries
    <3> HIDE DEF n, locs
    <3> QED
      BY <1>3, <1>6
  <2>3. Entries > MaxUrlEntries => Entries' > MaxUrlEntries
    <3> HIDE DEF locs
    <3> QED
      BY <1>3, <1>6
  <2>4. Entries' > MaxUrlEntries => Entries > MaxUrlEntries \/ n < Len(locs)
    <3> HIDE DEF n, locs
    <3> QED
      BY <1>3, <1>6
  <2> HIDE DEF beyond, n, locs
  <2> QED
    BY <1>5, <1>9, <2>1, <2>2, <2>3, <2>4
<1>11. /\ within \in Seq(Urls \cup {NoLoc}) /\ ToSet(within) \subseteq ToSet(locs)
       /\ \A i \in DOMAIN locs: locs[i] \in ToSet(within) \/ i \in n + 1 .. Len(locs)
  <2> HIDE DEF n, locs
  <2> QED
    BY <1>2, <1>7, PrefixMembers
<1>12. ToSet(listed') = ToSet(listed) \cup (ToSet(within) \cap Documents)
  <2>1. DocumentsAmong(within) \in Seq(Documents) /\ listed \in Seq(Documents)
    <3>1. DocumentsAmong(within) \in Seq(Documents \cap ToSet(within))
      <4> HIDE DEF within
      <4> QED
        BY <1>11, SelectedType DEF DocumentsAmong
    <3>2. DocumentsAmong(within) \in Seq(Documents)
      <4> DEFINE chosen == DocumentsAmong(within)
      <4>1. chosen \in Seq(Documents \cap ToSet(within))
        BY <3>1
      <4> HIDE DEF chosen
      <4>2. chosen \in Seq(Documents)
        BY <4>1
      <4> QED
        BY <4>2 DEF chosen
    <3> QED
      BY <3>2 DEF TypeOK, SitemapTypeOK
  <2>2. ToSet(DocumentsAmong(within)) = ToSet(within) \cap Documents
    <3> HIDE DEF within
    <3> QED
      BY <1>11, SelectedMembers DEF DocumentsAmong
  <2>3. listed' = listed \o DocumentsAmong(within)
    BY <1>1
  <2> DEFINE back == DocumentsAmong(within)
  <2>4. back \in Seq(Documents) /\ ToSet(back) = ToSet(within) \cap Documents /\ listed' = listed \o back
    BY <2>1, <2>2, <2>3
  <2> HIDE DEF back, within
  <2>5. ToSet(listed \o back) = ToSet(listed) \cup ToSet(back)
    BY <2>1, <2>4, ConcatMembers
  <2> QED
    BY <2>4, <2>5
<1>13. \A v: DocumentsOf(v)' = DocumentsOf(v)
  BY DEF DocumentsOf
<1>14. DocumentsOf(u) = ToSet(locs) \cap Documents
  BY DEF DocumentsOf
<1>15. ASSUME NEW d \in DocumentsOf(u) PROVE d \in ToSet(listed') \cup Reported("url_entry_limit_reached")'
  <2>1. d \in ToSet(locs) /\ d \in Documents /\ d # NoLoc
    BY <1>14, SitemapAssumption, WebAssumption
  <2>2. PICK i \in DOMAIN locs: locs[i] = d
    BY <2>1 DEF ToSet
  <2>3. CASE d \in ToSet(within)
    BY <1>12, <2>1, <2>3
  <2>4. CASE i \in n + 1 .. Len(locs)
    <3>1. UrlOr(locs[i], u) = d
      BY <2>1, <2>2 DEF UrlOr
    <3>2. d \in beyond
      BY <2>4, <3>1
    <3> QED
      BY <1>5, <3>2
  <2> QED
    BY <1>11, <2>2, <2>3, <2>4
<1>16. ASSUME NEW v \in UrlsetsRead
       PROVE  DocumentsOf(v) \subseteq ToSet(listed') \cup Reported("url_entry_limit_reached")'
  <2>1. DocumentsOf(v) \subseteq ToSet(listed) \cup Reported("url_entry_limit_reached")
    BY DEF SearchInv
  <2> HIDE DEF beyond, within
  <2> QED
    BY <1>5, <1>12, <2>1
<1>17. ListedInv => ListedInv'
  <2> HIDE DEF within, locs
  <2> QED
    BY <1>3, <1>11, <1>12, <1>13, <1>14 DEF ListedInv
<1> HIDE DEF beyond, within, locs, n
<1>18. NamedSoFar' \cap Frontier =
          SitemapsRead' \cup Reported("traversal_limit_reached")' \cup ToSet(sitemaps')
  BY <1>1, <1>3, <1>4, <1>5 DEF SearchInv
<1>19. NamedSoFar' \ Frontier = Reported("frontier_rejected")'
  BY <1>4, <1>5 DEF SearchInv
<1>20. \A v \in UrlsetsRead': DocumentsOf(v)' \subseteq ToSet(listed') \cup Reported("url_entry_limit_reached")'
  BY <1>3, <1>13, <1>15, <1>16
<1> QED
  BY <1>1, <1>3, <1>5, <1>8, <1>10, <1>17, <1>18, <1>19, <1>20 DEF SearchInv

\* What a step leaves alone that is not of the search.
LEMMA SearchKept ==
    ASSUME TypeOK, TypeOK', AskedInv, AskedInv', UNCHANGED <<web, sitemapVars>>
    PROVE  /\ SearchInv => SearchInv'
           /\ ListedInv => ListedInv'
           /\ SitemapsDone' = SitemapsDone
<1>1. /\ UNCHANGED <<web, reading, root, sitemaps, seen, fetched, inspected, listed, events>>
      /\ SitemapsRead' = SitemapsRead /\ UrlsetsRead' = UrlsetsRead /\ Entries' = Entries
  BY NothingRead DEF sitemapVars
<1> QED
  BY <1>1 DEF SearchInv, ListedInv, NamedSoFar, RootsRead, Reported, DocumentsOf, SitemapsDone

\* What was listed comes from what was read, also when more is read.
LEMMA ListedKept ==
    ASSUME web' = web, ListedInv, listed' = listed, SitemapsRead \subseteq SitemapsRead'
    PROVE  ListedInv'
BY DEF ListedInv, UrlsetsRead, DocumentsOf

\* The search is exact so far while it runs, and still when it has come to its end.
SitemapInv == ListedInv /\ (pc = "sitemap" \/ SitemapsDone => SearchInv)

\* Every step keeps it; one that fails or raises leaves the search before its end.
LEMMA SitemapKept ==
    ASSUME TypeOK, TypeOK', AskedInv, AskedInv', SitemapInv, [Next]_vars
    PROVE  SitemapInv'
<1>1. CASE UNCHANGED <<web, sitemapVars>> /\ (pc' = "sitemap" => pc = "sitemap")
  BY <1>1, SearchKept DEF SitemapInv
<1>2. CASE StartSitemaps
  BY <1>2, SearchBegins DEF StartSitemaps, SitemapInv
<1>3. CASE SearchSitemaps
  <2>0. web' = web /\ SearchInv /\ ListedInv /\ SitemapStep
    BY <1>3 DEF SearchSitemaps, SitemapInv
  <2>1. SearchInv'
    BY <2>0, SearchRobots, SearchNextRoot, SearchPasses, SearchIndex, SearchUrlset DEF SitemapStep
  <2>2. CASE ReadUrlset
    BY <2>0, <2>1, <2>2, SearchUrlset DEF SitemapInv
  <2>3. CASE ~ReadUrlset
    <3>1. listed' = listed
      BY <2>0, <2>3 DEF SitemapStep, ReadRobots, NextRoot, SkipForLimit, SkipSeen, ReadIndex, ReadOther
    <3>2. SitemapsRead \subseteq SitemapsRead'
      <4>1. seen \subseteq seen'
        BY <2>0, <2>3 DEF SitemapStep, ReadRobots, NextRoot, SkipForLimit, SkipSeen, ReadIndex,
                          ReadOther, RequestSitemap, Remember
      <4> QED
        BY <4>1, ReadIsSeen, ReadIsSeenNext DEF SeenIsRead
    <3> QED
      BY <2>0, <2>1, <3>1, <3>2, ListedKept DEF SitemapInv
  <2> QED
    BY <2>2, <2>3
<1>4. CASE SitemapsFail
  <2>1. pc' # "sitemap" /\ web' = web /\ SitemapFails
    BY <1>4 DEF SitemapsFail, Failed, Found
  <2>2. ~SitemapsDone'
    BY <2>1 DEF SitemapFails, SitemapsDone, RequestSitemap, AtSitemap, sitemapVars
  <2>3. listed' = listed /\ seen \subseteq seen'
    BY <2>1 DEF SitemapFails, RequestSitemap, Remember, sitemapVars
  <2>4. SitemapsRead \subseteq SitemapsRead'
    BY <2>3, ReadIsSeen, ReadIsSeenNext DEF SeenIsRead
  <2> QED
    BY <2>1, <2>2, <2>3, <2>4, ListedKept DEF SitemapInv
<1>5. Discover =>
          \/ UNCHANGED <<web, sitemapVars>> /\ (pc' = "sitemap" => pc = "sitemap")
          \/ StartSitemaps \/ SearchSitemaps \/ SitemapsFail
  BY DEF Discover, SearchSource, SourceFails, SourceRaises, SitemapsEnd, SitemapsRaise,
         SitemapRaises,
         StartExpansion, ExpandLinks, ExpansionEnds, ExpansionFails, ExpansionError,
         AddCandidate, AddRaises, Yield, Found, Failed, Raise
<1> QED
  BY <1>1, <1>2, <1>3, <1>4, <1>5 DEF Next, Finished, vars

\* At the end of the search every root was read.
LEMMA SitemapImplies == TypeOK /\ FrontierKept /\ SitemapInv => SitemapExact
<1> SUFFICES ASSUME TypeOK, SitemapInv, SitemapsDone PROVE NothingLostSilently
  BY DEF SitemapExact, SitemapInv, ListedInv, NothingLostSilently
<1>1. SearchInv /\ reading = "queue" /\ sitemaps = <<>> /\ root = Len(Roots)
  BY DEF SitemapInv, SitemapsDone
<1>2. NamedSoFar = Named
  <2>1. RootsRead = DOMAIN Roots
    BY <1>1, WebAssumption DEF RootsRead
  <2> QED
    BY <2>1 DEF NamedSoFar, Named
<1>3. ToSet(sitemaps) = {}
  BY <1>1 DEF ToSet
<1> QED
  BY <1>1, <1>2, <1>3 DEF SearchInv, NothingLostSilently

\* On every web and for any limits: what the search of the sitemaps lists comes from
\* urlsets it read, and when the search ends, every sitemap that was named and every entry
\* was read or is reported, those past a limit only once the limit is used up.
THEOREM SitemapIsExact == Spec => []SitemapExact
<1>1. Init => SitemapInv
  BY WebAssumption DEF Init, SitemapInit, SitemapInv, ListedInv, SitemapsDone, ToSet
<1>2. Init => AskedInv
  BY SitemapAssumption, FS_EmptySet DEF Init, SitemapInit, AskedInv
<1>3. Spec => []AskedInv
  BY <1>2, AskedStep, TypesHold, PTL DEF Spec
<1>4. TypeOK /\ TypeOK' /\ AskedInv /\ AskedInv' /\ SitemapInv /\ [Next]_vars => SitemapInv'
  BY SitemapKept
<1>5. Spec => []SitemapInv
  BY <1>1, <1>3, <1>4, TypesHold, PTL DEF Spec
<1> QED
  BY <1>3, <1>5, SitemapImplies, SitemapsAskedOnce, TypesHold, PTL

(***************************************************************************)
(* An expansion offers nothing and asks for nothing twice                   *)
(***************************************************************************)
\* No two of the merged candidates have the same canonical URL.
LEMMA ValuesDiffer ==
    ASSUME TypeOK, FindsReadable, MergeKeepsBest, NEW a \in DOMAIN Values, NEW b \in DOMAIN Values,
           a # b
    PROVE  CanonicalOrRaw(Values[a]) # CanonicalOrRaw(Values[b])
<1>1. order \in Seq(Urls) /\ DOMAIN Values = DOMAIN order /\ a \in Nat /\ b \in Nat
  BY DEF TypeOK, Values
<1>2. ASSUME NEW x \in DOMAIN order
      PROVE  CanonicalOrRaw(Values[x]) = order[x] /\ order[x] \in DOMAIN table
  <2>1. order[x] \in DOMAIN table
    <3>1. order[x] \in ToSet(order)
      BY DEF ToSet
    <3> QED
      BY <3>1 DEF MergeKeepsBest, NothingDropped
  <2>2. table[order[x]].best \in FindsOf(order[x])
    BY <2>1 DEF MergeKeepsBest, BestOf
  <2>3. Values[x] = Cand(table[order[x]].best).url
    BY DEF Values
  <2> QED
    BY <2>1, <2>2, <2>3 DEF FindsOf, Key, CanonicalOrRaw, FindsReadable
<1>3. ASSUME NEW m \in DOMAIN order, NEW n \in DOMAIN order, m < n PROVE order[m] # order[n]
  <2>1. PICK i \in FindsOf(order[m]): \A k \in FindsOf(order[n]): i < k
    BY <1>3 DEF MergeKeepsBest, InOrderOfArrival
  <2>2. i \in Nat
    BY MergeTypes, FindFacts
  <2> QED
    BY <2>1, <2>2
<1>4. a < b \/ b < a
  BY <1>1
<1>5. order[a] # order[b]
  BY <1>1, <1>3, <1>4
<1> QED
  BY <1>1, <1>2, <1>5

Offered == ToSet(existing) \cup {expanded[i].url: i \in DOMAIN expanded}

\* What is known is what is offered; every page that is queued or visited is known.
KnownInv ==
    /\ known = {CanonicalOrRaw(u): u \in Offered}
    /\ visited \subseteq known
    /\ \A i \in DOMAIN pages: CanonicalOrRaw(pages[i].url) \in known
    /\ links # <<>> => page.url \in opened /\ links \in Seq(ToSet(Anchors(page.url)))
    /\ CandidatesNew
    /\ PagesOnce

\* It holds when an expansion begins, and every step keeps it.
LEMMA KnownBegin ==
    ASSUME TypeOK, FindsReadable, MergeKeepsBest, BeginExpansion(Values)
    PROVE  KnownInv'
<1>1. Values \in Seq(Urls)
  BY MergeTypes, ValuesType
<1>2. Landing(Values) \in Seq((Urls \ Pdfs) \cap ToSet(Values))
  BY <1>1, SelectedType DEF Landing
<1>3. /\ existing' = Values /\ known' = {CanonicalOrRaw(u): u \in ToSet(Values)}
      /\ visited' = {} /\ expanded' = <<>> /\ links' = <<>>
      /\ pages' = [i \in DOMAIN Landing(Values) |-> Queued(Landing(Values)[i])]
  BY DEF BeginExpansion
<1>4. DOMAIN pages' = DOMAIN Landing(Values) /\ DOMAIN pages' \subseteq Nat
  BY <1>2, <1>3
<1>5. ASSUME NEW i \in DOMAIN pages'
      PROVE  pages'[i].url = Landing(Values)[i] /\ Landing(Values)[i] \in ToSet(Values)
  BY <1>2, <1>3, <1>4 DEF Queued
<1>6. Offered' = ToSet(Values)
  BY <1>3 DEF Offered, ToSet
<1>7. ASSUME NEW i \in DOMAIN pages', NEW k \in DOMAIN pages', k # i
      PROVE  CanonicalOrRaw(pages'[i].url) # CanonicalOrRaw(pages'[k].url)
  <2>1. PICK a \in DOMAIN Values, b \in DOMAIN Values:
           a # b /\ Landing(Values)[i] = Values[a] /\ Landing(Values)[k] = Values[b]
    BY <1>1, <1>4, <1>7, SelectedPlaces DEF Landing
  <2> QED
    BY <1>5, <2>1, ValuesDiffer
<1>8. PagesOnce'
  <2> SUFFICES ASSUME NEW i \in DOMAIN pages', NEW k \in 1 .. i - 1
               PROVE  CanonicalOrRaw(pages'[i].url) # CanonicalOrRaw(pages'[k].url)
    BY <1>3 DEF PagesOnce
  <2>1. k \in DOMAIN pages' /\ k # i
    BY <1>2, <1>4
  <2> QED
    BY <1>7, <2>1
<1>9. CandidatesNew'
  BY <1>3 DEF CandidatesNew
<1> QED
  BY <1>3, <1>5, <1>6, <1>8, <1>9 DEF KnownInv

LEMMA KnownTakePage ==
    ASSUME web \in Webs, web' = web, ExpansionTypeOK, KnownInv, PageArrives \/ PageRefused
    PROVE  KnownInv'
<1>1. /\ AtPage /\ page' = Head(pages) /\ pages' = Tail(pages)
      /\ visited' = visited \cup {CanonicalOrRaw(page'.url)}
      /\ existing' = existing /\ known' = known /\ expanded' = expanded
      /\ opened \subseteq opened'
  BY DEF PageArrives, PageRefused, TakePage
<1>2. /\ pages \in Seq(Pages) /\ Len(pages) \in Nat /\ 1 \in DOMAIN pages /\ page' = pages[1]
      /\ DOMAIN pages = 1 .. Len(pages) /\ DOMAIN pages' = 1 .. Len(pages) - 1
      /\ \A i \in DOMAIN pages': i + 1 \in DOMAIN pages /\ pages'[i] = pages[i + 1]
  BY <1>1 DEF ExpansionTypeOK, AtPage
<1>3. Offered' = Offered
  BY <1>1 DEF Offered, ToSet
<1>4. PagesOnce'
  <2> SUFFICES ASSUME NEW i \in DOMAIN pages',
                      NEW u \in visited' \cup {CanonicalOrRaw(pages'[k].url): k \in 1 .. i - 1}
               PROVE  CanonicalOrRaw(pages'[i].url) # u
    BY DEF PagesOnce
  <2>1. u \in visited \cup {CanonicalOrRaw(pages[k].url): k \in 1 .. i}
    <3>1. CASE u \in visited
      BY <3>1
    <3>2. CASE u = CanonicalOrRaw(page'.url)
      BY <1>2, <3>2
    <3>3. CASE u \in {CanonicalOrRaw(pages'[k].url): k \in 1 .. i - 1}
      <4>1. PICK k \in 1 .. i - 1: u = CanonicalOrRaw(pages'[k].url)
        BY <3>3
      <4>2. k + 1 \in 1 .. i /\ k \in DOMAIN pages'
        BY <1>2
      <4> QED
        BY <1>2, <4>1, <4>2
    <3> QED
      BY <1>1, <3>1, <3>2, <3>3
  <2>2. i + 1 \in DOMAIN pages /\ pages'[i] = pages[i + 1] /\ i \in Nat
    BY <1>2
  <2>3. u \in visited \cup {CanonicalOrRaw(pages[k].url): k \in 1 .. (i + 1) - 1}
    BY <2>1, <2>2
  <2> QED
    BY <2>2, <2>3 DEF KnownInv, PagesOnce
<1>5. CandidatesNew'
  BY <1>1 DEF KnownInv, CandidatesNew, Anchors, DomainAllowed, ToSet
<1>6. links' # <<>> => page'.url \in opened' /\ links' \in Seq(ToSet(Anchors(page.url))')
  <2>1. CASE PageArrives
    <3>1. links' = Anchors(page'.url) /\ page'.url \in opened'
      BY <2>1 DEF PageArrives
    <3> SUFFICES ASSUME links' # <<>> PROVE links' \in Seq(ToSet(Anchors(page.url))')
      BY <3>1
    <3>2. links' \in Seq(Urls)
      <4>1. page'.url \in Urls
        BY <2>1, TakePageTypes DEF PageArrives, Pages
      <4> QED
        BY <3>1, <4>1, AnchorsType
    <3>3. ToSet(Anchors(page.url))' = ToSet(links')
      BY <3>1 DEF Anchors, ToSet
    <3> QED
      BY <3>2, <3>3, OwnSeq
  <2>2. CASE PageRefused
    BY <2>2 DEF PageRefused, TakePage, AtPage
  <2> QED
    BY <2>1, <2>2
<1>7. /\ visited' \subseteq known'
      /\ \A i \in DOMAIN pages': CanonicalOrRaw(pages'[i].url) \in known'
  BY <1>1, <1>2 DEF KnownInv
<1> QED
  BY <1>1, <1>3, <1>4, <1>5, <1>6, <1>7 DEF KnownInv

LEMMA KnownSkipLink ==
    ASSUME web' = web, ExpansionTypeOK, KnownInv, SkipLink
    PROVE  KnownInv'
<1>1. /\ links # <<>> /\ links' = Tail(links)
      /\ UNCHANGED <<existing, pages, visited, known, expanded, page, opened>>
  BY DEF SkipLink, AtLink
<1>2. links' \in Seq(ToSet(Anchors(page.url)))
  BY <1>1 DEF KnownInv
<1> QED
  BY <1>1, <1>2 DEF KnownInv, Offered, CandidatesNew, PagesOnce, Anchors, DomainAllowed, ToSet

LEMMA KnownTakeLink ==
    ASSUME web' = web, ExpansionTypeOK, KnownInv, TakeLink
    PROVE  KnownInv'
<1> SUFFICES ASSUME NEW u, u = Head(links), NEW c, c = [url |-> u, page |-> page.url],
                    NEW n, n = Len(expanded) + 1
             PROVE  KnownInv'
  OBVIOUS
<1>1. /\ links # <<>> /\ expanded' = Append(expanded, c)
      /\ known' = known \cup {CanonicalOrRaw(u)}
      /\ CanonicalOrRaw(u) \notin known /\ DomainAllowed(u, page.url)
      /\ UNCHANGED <<existing, visited, page, opened>>
  BY DEF TakeLink, AtLink, Wanted, Know
<1>2. /\ links \in Seq(ToSet(Anchors(page.url))) /\ page.url \in opened
      /\ u \in ToSet(Anchors(page.url)) /\ Tail(links) \in Seq(ToSet(Anchors(page.url)))
  BY <1>1 DEF KnownInv
<1>3. /\ n \in Nat /\ DOMAIN expanded = 1 .. n - 1 /\ DOMAIN expanded' = 1 .. n
      /\ \A i \in DOMAIN expanded: expanded'[i] = expanded[i]
      /\ expanded'[n] = c
  <2>1. expanded \in Seq([url: Urls, page: Urls])
    BY DEF ExpansionTypeOK
  <2> QED
    BY <1>1, <2>1
<1>4. Offered' = Offered \cup {u}
  BY <1>1, <1>3 DEF Offered, ToSet
<1>5. known' = {CanonicalOrRaw(v): v \in Offered'}
  BY <1>1, <1>4 DEF KnownInv
<1>6. CandidatesNew'
  <2> SUFFICES ASSUME NEW i \in DOMAIN expanded'
               PROVE  /\ expanded'[i].page \in opened
                      /\ expanded'[i].url \in ToSet(Anchors(expanded'[i].page))
                      /\ DomainAllowed(expanded'[i].url, expanded'[i].page)
                      /\ \A v \in ToSet(existing) \cup {expanded'[k].url: k \in 1 .. i - 1}:
                            CanonicalOrRaw(v) # CanonicalOrRaw(expanded'[i].url)
    BY <1>1 DEF CandidatesNew, Anchors, DomainAllowed, ToSet
  <2>1. {expanded'[k].url: k \in 1 .. i - 1} = {expanded[k].url: k \in 1 .. i - 1}
    BY <1>3
  <2>2. CASE i = n
    <3>1. \A v \in Offered: CanonicalOrRaw(v) \in known
      BY DEF KnownInv
    <3>2. ToSet(existing) \cup {expanded[k].url: k \in 1 .. i - 1} = Offered
      BY <1>3, <2>2 DEF Offered
    <3> QED
      BY <1>1, <1>2, <1>3, <2>1, <2>2, <3>1, <3>2
  <2>3. CASE i \in DOMAIN expanded
    BY <1>3, <2>1, <2>3 DEF KnownInv, CandidatesNew
  <2> QED
    BY <1>3, <2>2, <2>3
<1>7. /\ PagesOnce'
      /\ \A i \in DOMAIN pages': CanonicalOrRaw(pages'[i].url) \in known'
  <2>1. CASE pages' = pages
    BY <1>1, <2>1 DEF KnownInv, PagesOnce
  <2>2. CASE pages' = Append(pages, [url |-> u, depth |-> page.depth + 1])
    <3> SUFFICES ASSUME NEW m, m = Len(pages) + 1, NEW p, p = [url |-> u, depth |-> page.depth + 1]
                 PROVE  /\ PagesOnce'
                        /\ \A i \in DOMAIN pages': CanonicalOrRaw(pages'[i].url) \in known'
      OBVIOUS
    <3>1. /\ m \in Nat /\ DOMAIN pages = 1 .. m - 1 /\ DOMAIN pages' = 1 .. m
          /\ \A i \in DOMAIN pages: pages'[i] = pages[i]
          /\ pages'[m] = p /\ p.url = u
      <4>1. pages \in Seq(Pages) /\ pages' = Append(pages, p)
        BY <2>2 DEF ExpansionTypeOK
      <4> QED
        BY <4>1
    <3>2. ASSUME NEW i \in DOMAIN pages',
                 NEW v \in visited \cup {CanonicalOrRaw(pages'[k].url): k \in 1 .. i - 1}
          PROVE  CanonicalOrRaw(pages'[i].url) # v
      <4>1. v \in visited \cup {CanonicalOrRaw(pages[k].url): k \in 1 .. i - 1}
        BY <3>1
      <4>2. CASE i = m
        <5>1. v \in known
          BY <3>1, <4>1, <4>2 DEF KnownInv
        <5> QED
          BY <1>1, <3>1, <4>2, <5>1
      <4>3. CASE i \in DOMAIN pages
        BY <3>1, <4>1, <4>3 DEF KnownInv, PagesOnce
      <4> QED
        BY <3>1, <4>2, <4>3
    <3>3. PagesOnce'
      BY <1>1, <3>2 DEF PagesOnce
    <3>4. ASSUME NEW i \in DOMAIN pages' PROVE CanonicalOrRaw(pages'[i].url) \in known'
      <4>1. CASE i = m
        BY <1>1, <3>1, <4>1
      <4>2. CASE i \in DOMAIN pages
        BY <1>1, <3>1, <4>2 DEF KnownInv
      <4> QED
        BY <3>1, <4>1, <4>2
    <3> QED
      BY <3>3, <3>4
  <2> QED
    BY <2>1, <2>2 DEF TakeLink
<1>8. links' # <<>> => page'.url \in opened' /\ links' \in Seq(ToSet(Anchors(page.url))')
  BY <1>1, <1>2 DEF TakeLink, Anchors, ToSet
<1> QED
  BY <1>1, <1>5, <1>6, <1>7, <1>8 DEF KnownInv

LEMMA KnownStep ==
    ASSUME IInv, KnownInv, [Next]_vars
    PROVE  KnownInv'
<1>1. TypeOK /\ FindsReadable /\ MergeKeepsBest /\ web \in Webs /\ ExpansionTypeOK
  BY DEF IInv, TypeOK
<1>2. ASSUME web' = web, UNCHANGED expansionVars PROVE KnownInv'
  BY <1>2 DEF expansionVars, KnownInv, Offered, CandidatesNew, PagesOnce, Anchors,
              DomainAllowed, ToSet
<1>3. CASE StartExpansion
  BY <1>1, <1>3, KnownBegin DEF StartExpansion
<1>4. CASE ExpandLinks
  BY <1>1, <1>4, KnownTakePage, KnownSkipLink, KnownTakeLink DEF ExpandLinks, ExpansionStep
<1>5. Discover => StartExpansion \/ ExpandLinks \/ (web' = web /\ UNCHANGED expansionVars)
  BY DEF Discover, SearchSource, SourceFails, SourceRaises, StartSitemaps, SearchSitemaps,
         SitemapsEnd,
         SitemapsFail, SitemapsRaise, ExpansionEnds, ExpansionFails, PageFails,
         ExpansionError, ExpansionRaises, AddCandidate, AddRaises, Yield
<1> QED
  BY <1>2, <1>3, <1>4, <1>5 DEF Next, Finished, vars

\* However pages link to each other, an expansion asks for none of them twice and offers
\* only links of pages it has read that no candidate has under any form of their URL.
THEOREM ExpansionOffersNew == Spec => [](CandidatesNew /\ PagesOnce)
<1>1. Init => KnownInv
  BY DEF Init, ExpansionInit, KnownInv, Offered, CandidatesNew, PagesOnce, ToSet
<1>2. KnownInv => CandidatesNew /\ PagesOnce
  BY DEF KnownInv
<1> QED
  BY <1>1, <1>2, KnownStep, SpecIInv, PTL DEF Spec

(***************************************************************************)
(* The expansion is exact.  Layers[n] is what a search by breadth finds in  *)
(* n links over the pages read so far; the invariant compares the queue,    *)
(* the pages asked for and the links looked at with it, layer by layer.     *)
(***************************************************************************)
\* The furthest a page is asked for.
Furthest == IF MaxDepth = 0 THEN 0 ELSE MaxDepth - 1

\* The depths are the numbers up to the furthest.
LEMMA FurthestDepth == Furthest \in Nat /\ Depths = 0 .. Furthest /\ Max(Depths) = Furthest
<1>1. Furthest \in Nat /\ Depths = 0 .. Furthest
  BY LinkExpansionAssumption DEF Furthest, Depths
<1> QED
  BY <1>1 DEF Max

\* The pages to begin with, and the next circle around the pages X.
Nearest == {CanonicalOrRaw(u): u \in ToSet(existing) \ Pdfs}
Circle(X) ==
    X \cup {CanonicalOrRaw(u): u \in UNION {PageLinks(p): p \in {q \in opened: CanonicalOrRaw(q) \in X}}}

LayersHold ==
    /\ Layers[0] = Nearest
    /\ \A n \in 0 .. Furthest - 1: Layers[n + 1] = Circle(Layers[n])
    /\ \A m, n \in 0 .. Furthest: m <= n => Layers[m] \subseteq Layers[n]

\* The definition of Layers by recursion has a solution, and is it.
LEMMA LayersSolved ==
    Layers = [n \in 0 .. Furthest |-> IF n = 0 THEN Nearest ELSE Circle(Layers[n - 1])]
<1> DEFINE All == Nearest \cup {CanonicalOrRaw(u): u \in UNION {PageLinks(p): p \in opened}}
           F == [X \in SUBSET All |-> Circle(X)]
           Solves(W) == W = [n \in 0 .. Furthest |-> IF n = 0 THEN Nearest ELSE Circle(W[n - 1])]
<1>1. Nearest \in SUBSET All /\ F \in [SUBSET All -> SUBSET All]
  BY DEF Circle
<1>2. PICK f \in [0 .. Furthest -> SUBSET All]: Iterates(f, F, Nearest, Furthest)
  <2> HIDE DEF All, F
  <2> QED
    BY <1>1, FurthestDepth, Iteration
<1>3. Solves(f)
  <2>1. ASSUME NEW n \in 0 .. Furthest, n # 0 PROVE f[n] = Circle(f[n - 1])
    <3>1. n \in 1 .. Furthest /\ n - 1 \in 0 .. Furthest
      BY <2>1, FurthestDepth
    <3>2. f[n - 1] \in SUBSET All /\ f[n] = F[f[n - 1]]
      BY <1>2, <3>1 DEF Iterates
    <3> QED
      BY <3>2
  <2> QED
    BY <1>2, <2>1 DEF Iterates
<1>4. Layers = CHOOSE W: Solves(W)
  BY FurthestDepth DEF Layers, Nearest, Circle
<1> HIDE DEF Solves
<1>5. Solves(Layers)
  BY <1>3, <1>4
<1> QED
  BY <1>5 DEF Solves

\* Each layer is a circle around the one before, and has it in it.
LEMMA LayersFacts == LayersHold
<1>1. Layers[0] = Nearest
  BY LayersSolved, FurthestDepth
<1>2. ASSUME NEW n \in 0 .. Furthest - 1 PROVE Layers[n + 1] = Circle(Layers[n])
  <2>1. n + 1 \in 0 .. Furthest /\ n + 1 # 0 /\ (n + 1) - 1 = n
    BY FurthestDepth
  <2> QED
    BY <2>1, LayersSolved
<1>3. ASSUME NEW m \in 0 .. Furthest
      PROVE  \A n \in 0 .. Furthest: m <= n => Layers[m] \subseteq Layers[n]
  <2> DEFINE S == {n \in Nat: n <= Furthest /\ m <= n => Layers[m] \subseteq Layers[n]}
  <2>1. 0 \in S
    BY <1>3
  <2>2. ASSUME NEW n \in Nat, n \in S PROVE n + 1 \in S
    <3>1. CASE n + 1 <= Furthest /\ m <= n
      <4>1. n \in 0 .. Furthest - 1 /\ Layers[m] \subseteq Layers[n]
        BY <2>2, <3>1, FurthestDepth
      <4> QED
        BY <1>2, <4>1 DEF Circle
    <3>2. CASE m = n + 1
      BY <3>2
    <3> QED
      BY <3>1, <3>2
  <2> HIDE DEF S
  <2>3. \A n \in Nat: n \in S
    BY ONLY <2>1, <2>2, NaturalInduction
  <2> QED
    BY <2>3 DEF S
<1> QED
  BY <1>1, <1>2, <1>3 DEF LayersHold

\* The same of the next state.
LEMMA LayersFactsNext == LayersHold'
BY LayersFacts, PTL

\* They depend on nothing else.
LEMMA LayersKept == UNCHANGED <<web, existing, opened>> => Layers' = Layers
BY DEF Layers, PageLinks, Anchors, DomainAllowed

\* A page more that was read brings nothing further away.
LEMMA LayersGrow ==
    ASSUME UNCHANGED <<web, existing>>, opened \subseteq opened'
    PROVE  \A n \in 0 .. Furthest: Layers[n] \subseteq Layers'[n]
<1>r. LayersHold /\ LayersHold'
  BY LayersFacts, LayersFactsNext
<1> DEFINE S == {n \in Nat: n <= Furthest => Layers[n] \subseteq Layers'[n]}
<1>1. 0 \in S
  BY <1>r DEF LayersHold, Nearest
<1>2. ASSUME NEW n \in Nat, n \in S PROVE n + 1 \in S
  <2>1. CASE n + 1 <= Furthest
    <3>1. n \in 0 .. Furthest - 1 /\ Layers[n] \subseteq Layers'[n]
      BY <1>2, <2>1, FurthestDepth
    <3>2. Layers[n + 1] = Circle(Layers[n]) /\ Layers'[n + 1] = Circle(Layers[n])'
      BY <1>r, <3>1 DEF LayersHold
    <3>3. Circle(Layers[n]) \subseteq Circle(Layers[n])'
      BY <3>1 DEF Circle, PageLinks, Anchors, DomainAllowed
    <3> QED
      BY <3>2, <3>3
  <2> QED
    BY <2>1
<1> HIDE DEF S
<1>3. \A n \in Nat: n \in S
  BY ONLY <1>1, <1>2, NaturalInduction
<1> QED
  BY <1>3 DEF S

\* Nor nearer than the page itself is.
LEMMA LayersStable ==
    ASSUME UNCHANGED <<web, existing>>, NEW q, opened' = opened \cup {q},
           NEW N \in 0 .. Furthest, \A n \in 0 .. N - 1: CanonicalOrRaw(q) \notin Layers[n]
    PROVE  \A n \in 0 .. N: Layers'[n] = Layers[n]
<1>r. LayersHold /\ LayersHold'
  BY LayersFacts, LayersFactsNext
<1> DEFINE S == {n \in Nat: n <= N => Layers'[n] = Layers[n]}
<1>1. 0 \in S
  BY <1>r DEF LayersHold, Nearest
<1>2. ASSUME NEW n \in Nat, n \in S PROVE n + 1 \in S
  <2>1. CASE n + 1 <= N
    <3>1. n \in 0 .. N - 1 /\ n \in 0 .. Furthest - 1 /\ Layers'[n] = Layers[n]
      BY <1>2, <2>1, FurthestDepth
    <3>2. Layers[n + 1] = Circle(Layers[n]) /\ Layers'[n + 1] = Circle(Layers[n])'
      BY <1>r, <3>1 DEF LayersHold
    <3>3. {p \in opened': CanonicalOrRaw(p) \in Layers'[n]} = {p \in opened: CanonicalOrRaw(p) \in Layers[n]}
      BY <3>1
    <3>4. \A p: PageLinks(p)' = PageLinks(p)
      BY DEF PageLinks, Anchors, DomainAllowed
    <3>5. Circle(Layers[n])' = Circle(Layers[n])
      BY <3>1, <3>3, <3>4 DEF Circle
    <3>6. Layers'[n + 1] = Circle(Layers[n])
      BY ONLY <3>2, <3>5
    <3>7. Layers'[n + 1] = Layers[n + 1]
      BY ONLY <3>2, <3>6
    <3> QED
      BY <3>7
  <2> QED
    BY <2>1
<1> HIDE DEF S
<1>3. \A n \in Nat: n \in S
  BY ONLY <1>1, <1>2, NaturalInduction
<1> QED
  BY <1>3 DEF S

\* The depth of what was asked for last.
Level == IF visited = {} THEN 0 ELSE page.depth
Ahead == {CanonicalOrRaw(pages[i].url): i \in DOMAIN pages}
AheadAt(d) == {CanonicalOrRaw(pages[i].url): i \in {k \in DOMAIN pages: pages[k].depth = d}}

\* The queue has the pages of the current depth before those of the next.
InOrder ==
    /\ \A i \in DOMAIN pages: pages[i].depth \in {Level, Level + 1}
    /\ \A i, j \in DOMAIN pages: i < j => pages[i].depth <= pages[j].depth

\* What is queued or was asked for is within reach at its depth.
WithinReach ==
    /\ \A i \in DOMAIN pages:
          pages[i].url \notin Odd => CanonicalOrRaw(pages[i].url) \in Layers[pages[i].depth]
    /\ visited \subseteq Layers[Level]
    /\ links # <<>> => CanonicalOrRaw(page.url) \in visited

\* What is nearer than the current depth was asked for, and at the current depth nothing
\* is forgotten.
LayersTaken ==
    /\ \A n \in 0 .. Level - 1: Layers[n] \subseteq visited
    /\ Layers[Level] \subseteq visited \cup AheadAt(Level)

\* A page among the candidates is asked for, now or later, unless it is too far.
OffersFollowed ==
    Level < Furthest => \A u \in Offered \ Pdfs: CanonicalOrRaw(u) \in visited \cup Ahead

\* A link of a page that was read is known, or still to be looked at.
LinksDecided ==
    \A p \in opened: \A u \in ToSet(Anchors(p)):
        DomainAllowed(u, p) =>
            CanonicalOrRaw(u) \in known \/ (p = page.url /\ u \in ToSet(links))

Exploring ==
    /\ InOrder /\ WithinReach
    /\ ~LimitReached => LayersTaken /\ OffersFollowed /\ LinksDecided

\* The candidates that are pages have their place in the first layer.
LEMMA ExploringBegin ==
    ASSUME web \in Webs, web' = web, NEW urls \in Seq(Urls), BeginExpansion(urls)
    PROVE  Exploring'
<1>1. Landing(urls) \in Seq((Urls \ Pdfs) \cap ToSet(urls))
  BY SelectedType DEF Landing
<1>2. /\ existing' = urls /\ visited' = {} /\ links' = <<>> /\ opened' = {}
      /\ DOMAIN pages' = DOMAIN Landing(urls) /\ expanded' = <<>>
      /\ \A i \in DOMAIN pages': pages'[i] = Queued(Landing(urls)[i])
      /\ Level' = 0
  BY DEF BeginExpansion, Level
<1>3. \A i \in DOMAIN pages': /\ pages'[i].depth = 0 /\ pages'[i].url = Landing(urls)[i]
                               /\ Landing(urls)[i] \in ToSet(urls) \ Pdfs
  BY <1>1, <1>2 DEF Queued
<1>4. Layers'[0] = {CanonicalOrRaw(u): u \in ToSet(urls) \ Pdfs}
  BY <1>2, LayersFactsNext DEF LayersHold, Nearest
<1>5. \A u \in ToSet(urls) \ Pdfs: \E i \in DOMAIN pages': pages'[i].url = u
  <2> SUFFICES ASSUME NEW u \in ToSet(urls) \ Pdfs PROVE \E i \in DOMAIN pages': pages'[i].url = u
    OBVIOUS
  <2>1. PICK a \in DOMAIN urls: urls[a] = u
    BY DEF ToSet
  <2>2. urls[a] \in Urls \ Pdfs
    BY <2>1
  <2>3. PICK k \in DOMAIN Landing(urls): Landing(urls)[k] = urls[a]
    BY <2>2, SelectedAll DEF Landing
  <2> QED
    BY <1>2, <1>3, <2>1, <2>3
<1>6. InOrder'
  BY <1>2, <1>3 DEF InOrder
<1>7. WithinReach'
  BY <1>2, <1>3, <1>4 DEF WithinReach
<1>8. Layers'[0] \subseteq AheadAt(0)' /\ Layers'[0] \subseteq Ahead'
  BY <1>3, <1>4, <1>5 DEF AheadAt, Ahead
<1>9. LayersTaken'
  BY <1>2, <1>8 DEF LayersTaken
<1>10. OffersFollowed'
  <2>1. Offered' = ToSet(urls)
    BY <1>2 DEF Offered, ToSet
  <2> QED
    BY <1>4, <1>8, <2>1 DEF OffersFollowed
<1>11. LinksDecided'
  BY <1>2 DEF LinksDecided
<1> QED
  BY <1>6, <1>7, <1>9, <1>10, <1>11 DEF Exploring

\* The page that is read is no further than the furthest.
LEMMA LevelType == ExpansionTypeOK => Level \in 0 .. Furthest
BY FurthestDepth DEF ExpansionTypeOK, Pages, Level

\* Equal forms are of URLs of one kind.
LEMMA SameKind ==
    ASSUME NEW u \in Urls \ (Pdfs \cup Odd), NEW w \in Urls, CanonicalOrRaw(u) = CanonicalOrRaw(w)
    PROVE  w \notin Pdfs
BY WebAssumption, CanonicalAssumption DEF CanonicalOrRaw

\* Within the limits, what is known of the pages that a page leads to was asked for or
\* is to be.
LEMMA KnownFollowed ==
    ASSUME ExpansionTypeOK, KnownInv, OffersFollowed, Level < Furthest,
           NEW u \in Urls \ (Pdfs \cup Odd), CanonicalOrRaw(u) \in known
    PROVE  CanonicalOrRaw(u) \in visited \cup Ahead
<1>1. PICK w \in Offered: CanonicalOrRaw(w) = CanonicalOrRaw(u)
  BY DEF KnownInv
<1>2. w \in Urls
  <2>1. ToSet(existing) \subseteq Urls
    BY DEF ExpansionTypeOK, ToSet
  <2>2. \A i \in DOMAIN expanded: expanded[i].url \in Urls
    <3> DEFINE T == [url: Urls, page: Urls]
    <3>1. expanded \in Seq(T) /\ \A e \in T: e.url \in Urls
      BY DEF ExpansionTypeOK
    <3> HIDE DEF T
    <3> QED
      BY <3>1, SequenceElements
  <2> QED
    BY <2>1, <2>2 DEF Offered
<1> QED
  BY <1>1, <1>2, SameKind DEF OffersFollowed

\* The next page is one of the current depth or, once there are no more of them, of the next.
LEMMA NextPage ==
    ASSUME web \in Webs, web' = web, ExpansionTypeOK, KnownInv, Exploring, TakePage
    PROVE  /\ ~LimitReached /\ links = <<>>
           /\ Level' = page'.depth /\ Level' \in 0 .. Furthest /\ Level \in 0 .. Furthest
           /\ InOrder' /\ OffersFollowed'
           /\ \A i \in DOMAIN pages':
                 pages'[i].url \notin Odd => CanonicalOrRaw(pages'[i].url) \in Layers[pages'[i].depth]
           /\ \A i \in DOMAIN pages': pages'[i].depth \in 0 .. Furthest
           /\ visited' \subseteq Layers[Level']
           /\ CanonicalOrRaw(page'.url) \in visited' \ visited
           /\ \A n \in 0 .. Level' - 1: Layers[n] \subseteq visited
           /\ Layers[Level'] \subseteq visited' \cup AheadAt(Level)'
<1> DEFINE T == Pages
<1>r. LayersHold
  BY LayersFacts
<1>0. /\ ~LimitReached /\ links = <<>> /\ pages # <<>> /\ pages \in Seq(T) /\ page' = Head(pages)
      /\ page'.url \notin Odd
      /\ pages' = Tail(pages) /\ visited' = visited \cup {CanonicalOrRaw(page'.url)}
      /\ UNCHANGED <<existing, known, expanded>>
  BY DEF TakePage, AtPage, ExpansionTypeOK
<1>t. \A e \in T: e.depth \in 0 .. Furthest
  BY FurthestDepth DEF Pages
<1> HIDE DEF T
<1>1. /\ page' = pages[1] /\ page' \in T /\ 1 \in DOMAIN pages
      /\ \A i \in DOMAIN pages: i \in Nat \ {0} /\ pages[i] \in T
      /\ \A i \in DOMAIN pages': i \in Nat \ {0} /\ i + 1 \in DOMAIN pages /\ pages'[i] = pages[i + 1]
      /\ \A i \in DOMAIN pages: i = 1 \/ (i - 1 \in DOMAIN pages' /\ pages'[i - 1] = pages[i])
  BY <1>0, TailFacts
<1>2. Level' = page'.depth
  BY <1>0 DEF Level
<1>3. Level \in 0 .. Furthest /\ Level' \in 0 .. Furthest /\ Level' \in {Level, Level + 1}
  BY <1>1, <1>2, <1>t, LevelType DEF Exploring, InOrder
<1>4. \A i \in DOMAIN pages: pages[i].depth \in 0 .. Furthest /\ Level' <= pages[i].depth
  <2> SUFFICES ASSUME NEW i \in DOMAIN pages PROVE pages[i].depth \in 0 .. Furthest /\ Level' <= pages[i].depth
    OBVIOUS
  <2>1. pages[i].depth \in 0 .. Furthest
    BY <1>1, <1>t
  <2>2. CASE i = 1
    BY <1>1, <1>2, <2>1, <2>2
  <2>3. CASE 1 < i
    BY <1>1, <1>2, <2>1, <2>3 DEF Exploring, InOrder
  <2> QED
    BY <1>1, <2>1, <2>2, <2>3
<1>5. InOrder'
  <2>1. ASSUME NEW i \in DOMAIN pages' PROVE pages'[i].depth \in {Level', Level' + 1}
    <3>1. i + 1 \in DOMAIN pages /\ pages'[i] = pages[i + 1]
      BY <1>1
    <3>2. pages[i + 1].depth \in {Level, Level + 1} /\ Level' <= pages[i + 1].depth
      BY <1>4, <3>1 DEF Exploring, InOrder
    <3> QED
      BY <1>3, <3>1, <3>2
  <2>2. ASSUME NEW i \in DOMAIN pages', NEW j \in DOMAIN pages', i < j
        PROVE  pages'[i].depth <= pages'[j].depth
    <3>1. i + 1 \in DOMAIN pages /\ pages'[i] = pages[i + 1] /\ j + 1 \in DOMAIN pages
          /\ pages'[j] = pages[j + 1] /\ i + 1 < j + 1
      BY <1>1, <2>2
    <3> QED
      BY <3>1 DEF Exploring, InOrder
  <2> QED
    BY <2>1, <2>2 DEF InOrder
<1>6. \A i \in DOMAIN pages:
         CanonicalOrRaw(pages[i].url) \in visited' \cup Ahead'
  <2> SUFFICES ASSUME NEW i \in DOMAIN pages PROVE CanonicalOrRaw(pages[i].url) \in visited' \cup Ahead'
    OBVIOUS
  <2>1. CASE i = 1
    BY <1>0, <1>1, <2>1
  <2>2. CASE i # 1
    <3>1. i - 1 \in DOMAIN pages' /\ pages'[i - 1] = pages[i]
      BY <1>1, <2>2
    <3> QED
      BY <3>1 DEF Ahead
  <2> QED
    BY <2>1, <2>2
<1>7. OffersFollowed'
  <2> SUFFICES ASSUME Level' < Furthest, NEW u \in Offered', u \notin Pdfs
               PROVE  CanonicalOrRaw(u) \in visited' \cup Ahead'
    BY DEF OffersFollowed
  <2>1. Offered' = Offered
    BY <1>0 DEF Offered, ToSet
  <2>2. Level < Furthest
    BY <1>3, FurthestDepth
  <2>3. CanonicalOrRaw(u) \in visited \cup Ahead
    BY <1>0, <2>1, <2>2 DEF Exploring, OffersFollowed
  <2>4. CASE CanonicalOrRaw(u) \in visited
    BY <1>0, <2>4
  <2>5. CASE CanonicalOrRaw(u) \in Ahead
    BY <1>6, <2>5 DEF Ahead
  <2> QED
    BY <2>3, <2>4, <2>5
<1>8. \A i \in DOMAIN pages':
         /\ pages'[i].url \notin Odd => CanonicalOrRaw(pages'[i].url) \in Layers[pages'[i].depth]
         /\ pages'[i].depth \in 0 .. Furthest
  BY <1>1, <1>4 DEF Exploring, WithinReach
<1>9. visited' \subseteq Layers[Level']
  <2>1. Layers[Level] \subseteq Layers[Level']
    BY <1>r, <1>3 DEF LayersHold
  <2>2. CanonicalOrRaw(page'.url) \in Layers[Level']
    BY <1>0, <1>1, <1>2 DEF Exploring, WithinReach
  <2> QED
    BY <1>0, <2>1, <2>2 DEF Exploring, WithinReach
<1>10. CanonicalOrRaw(page'.url) \in visited' \ visited
  <2>1. CanonicalOrRaw(pages[1].url) \notin visited
    BY <1>1 DEF KnownInv, PagesOnce
  <2> QED
    BY <1>0, <1>1, <2>1
<1>11. /\ \A n \in 0 .. Level - 1: Layers[n] \subseteq visited
       /\ Layers[Level] \subseteq visited \cup AheadAt(Level)
  BY <1>0 DEF Exploring, LayersTaken
<1>12. CASE Level' = Level
  <2>1. AheadAt(Level) \subseteq visited' \cup AheadAt(Level)'
    <3> SUFFICES ASSUME NEW i \in DOMAIN pages, pages[i].depth = Level
                 PROVE  CanonicalOrRaw(pages[i].url) \in visited' \cup AheadAt(Level)'
      BY DEF AheadAt
    <3>1. CASE i = 1
      BY <1>0, <1>1, <3>1
    <3>2. CASE i # 1
      <4>1. i - 1 \in DOMAIN pages' /\ pages'[i - 1] = pages[i]
        BY <1>1, <3>2
      <4> QED
        BY <1>12, <4>1 DEF AheadAt
    <3> QED
      BY <3>1, <3>2
  <2> QED
    BY <1>0, <1>2, <1>3, <1>5, <1>7, <1>8, <1>9, <1>10, <1>11, <1>12, <2>1
<1>13. CASE Level' = Level + 1
  <2>1. AheadAt(Level) = {}
    BY <1>3, <1>4, <1>13 DEF AheadAt
  <2>2. \A n \in 0 .. Level' - 1: Layers[n] \subseteq visited
    BY <1>3, <1>11, <1>13, <2>1
  <2>3. Layers[Level] \subseteq visited /\ Level \in 0 .. Furthest - 1 /\ Level < Furthest
    BY <1>3, <1>11, <1>13, <2>1, FurthestDepth
  <2>4. ASSUME NEW f \in Layers[Level + 1] PROVE f \in visited \cup Ahead
    <3>1. f \in Circle(Layers[Level])
      BY <1>r, <2>3, <2>4 DEF LayersHold
    <3>2. CASE f \in Layers[Level]
      BY <2>3, <3>2
    <3>3. CASE f \notin Layers[Level]
      <4>0. PICK u \in UNION {PageLinks(p): p \in {q \in opened: CanonicalOrRaw(q) \in Layers[Level]}}:
               f = CanonicalOrRaw(u)
        BY <3>1, <3>3 DEF Circle
      <4>1. PICK p \in opened: u \in PageLinks(p)
        BY <4>0
      <4>2. u \in ToSet(Anchors(p)) /\ DomainAllowed(u, p) /\ u \notin Pdfs \cup Odd
        BY <4>1 DEF PageLinks
      <4>3. u \in Urls
        <5>1. p \in Urls
          BY DEF ExpansionTypeOK
        <5> QED
          BY <4>2, <5>1, AnchorsType DEF ToSet
      <4>4. CanonicalOrRaw(u) \in known
        BY <1>0, <4>2 DEF Exploring, LinksDecided, ToSet
      <4> QED
        BY <1>0, <2>3, <4>0, <4>2, <4>3, <4>4, KnownFollowed DEF Exploring
    <3> QED
      BY <3>2, <3>3
  <2>5. Ahead \subseteq visited' \cup AheadAt(Level)'
    <3> SUFFICES ASSUME NEW i \in DOMAIN pages
                 PROVE  CanonicalOrRaw(pages[i].url) \in visited' \cup AheadAt(Level)'
      BY DEF Ahead
    <3>1. CASE i = 1
      BY <1>0, <1>1, <3>1
    <3>2. CASE i # 1
      <4>1. i - 1 \in DOMAIN pages' /\ pages'[i - 1] = pages[i]
        BY <1>1, <3>2
      <4>2. pages[i].depth = Level'
        <5>1. pages[i].depth \in {Level, Level + 1} /\ Level' <= pages[i].depth
          BY <1>4 DEF Exploring, InOrder
        <5> QED
          BY <1>3, <1>13, <5>1
      <4> QED
        BY <4>1, <4>2 DEF AheadAt
    <3> QED
      BY <3>1, <3>2
  <2>6. Layers[Level'] \subseteq visited' \cup AheadAt(Level)'
    BY <1>0, <1>13, <2>4, <2>5
  <2> QED
    BY <1>0, <1>2, <1>3, <1>5, <1>7, <1>8, <1>9, <1>10, <2>2, <2>6
<1> QED
  BY <1>3, <1>12, <1>13

\* A page that is refused has no links.
LEMMA ExploringRefused ==
    ASSUME web \in Webs, web' = web, ExpansionTypeOK, KnownInv, Exploring, PageRefused
    PROVE  Exploring'
<1>1. TakePage /\ UNCHANGED <<web, existing, opened, known, expanded>> /\ links' = links
  BY DEF PageRefused, TakePage
<1>2. Layers' = Layers
  BY <1>1, LayersKept
<1>3. ~LimitReached /\ links = <<>>
  BY <1>1, NextPage
<1>4. WithinReach'
  BY <1>1, <1>2, <1>3, NextPage DEF WithinReach
<1>5. LayersTaken'
  <2>1. visited \subseteq visited'
    BY <1>1 DEF TakePage
  <2> QED
    BY <1>1, <1>2, <2>1, NextPage DEF LayersTaken
<1>6. LinksDecided'
  BY <1>1, <1>3 DEF Exploring, LinksDecided, Anchors, DomainAllowed, ToSet
<1> QED
  BY <1>1, <1>4, <1>5, <1>6, NextPage DEF Exploring

\* A page that arrives is at its least distance, so the layers up to it stay as they are.
LEMMA ExploringArrives ==
    ASSUME web \in Webs, web' = web, ExpansionTypeOK, KnownInv, Exploring, PageArrives
    PROVE  Exploring'
<1>1. /\ TakePage /\ UNCHANGED <<web, existing, known, expanded>>
      /\ links' = Anchors(page'.url) /\ opened' = opened \cup {page'.url}
  BY DEF PageArrives, TakePage
<1>n. /\ ~LimitReached /\ links = <<>>
      /\ Level' = page'.depth /\ Level' \in 0 .. Furthest /\ Level \in 0 .. Furthest
      /\ InOrder' /\ OffersFollowed'
      /\ \A i \in DOMAIN pages':
            pages'[i].url \notin Odd => CanonicalOrRaw(pages'[i].url) \in Layers[pages'[i].depth]
      /\ \A i \in DOMAIN pages': pages'[i].depth \in 0 .. Furthest
      /\ visited' \subseteq Layers[Level']
      /\ CanonicalOrRaw(page'.url) \in visited' \ visited
      /\ \A n \in 0 .. Level' - 1: Layers[n] \subseteq visited
      /\ Layers[Level'] \subseteq visited' \cup AheadAt(Level)'
      /\ visited' = visited \cup {CanonicalOrRaw(page'.url)}
  BY <1>1, NextPage DEF TakePage
<1>2. \A n \in 0 .. Furthest: Layers[n] \subseteq Layers'[n]
  BY <1>1, LayersGrow
<1>3. \A n \in 0 .. Level': Layers'[n] = Layers[n]
  BY <1>1, <1>n, LayersStable
<1>4. WithinReach'
  <2>1. ASSUME NEW i \in DOMAIN pages', pages'[i].url \notin Odd
        PROVE  CanonicalOrRaw(pages'[i].url) \in Layers'[pages'[i].depth]
    BY <1>n, <1>2, <2>1
  <2>2. visited' \subseteq Layers'[Level']
    BY <1>n, <1>2
  <2> QED
    BY <1>n, <2>1, <2>2 DEF WithinReach
<1>5. LayersTaken'
  <2>1. Level' \in 0 .. Level' /\ \A n \in 0 .. Level' - 1: n \in 0 .. Level'
    BY <1>n
  <2> QED
    BY <1>n, <1>3, <2>1 DEF LayersTaken
<1>6. LinksDecided'
  <2> SUFFICES ASSUME NEW p \in opened', NEW u \in ToSet(Anchors(p)), DomainAllowed(u, p),
                      p # page'.url
               PROVE  CanonicalOrRaw(u) \in known
    BY <1>1 DEF LinksDecided, Anchors, DomainAllowed, ToSet
  <2>1. p \in opened
    BY <1>1
  <2> QED
    BY <1>n, <2>1 DEF Exploring, LinksDecided, ToSet
<1> QED
  BY <1>n, <1>4, <1>5, <1>6 DEF Exploring

\* A link that is passed over is known, or of another site.
LEMMA ExploringSkips ==
    ASSUME web' = web, ExpansionTypeOK, Exploring, SkipLink
    PROVE  Exploring'
<1>1. /\ links # <<>> /\ links' = Tail(links) /\ links \in Seq(Urls)
      /\ CanonicalOrRaw(Head(links)) \notin known => ~DomainAllowed(Head(links), page.url)
      /\ UNCHANGED <<existing, pages, visited, known, expanded, page, opened>>
  BY DEF SkipLink, AtLink, Wanted, ExpansionTypeOK
<1>2. Layers' = Layers
  BY <1>1, LayersKept
<1>3. InOrder' /\ WithinReach'
  BY <1>1, <1>2 DEF Exploring, InOrder, WithinReach, Level
<1>4. LayersTaken => LayersTaken'
  BY <1>1, <1>2 DEF LayersTaken, Level, AheadAt
<1>5. OffersFollowed => OffersFollowed'
  BY <1>1 DEF OffersFollowed, Level, Offered, Ahead, ToSet
<1>6. ToSet(links) \subseteq ToSet(links') \cup {Head(links)}
  BY <1>1, TailMembers
<1>7. LinksDecided => LinksDecided'
  <2> SUFFICES ASSUME LinksDecided, NEW p \in opened, NEW u \in ToSet(Anchors(p)),
                      DomainAllowed(u, p), CanonicalOrRaw(u) \notin known
               PROVE  p = page.url /\ u \in ToSet(links')
    BY <1>1 DEF LinksDecided, Anchors, DomainAllowed, ToSet
  <2>1. p = page.url /\ u \in ToSet(links)
    BY DEF LinksDecided
  <2> QED
    BY <1>1, <1>6, <2>1
<1>8. LimitReached' <=> LimitReached
  BY <1>1 DEF LimitReached
<1> QED
  BY <1>3, <1>4, <1>5, <1>7, <1>8 DEF Exploring

\* A link that is taken is offered, and queued if it is a page that is not too far.
LEMMA ExploringTakes ==
    ASSUME web \in Webs, web' = web, ExpansionTypeOK, ExpansionTypeOK', LinksOpen, KnownInv,
           Exploring, TakeLink
    PROVE  Exploring'
<1> DEFINE u == Head(links)
           entry == [url |-> u, depth |-> page.depth + 1]
<1>1. /\ links # <<>> /\ links \in Seq(Urls) /\ expanded' = Append(expanded, [url |-> u, page |-> page.url])
      /\ known' = known \cup {CanonicalOrRaw(u)} /\ CanonicalOrRaw(u) \notin known
      /\ DomainAllowed(u, page.url)
      /\ UNCHANGED <<existing, visited, page, opened>>
      /\ \/ LimitReached' /\ UNCHANGED pages
         \/ ~LimitReached' /\ links' = Tail(links) /\ pages' = IF Followed(u) THEN Append(pages, entry) ELSE pages
  <2>1. Len(expanded') \in Nat
    BY DEF ExpansionTypeOK
  <2> QED
    BY <2>1, LinkExpansionAssumption DEF TakeLink, AtLink, Wanted, Know, ExpansionTypeOK, LimitReached
<1>2. ~LimitReached
  BY <1>1 DEF LinksOpen
<1>3. /\ page.url \in opened /\ u \in ToSet(Anchors(page.url)) /\ u \in Urls
      /\ u = links[1] /\ page.depth \in 0 .. Furthest
  <2>1. links \in Seq(ToSet(Anchors(page.url))) /\ page.url \in opened
    BY <1>1 DEF KnownInv
  <2>2. u \in ToSet(Anchors(page.url)) /\ u = links[1] /\ u \in Urls
    BY <1>1, <2>1
  <2> QED
    BY <2>1, <2>2, FurthestDepth DEF ExpansionTypeOK, Pages
<1>4. Layers' = Layers /\ Level' = Level /\ Level = page.depth /\ Level \in 0 .. Furthest
  BY <1>1, <1>3, LayersKept DEF Level, Exploring, WithinReach
<1>5. Followed(u) <=> Level < Furthest /\ u \notin Pdfs
  BY <1>3, <1>4, LinkExpansionAssumption DEF Followed, IsPdf, Furthest
<1>6. Followed(u) /\ u \notin Odd => CanonicalOrRaw(u) \in Layers[page.depth + 1]
  <2> SUFFICES ASSUME Followed(u), u \notin Odd PROVE CanonicalOrRaw(u) \in Layers[page.depth + 1]
    OBVIOUS
  <2>1. page.depth \in 0 .. Furthest - 1
    BY <1>3, <1>4, <1>5, FurthestDepth
  <2>2. Layers[page.depth + 1] = Circle(Layers[page.depth])
    BY <2>1, LayersFacts DEF LayersHold
  <2>3. CanonicalOrRaw(page.url) \in Layers[page.depth]
    BY <1>1, <1>4 DEF Exploring, WithinReach
  <2>4. u \in PageLinks(page.url)
    BY <1>1, <1>3, <1>5 DEF PageLinks
  <2> HIDE DEF u
  <2> QED
    BY <1>3, <2>2, <2>3, <2>4 DEF Circle
<1>q. /\ Len(pages) \in Nat /\ \A i \in DOMAIN pages: i \in 1 .. Len(pages)
      /\ \A i \in DOMAIN pages: i \in DOMAIN pages' /\ pages'[i] = pages[i]
      /\ pages' = pages \/ (Followed(u) /\ pages' = Append(pages, entry) /\ pages'[Len(pages) + 1] = entry
                             /\ DOMAIN pages' = DOMAIN pages \cup {Len(pages) + 1})
  <2> DEFINE T == Pages
  <2>1. pages \in Seq(T)
    BY DEF ExpansionTypeOK
  <2> HIDE DEF T, entry
  <2>2. /\ Len(pages) \in Nat /\ DOMAIN pages = 1 .. Len(pages)
        /\ DOMAIN Append(pages, entry) = DOMAIN pages \cup {Len(pages) + 1}
        /\ Append(pages, entry)[Len(pages) + 1] = entry
        /\ \A i \in DOMAIN pages: Append(pages, entry)[i] = pages[i]
    BY <2>1, AppendFacts
  <2>3. pages' = pages \/ (Followed(u) /\ pages' = Append(pages, entry))
    BY <1>1
  <2>4. CASE pages' = pages
    BY <2>2, <2>4
  <2>5. CASE pages' # pages
    BY <2>2, <2>3, <2>5
  <2> QED
    BY <2>4, <2>5
<1>7. \A i \in DOMAIN pages':
         \/ i \in DOMAIN pages /\ pages'[i] = pages[i]
         \/ Followed(u) /\ i = Len(pages) + 1 /\ pages'[i] = entry
  BY <1>q
<1> HIDE DEF entry
<1>e. entry.url = u /\ entry.depth = page.depth + 1
  BY DEF entry
<1>8. InOrder'
  <2>0. \A i \in DOMAIN pages: pages[i].depth \in {Level, Level + 1}
    BY DEF Exploring, InOrder
  <2>1. \A i \in DOMAIN pages': pages'[i].depth \in {Level', Level' + 1}
    BY <1>4, <1>7, <1>e, <2>0
  <2>2. ASSUME NEW i \in DOMAIN pages', NEW j \in DOMAIN pages', i < j
        PROVE  pages'[i].depth <= pages'[j].depth
    <3>1. CASE j \in DOMAIN pages
      <4>1. i \in DOMAIN pages
        BY <1>7, <1>q, <2>2, <3>1
      <4> QED
        BY <1>q, <2>2, <3>1, <4>1 DEF Exploring, InOrder
    <3>2. CASE j \notin DOMAIN pages
      <4>1. pages'[j].depth = Level + 1
        BY <1>4, <1>7, <1>e, <3>2
      <4> QED
        BY <1>4, <2>1, <4>1
    <3> QED
      BY <3>1, <3>2
  <2> QED
    BY <2>1, <2>2 DEF InOrder
<1>9. WithinReach'
  <2>1. ASSUME NEW i \in DOMAIN pages', pages'[i].url \notin Odd
        PROVE  CanonicalOrRaw(pages'[i].url) \in Layers'[pages'[i].depth]
    <3>1. CASE i \in DOMAIN pages /\ pages'[i] = pages[i]
      BY <1>4, <2>1, <3>1 DEF Exploring, WithinReach
    <3>2. CASE Followed(u) /\ pages'[i] = entry
      BY <1>4, <1>6, <1>e, <2>1, <3>2
    <3> QED
      BY <1>7, <3>1, <3>2
  <2> QED
    BY <1>1, <1>4, <2>1 DEF Exploring, WithinReach
<1>10. ASSUME ~LimitReached' PROVE LayersTaken'
  <2>1. AheadAt(Level) \subseteq AheadAt(Level)'
    BY <1>4, <1>q DEF AheadAt
  <2> QED
    BY <1>1, <1>2, <1>4, <2>1 DEF Exploring, LayersTaken
<1>11. ASSUME ~LimitReached' PROVE OffersFollowed'
  <2>1. Offered' \subseteq Offered \cup {u}
    <3> DEFINE T == [url: Urls, page: Urls]
               c == [url |-> u, page |-> page.url]
    <3>1. expanded \in Seq(T) /\ c.url = u /\ expanded' = Append(expanded, c)
      BY <1>1 DEF ExpansionTypeOK
    <3> HIDE DEF T, c
    <3>2. /\ DOMAIN expanded' = DOMAIN expanded \cup {Len(expanded) + 1}
          /\ expanded'[Len(expanded) + 1] = c
          /\ \A i \in DOMAIN expanded: expanded'[i] = expanded[i]
      BY <3>1, AppendFacts
    <3> QED
      BY <1>1, <3>1, <3>2 DEF Offered, ToSet
  <2>2. Ahead \subseteq Ahead'
    BY <1>q DEF Ahead
  <2>3. Followed(u) => CanonicalOrRaw(u) \in Ahead'
    <3> SUFFICES ASSUME Followed(u) PROVE CanonicalOrRaw(u) \in Ahead'
      OBVIOUS
    <3>1. pages' = Append(pages, entry) /\ pages' # pages
      <4>1. pages' = Append(pages, entry)
        BY <1>1, <1>11 DEF entry
      <4>2. pages \in Seq(Pages)
        BY DEF ExpansionTypeOK
      <4>3. Len(Append(pages, entry)) = Len(pages) + 1
        BY <4>2, AppendFacts
      <4> QED
        BY <1>q, <4>1, <4>3
    <3>2. Len(pages) + 1 \in DOMAIN pages' /\ pages'[Len(pages) + 1].url = u
      BY <1>q, <1>e, <3>1
    <3> QED
      BY <3>2 DEF Ahead
  <2> SUFFICES ASSUME Level' < Furthest, NEW v \in Offered', v \notin Pdfs
               PROVE  CanonicalOrRaw(v) \in visited' \cup Ahead'
    BY DEF OffersFollowed
  <2>4. CASE v = u
    BY <1>4, <1>5, <2>3, <2>4
  <2>5. CASE v \in Offered
    BY <1>1, <1>2, <1>4, <2>2, <2>5 DEF Exploring, OffersFollowed
  <2> QED
    BY <2>1, <2>4, <2>5
<1>12. ASSUME ~LimitReached' PROVE LinksDecided'
  <2>1. links' = Tail(links)
    BY <1>1, <1>12
  <2>2. ToSet(links) \subseteq ToSet(links') \cup {u}
    BY <1>1, <2>1, TailMembers
  <2> SUFFICES ASSUME NEW p \in opened, NEW v \in ToSet(Anchors(p)),
                      DomainAllowed(v, p), CanonicalOrRaw(v) \notin known'
               PROVE  p = page.url /\ v \in ToSet(links')
    BY <1>1 DEF LinksDecided, Anchors, DomainAllowed, ToSet
  <2>3. p = page.url /\ v \in ToSet(links)
    BY <1>1, <1>2 DEF Exploring, LinksDecided
  <2> QED
    BY <1>1, <2>2, <2>3
<1> QED
  BY <1>8, <1>9, <1>10, <1>11, <1>12 DEF Exploring

\* Every step.
LEMMA ExploringStep ==
    ASSUME IInv, IInv', KnownInv, Exploring, [Next]_vars
    PROVE  Exploring'
<1>1. TypeOK /\ web \in Webs /\ ExpansionTypeOK /\ ExpansionTypeOK' /\ LinksOpen
  BY DEF IInv, TypeOK
<1>2. ASSUME web' = web, UNCHANGED expansionVars PROVE Exploring'
  <2>1. Layers' = Layers
    BY <1>2, LayersKept DEF expansionVars
  <2> QED
    BY <1>2, <2>1 DEF expansionVars, Exploring, InOrder, WithinReach, LayersTaken, OffersFollowed,
       LinksDecided, Level, Ahead, AheadAt, Offered, Anchors, DomainAllowed, ToSet, LimitReached
<1>3. CASE StartExpansion
  <2>1. Values \in Seq(Urls)
    BY <1>1, MergeTypes, ValuesType DEF IInv
  <2> QED
    BY <1>1, <1>3, <2>1, ExploringBegin DEF StartExpansion
<1>4. CASE ExpandLinks
  BY <1>1, <1>4, ExploringRefused, ExploringArrives, ExploringSkips, ExploringTakes
     DEF ExpandLinks, ExpansionStep
<1>5. Discover => StartExpansion \/ ExpandLinks \/ (web' = web /\ UNCHANGED expansionVars)
  BY DEF Discover, SearchSource, SourceFails, SourceRaises, StartSitemaps, SearchSitemaps,
         SitemapsEnd,
         SitemapsFail, SitemapsRaise, ExpansionEnds, ExpansionFails, PageFails,
         ExpansionError, ExpansionRaises, AddCandidate, AddRaises, Yield
<1> QED
  BY <1>2, <1>3, <1>4, <1>5 DEF Next, Finished, vars

\* With nothing queued, everything within reach was asked for.
LEMMA NothingAhead ==
    ASSUME web \in Webs, ExpansionTypeOK, KnownInv, Exploring, ExpansionDone, ~LimitReached
    PROVE  Reach \subseteq visited
<1>0. pages = <<>> /\ links = <<>> /\ LayersTaken /\ OffersFollowed /\ LinksDecided
  BY DEF ExpansionDone, Exploring
<1>1. Ahead = {} /\ AheadAt(Level) = {} /\ Level \in 0 .. Furthest
  BY <1>0, LevelType DEF Ahead, AheadAt
<1>2. Layers[Level] \subseteq visited
  BY <1>0, <1>1 DEF LayersTaken
<1> DEFINE S == {n \in Nat: Level <= n /\ n <= Furthest => Layers[n] \subseteq visited}
<1>3. 0 \in S
  BY <1>1, <1>2
<1>4. ASSUME NEW n \in Nat, n \in S PROVE n + 1 \in S
  <2>1. CASE Level <= n /\ n + 1 <= Furthest
    <3>1. Layers[n] \subseteq visited /\ n \in 0 .. Furthest - 1 /\ Level < Furthest
      BY <1>1, <1>4, <2>1, FurthestDepth
    <3>2. Layers[n + 1] = Circle(Layers[n])
      BY <3>1, LayersFacts DEF LayersHold
    <3>3. ASSUME NEW f \in Circle(Layers[n]), f \notin Layers[n] PROVE f \in visited
      <4>1. PICK u \in UNION {PageLinks(p): p \in {q \in opened: CanonicalOrRaw(q) \in Layers[n]}}:
               f = CanonicalOrRaw(u)
        BY <3>3 DEF Circle
      <4>2. PICK p \in opened: u \in PageLinks(p)
        BY <4>1
      <4>3. u \in ToSet(Anchors(p)) /\ DomainAllowed(u, p) /\ u \notin Pdfs \cup Odd
        BY <4>2 DEF PageLinks
      <4>4. u \in Urls
        <5>1. p \in Urls
          BY DEF ExpansionTypeOK
        <5> QED
          BY <4>3, <5>1, AnchorsType DEF ToSet
      <4>5. CanonicalOrRaw(u) \in known
        BY <1>0, <4>3 DEF LinksDecided, ToSet
      <4> QED
        BY <1>0, <1>1, <3>1, <4>1, <4>3, <4>4, <4>5, KnownFollowed
    <3> QED
      BY <3>1, <3>2, <3>3
  <2>2. CASE Level = n + 1
    BY <1>2, <2>2
  <2> QED
    BY <1>1, <2>1, <2>2
<1> HIDE DEF S
<1>5. \A n \in Nat: n \in S
  BY ONLY <1>3, <1>4, NaturalInduction
<1>6. Layers[Furthest] \subseteq visited
  BY <1>1, <1>5, FurthestDepth DEF S
<1> QED
  BY <1>6, FurthestDepth DEF Reach

\* At the end of an expansion within the limits no page is left to be asked for.
LEMMA ExploringImplies ==
    ASSUME IInv, KnownInv, Exploring
    PROVE  ExpansionExact
<1>1. web \in Webs /\ ExpansionTypeOK
  BY DEF IInv, TypeOK
<1>2. Level \in 0 .. Furthest
  BY <1>1, LevelType
<1>3. visited \subseteq Reach
  BY <1>2, FurthestDepth, LayersFacts DEF Reach, LayersHold, Exploring, WithinReach
<1>4. ASSUME ExpansionDone, ~LimitReached PROVE visited = Reach /\ LinksFound
  <2>1. visited = Reach
    BY <1>1, <1>3, <1>4, NothingAhead
  <2>2. ASSUME NEW p \in opened, NEW u \in ToSet(Anchors(p)), DomainAllowed(u, p)
        PROVE  \E v \in ToSet(existing) \cup {c.url: c \in ToSet(expanded)}:
                   CanonicalOrRaw(v) = CanonicalOrRaw(u)
    <3>1. CanonicalOrRaw(u) \in known
      BY <1>4, <2>2 DEF Exploring, LinksDecided, ExpansionDone, ToSet
    <3>2. PICK v \in Offered: CanonicalOrRaw(v) = CanonicalOrRaw(u)
      BY <3>1 DEF KnownInv
    <3>3. v \in ToSet(existing) \cup {c.url: c \in ToSet(expanded)}
      BY DEF Offered, ToSet
    <3> QED
      BY <3>2, <3>3
  <2> QED
    BY <2>1, <2>2 DEF LinksFound
<1> QED
  BY <1>3, <1>4 DEF KnownInv, ExpansionExact

\* On every web, for any depth and limit of candidates: an expansion asks for a page and
\* offers a link at most once, asks for no page that is not within reach of the candidates
\* it began with, and if no limit stopped it, it asked for all of them and offers every
\* link that is allowed of those it read.
THEOREM ExpansionIsExact == Spec => []ExpansionExact
<1>1. Init => KnownInv
  BY DEF Init, ExpansionInit, KnownInv, Offered, CandidatesNew, PagesOnce, ToSet
<1>2. Init => Exploring
  <2> SUFFICES ASSUME Init PROVE Exploring
    OBVIOUS
  <2>1. /\ existing = <<>> /\ pages = <<>> /\ visited = {} /\ opened = {} /\ expanded = <<>> /\ links = <<>>
        /\ Level = 0
    BY DEF Init, ExpansionInit, Level
  <2>2. Layers[0] = {}
    BY <2>1, LayersFacts DEF LayersHold, Nearest, ToSet
  <2>3. Offered = {}
    BY <2>1 DEF Offered, ToSet
  <2> QED
    BY <2>1, <2>2, <2>3 DEF Exploring, InOrder, WithinReach, LayersTaken, OffersFollowed, LinksDecided
<1>3. IInv /\ IInv' /\ KnownInv /\ Exploring /\ [Next]_vars => Exploring'
  BY ExploringStep
<1>4. IInv /\ KnownInv /\ Exploring => ExpansionExact
  BY ExploringImplies
<1> QED
  BY <1>1, <1>2, <1>3, <1>4, KnownStep, SpecIInv, PTL DEF Spec
=============================================================================
