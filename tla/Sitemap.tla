------------------------------- MODULE Sitemap -------------------------------
(***************************************************************************)
(* SitemapAdapter.search (sitemap.py): from the robots.txt of every root    *)
(* through indexes of sitemaps to the lists of URLs, under a limit of files *)
(* and one of entries.  A module that searches sitemaps extends this one    *)
(* and says what the end of a search, its failure and a URL that cannot be  *)
(* parsed lead to.                                                          *)
(***************************************************************************)
EXTENDS Web

CONSTANTS
    Frontier,           \* the URLs _sitemap_url_allowed accepts
    Documents,          \* the URLs _is_candidate_url accepts
    MaxSitemapFiles, MaxUrlEntries

ASSUME SitemapAssumption ==
    /\ Frontier \subseteq Urls \ Unparsable
    /\ Documents \subseteq Urls \ Unparsable
    /\ MaxSitemapFiles \in Nat /\ MaxUrlEntries \in Nat

VARIABLES
    reading,            \* before a robots.txt, or in the loop of sitemap_queue
    root,               \* the position in domain_roots
    sitemaps,           \* sitemap_queue
    seen,               \* seen_sitemaps
    fetched, inspected, \* SitemapTraversalState
    listed,             \* the URLs of the candidates
    events,
    asked               \* history: how often a sitemap was requested in this search

sitemapVars ==
    <<reading, root, sitemaps, seen, fetched, inspected, listed, events, asked>>

Events ==
    [type: {"frontier_rejected", "traversal_limit_reached", "malformed_entry",
            "url_entry_limit_reached"},
     url: Urls]

SitemapTypeOK ==
    /\ reading \in {"robots", "queue"}
    /\ root \in DOMAIN Roots
    /\ sitemaps \in Seq(Frontier)
    /\ seen \subseteq Frontier
    /\ fetched \in 0 .. MaxSitemapFiles
    /\ inspected \in 0 .. MaxUrlEntries
    /\ listed \in Seq(Documents)
    /\ events \subseteq Events
    /\ asked \in [Urls -> Nat]

SitemapInit ==
    /\ reading = "robots" /\ root = 1 /\ sitemaps = <<>>
    /\ seen = {} /\ fetched = 0 /\ inspected = 0
    /\ listed = <<>> /\ events = {}
    /\ asked = [u \in Urls |-> 0]

BeginSitemaps ==
    /\ reading' = "robots" /\ root' = 1 /\ sitemaps' = <<>>
    /\ seen' = {} /\ fetched' = 0 /\ inspected' = 0
    /\ listed' = <<>> /\ events' = {}
    /\ asked' = [u \in Urls |-> 0]

-----------------------------------------------------------------------------
(* Helpers                                                                  *)

Event(type, url) == [type |-> type, url |-> url]

\* _allowed_sitemap_urls; what the loop of sitemap_queue takes out of the queue
\* therefore passes its own check
Enqueued(urls) == Selected(urls, Frontier)
Rejections(urls) == {Event("frontier_rejected", u): u \in ToSet(urls) \ Frontier}

\* the entries of a urlset there is still room for
Room(locs) ==
    IF Len(locs) <= MaxUrlEntries - inspected THEN Len(locs) ELSE MaxUrlEntries - inspected

\* _is_candidate_url
DocumentsAmong(locs) == Selected(locs, Documents)

\* _candidates_from_urlset; an event about an entry without a URL names the sitemap
UrlOr(loc, sitemap) == IF loc = NoLoc THEN sitemap ELSE loc
EntryEvents(locs, sitemap) ==
    {Event("malformed_entry", sitemap): i \in {k \in 1 .. Room(locs): locs[k] = NoLoc}}
    \cup {Event("url_entry_limit_reached", UrlOr(locs[i], sitemap)):
             i \in Room(locs) + 1 .. Len(locs)}

-----------------------------------------------------------------------------
(* Mistakes a change of the code could make; each one takes the place of    *)
(* the definition it is named after in a run that must then fail.           *)

\* the first sitemap past the limit is read too
LimitReachedLate == fetched > MaxSitemapFiles

\* a sitemap is remembered when it has been read, and an index is not
SeenUrlsetsOnly(u) == seen' = IF u \in DOMAIN web.urlsets THEN seen \cup {u} ELSE seen

\* the limit is checked before popleft
LeftInQueue ==
    /\ events' = events \cup {Event("traversal_limit_reached", Head(sitemaps))}
    /\ UNCHANGED sitemaps

-----------------------------------------------------------------------------
(* The loop of sitemap_queue                                                *)

FileLimitReached == fetched >= MaxSitemapFiles

AtSitemap == reading = "queue" /\ sitemaps # <<>>

\* an event for every sitemap left out
LeaveOut ==
    /\ events' = events \cup {Event("traversal_limit_reached", Head(sitemaps))}
    /\ sitemaps' = Tail(sitemaps)

SkipForLimit ==
    /\ AtSitemap /\ FileLimitReached
    /\ LeaveOut
    /\ UNCHANGED <<reading, root, seen, fetched, inspected, listed, asked>>

\* the counter is increased before the sitemap is known to be new
SkipSeen ==
    /\ AtSitemap /\ ~FileLimitReached
    /\ Head(sitemaps) \in seen
    /\ fetched' = fetched + 1
    /\ sitemaps' = Tail(sitemaps)
    /\ UNCHANGED <<reading, root, seen, inspected, listed, events, asked>>

Remember(u) == seen' = seen \cup {u}

\* _read_sitemap up to its request
RequestSitemap(u) ==
    /\ AtSitemap /\ ~FileLimitReached
    /\ u = Head(sitemaps) /\ u \notin seen
    /\ fetched' = fetched + 1
    /\ Remember(u)
    /\ asked' = [asked EXCEPT ![u] = @ + 1]

ReadIndex ==
    \E u \in DOMAIN web.indexes \ Unsendable:
        /\ RequestSitemap(u)
        /\ ToSet(web.indexes[u]) \cap Unparsable = {}
        /\ sitemaps' = Tail(sitemaps) \o Enqueued(web.indexes[u])
        /\ events' = events \cup Rejections(web.indexes[u])
        /\ UNCHANGED <<reading, root, inspected, listed>>

ReadUrlset ==
    \E u \in DOMAIN web.urlsets \ Unsendable:
        LET locs == web.urlsets[u]
            inspectedLocs == SubSeq(locs, 1, Room(locs))
        IN  /\ RequestSitemap(u)
            /\ ToSet(inspectedLocs) \cap Unparsable = {}
            /\ inspected' = inspected + Room(locs)
            /\ listed' = listed \o DocumentsAmong(inspectedLocs)
            /\ events' = events \cup EntryEvents(locs, u)
            /\ sitemaps' = Tail(sitemaps)
            /\ UNCHANGED <<reading, root>>

\* XML with another root element
ReadOther ==
    \E u \in Urls \ (DOMAIN web.indexes \cup DOMAIN web.urlsets \cup Unsendable):
        /\ RequestSitemap(u)
        /\ sitemaps' = Tail(sitemaps)
        /\ UNCHANGED <<reading, root, inspected, listed, events>>

-----------------------------------------------------------------------------
(* Roots                                                                    *)

\* _sitemaps_from_root: the Sitemap lines of the robots.txt
ReadRobots ==
    LET named == web.robots[root]
    IN  /\ reading = "robots"
        /\ ToSet(named) \cap Unparsable = {}
        /\ sitemaps' = Enqueued(named)
        /\ events' = events \cup Rejections(named)
        /\ reading' = "queue"
        /\ UNCHANGED <<root, seen, fetched, inspected, listed, asked>>

NextRoot ==
    /\ reading = "queue" /\ sitemaps = <<>> /\ root < Len(Roots)
    /\ root' = root + 1
    /\ reading' = "robots"
    /\ UNCHANGED <<sitemaps, seen, fetched, inspected, listed, events, asked>>

SitemapStep ==
    \/ ReadRobots \/ NextRoot \/ SkipForLimit \/ SkipSeen
    \/ ReadIndex \/ ReadUrlset \/ ReadOther

SitemapsDone == reading = "queue" /\ sitemaps = <<>> /\ root = Len(Roots)

\* another status, bytes that are no UTF-8 or no XML, a timeout or a failed connection:
\* the search has no candidates, but its events are kept
SitemapFails ==
    \/ reading = "robots" /\ UNCHANGED sitemapVars
    \/ /\ \E u \in Urls \ Unsendable: RequestSitemap(u)
       /\ UNCHANGED <<reading, root, sitemaps, inspected, listed, events>>

\* what nothing catches: urlsplit's ValueError for what was read, httpx's InvalidURL
SitemapRaises ==
    /\ \/ reading = "robots" /\ ToSet(web.robots[root]) \cap Unparsable # {}
       \/ \E u \in Urls:
             /\ AtSitemap /\ ~FileLimitReached /\ u = Head(sitemaps) /\ u \notin seen
             /\ \/ u \in Unsendable
                \/ u \in DOMAIN web.indexes /\ ToSet(web.indexes[u]) \cap Unparsable # {}
                \/ /\ u \in DOMAIN web.urlsets
                   /\ \E i \in 1 .. Room(web.urlsets[u]): web.urlsets[u][i] \in Unparsable
    /\ UNCHANGED sitemapVars

-----------------------------------------------------------------------------
(* Properties                                                               *)

Reported(type) == {e.url: e \in {x \in events: x.type = type}}

SitemapsRead == {u \in Urls: asked[u] > 0}
Named ==
    UNION ({ToSet(web.robots[i]): i \in DOMAIN Roots}
           \cup {ToSet(web.indexes[u]): u \in SitemapsRead \cap DOMAIN web.indexes})
UrlsetsRead == SitemapsRead \cap DOMAIN web.urlsets
EntriesOf(u) == Len(web.urlsets[u])
DocumentsOf(u) == ToSet(web.urlsets[u]) \cap Documents
Entries == MapThenSumSet(EntriesOf, UrlsetsRead)

\* Nothing outside the frontier is requested, no sitemap twice, and no more than the
\* limit; a sitemap that is named again uses up the limit without a request.
FrontierKept ==
    /\ SitemapsRead \subseteq Frontier
    /\ \A u \in SitemapsRead: asked[u] = 1
    /\ Cardinality(SitemapsRead) <= fetched

\* When the search ends, every sitemap that a robots.txt or an index names has been
\* read, or left out with an event that says why, and so has every entry; nothing is
\* left out before its limit is used up.
NothingLostSilently ==
    SitemapsDone =>
        /\ Named \cap Frontier = SitemapsRead \cup Reported("traversal_limit_reached")
        /\ Named \ Frontier = Reported("frontier_rejected")
        /\ Reported("traversal_limit_reached") # {} => fetched = MaxSitemapFiles
        /\ UNION {DocumentsOf(u): u \in UrlsetsRead} \subseteq
              ToSet(listed) \cup Reported("url_entry_limit_reached")
        /\ inspected = IF Entries < MaxUrlEntries THEN Entries ELSE MaxUrlEntries
        /\ Reported("url_entry_limit_reached") # {} <=> Entries > MaxUrlEntries

\* What a search of the sitemaps offers comes from sitemaps of the frontier that it
\* requested once each, and what it leaves out of its two limits it reports, also when
\* indexes name each other in circles.
SitemapExact ==
    /\ FrontierKept
    /\ ToSet(listed) \subseteq UNION {DocumentsOf(u): u \in UrlsetsRead}
    /\ NothingLostSilently
=============================================================================
