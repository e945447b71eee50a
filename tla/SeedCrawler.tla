----------------------------- MODULE SeedCrawler -----------------------------
(***************************************************************************)
(* SeedCrawlerAdapter and RuntimeRobotsPolicy (seed_crawler.py): the        *)
(* searches of one process, each of which crawls every seed breadth first,  *)
(* and asks a site for its robots.txt the first time a URL of it comes up.  *)
(*                                                                          *)
(* URLs are values; what the code takes from their text (site, domain,      *)
(* whether it ends in .pdf) is given by constants.  The pages and the       *)
(* robots.txt files are what the web answers: the links of a page are fixed *)
(* by web, each request may also be refused or fail.  What cannot be parsed *)
(* as a URL or sent as a request raises an exception that nothing catches.  *)
(***************************************************************************)
EXTENDS HttpClient, Sequences, SequencesExt

CONSTANTS
    Urls,
    Webs,               \* the webs there may be: the links of each URL's page, in order
    Sites, NoSite,      \* scheme and netloc, the key of a policy; of an ftp: none
    SiteOf, DomainOf,   \* of a URL
    NetlocOf,           \* of a site: the key of the rate limit of its robots.txt
    SourceKey,          \* "source:seed_crawler", the key of all pages
    Pdfs,               \* the URLs that look like a PDF
    Unparsable,         \* the hrefs that urljoin or urlsplit raises a ValueError for
    Unsendable,         \* the URLs, and the sites by their robots.txt, that httpx raises
    UnsendableSites,    \* InvalidURL for, which is no HttpClientError
    Seeds,              \* seed_urls
    AllowedDomains, SameDomainOnly, MaxDepth, MaxPagesPerSeed,
    MaxSearches         \* bound: a search for every variant of the query

ASSUME SeedCrawlerAssumption ==
    /\ Webs \subseteq [Urls -> Seq(Urls)]
    /\ NoSite \notin Sites
    /\ SiteOf \in [Urls -> Sites \cup {NoSite}]
    /\ NetlocOf \in [Sites -> RateKeys]
    /\ SourceKey \in RateKeys
    /\ Unparsable \subseteq Urls /\ Unsendable \subseteq Urls /\ UnsendableSites \subseteq Sites
    /\ Seeds \in Seq(Urls \ Unparsable) /\ Seeds # <<>>
    /\ SameDomainOnly \in BOOLEAN
    /\ MaxDepth \in Nat /\ MaxPagesPerSeed \in Nat /\ MaxSearches \in Nat

VARIABLES
    web,
    policies,           \* the sites in _policies
    permitted,          \* the URLs their files permit; of a failed one, none
    read, asked,        \* history: sites whose robots.txt was read, how often it was asked
    search, seed,       \* which search, and the position in seed_urls
    queue, visited,     \* locals of _crawl_seed
    page, depth, links, \* the page at hand, and the links of it not yet looked at
    requested,          \* history: the pages requested in this search
    found,              \* candidates of this seed: [url, page]
    candidates, skips,  \* of this search: candidates of earlier seeds, robots events
    failed,             \* the search ended with an exception
    pc

robotsVars == <<policies, permitted, read, asked>>
pageVars == <<queue, visited, page, depth, links, found>>
vars == <<httpVars, web, robotsVars, search, seed, pageVars, requested, candidates, skips,
          failed, pc>>

\* what a candidate tells apart: where it leads and where it was found
Candidates == [url: Urls, page: Urls]

TypeOK ==
    /\ HttpTypeOK
    /\ web \in Webs
    /\ policies \subseteq Sites /\ permitted \subseteq Urls
    /\ read \subseteq Sites /\ asked \in [Sites -> Nat]
    /\ search \in 0 .. MaxSearches
    /\ seed \in 1 .. Len(Seeds)
    /\ queue \in Seq([url: Urls, depth: 0 .. MaxDepth])
    /\ visited \subseteq Urls /\ requested \subseteq Urls
    /\ page \in Urls /\ depth \in 0 .. MaxDepth
    /\ links \in Seq(Urls)
    /\ found \subseteq Candidates /\ candidates \subseteq Candidates
    /\ skips \subseteq Urls
    /\ failed \in BOOLEAN
    /\ pc \in {"idle", "next", "check", "page", "links", "raised"}

Init ==
    /\ HttpInit
    /\ web \in Webs
    /\ policies = {} /\ permitted = {}
    /\ read = {} /\ asked = [s \in Sites |-> 0]
    /\ search = 0 /\ seed = 1
    /\ queue = <<>> /\ visited = {} /\ requested = {}
    /\ page = Seeds[1] /\ depth = 0 /\ links = <<>>
    /\ found = {} /\ candidates = {} /\ skips = {}
    /\ failed = FALSE
    /\ pc = "idle"

-----------------------------------------------------------------------------

SiteUrls(s) == {u \in Urls: SiteOf[u] = s}

-----------------------------------------------------------------------------
(* Mistakes a change of the code could make; each one takes the place of    *)
(* the definition it is named after in a run that must then fail.           *)

\* newer pages first
PushFirst(u) == queue' = <<[url |-> u, depth |-> depth + 1]>> \o queue

\* a robots.txt that cannot be had permits everything, as a 404 does for urllib
PermitAll(s) ==
    /\ policies' = policies \cup {s}
    /\ permitted' = permitted \cup SiteUrls(s)

\* a failure is not kept
ForgetFailure(s) == UNCHANGED <<policies, permitted>>

-----------------------------------------------------------------------------
(* What the code asks about a URL                                           *)

\* can_fetch(u), once there is nothing left to ask for
Decided(u) == SiteOf[u] = NoSite \/ SiteOf[u] \in policies
CanFetch(u) == u \in permitted

\* _domain_allowed
DomainAllowed(u) ==
    SameDomainOnly => DomainOf[u] \in AllowedDomains \cup {DomainOf[Seeds[seed]]}

\* _should_collect_link, for a link of a page at depth d
ShouldCollect(u, d) == u \in Pdfs \/ d = 0 \/ d < MaxDepth

\* the page of u is crawled too
Followed(u, d) == d < MaxDepth /\ u \notin Pdfs

LimitReached == Cardinality(visited) >= MaxPagesPerSeed

\* the link to be looked at, which urljoin has made a URL of
AtLink == pc = "links" /\ links # <<>> /\ Head(links) \notin Unparsable

\* the URL whose policy the code needs now
AtHand(u) ==
    \/ pc = "check" /\ u = page
    \/ AtLink /\ u = Head(links) /\ DomainAllowed(u)

BeginSeed(n) ==
    /\ seed' = n
    /\ queue' = <<[url |-> Seeds[n], depth |-> 0]>>
    /\ visited' = {} /\ found' = {}
    /\ page' = Seeds[n] /\ depth' = 0 /\ links' = <<>>
    /\ pc' = "next"

-----------------------------------------------------------------------------
(* search and its seeds                                                     *)

StartSearch ==
    /\ pc = "idle" /\ search < MaxSearches
    /\ search' = search + 1
    /\ candidates' = {} /\ skips' = {} /\ requested' = {}
    /\ failed' = FALSE
    /\ BeginSeed(1)
    /\ UNCHANGED <<httpVars, web, robotsVars>>

\* the queue is empty or the limit reached: the next seed, or the end of the search
EndSeed ==
    /\ pc = "next"
    /\ queue = <<>> \/ LimitReached
    /\ candidates' = candidates \cup found
    /\ IF seed < Len(Seeds)
       THEN BeginSeed(seed + 1)
       ELSE pc' = "idle" /\ UNCHANGED <<seed, pageVars>>
    /\ UNCHANGED <<httpVars, web, robotsVars, search, requested, skips, failed>>

\* an exception of the page: nothing is returned, of no seed
FailSearch ==
    /\ found' = {} /\ candidates' = {}
    /\ failed' = TRUE
    /\ pc' = "idle"

-----------------------------------------------------------------------------
(* Pages                                                                    *)

\* popleft
TakePage ==
    /\ pc = "next" /\ queue # <<>> /\ ~LimitReached
    /\ page' = Head(queue).url /\ depth' = Head(queue).depth
    /\ queue' = Tail(queue)
    /\ pc' = IF page' \in visited THEN "next" ELSE "check"
    /\ UNCHANGED <<httpVars, web, robotsVars, search, seed, visited, links, found, requested,
                   candidates, skips, failed>>

\* the event "Skipped URL disallowed by robots policy."
RecordSkip(u) == skips' = skips \cup {u}

SkipPage ==
    /\ pc = "check" /\ Decided(page) /\ ~CanFetch(page)
    /\ RecordSkip(page)
    /\ pc' = "next"
    /\ UNCHANGED <<httpVars, web, robotsVars, search, seed, pageVars, requested, candidates,
                   failed>>

RequestPage ==
    /\ pc = "check" /\ Decided(page) /\ CanFetch(page) /\ page \notin Unsendable
    /\ Get(SourceKey)
    /\ requested' = requested \cup {page}
    /\ pc' = "page"
    /\ UNCHANGED <<web, robotsVars, search, seed, pageVars, candidates, skips, failed>>

\* a 2xx response
PageArrives ==
    /\ pc = "page" /\ Return
    /\ visited' = visited \cup {page}
    /\ links' = web[page]
    /\ pc' = "links"
    /\ UNCHANGED <<web, robotsVars, search, seed, queue, page, depth, found, requested,
                   candidates, skips, failed>>

\* any other status, a timeout or a failed connection
PageFails ==
    /\ pc = "page" /\ Return
    /\ FailSearch
    /\ UNCHANGED <<web, robotsVars, search, seed, queue, visited, page, depth, links,
                   requested, skips>>

-----------------------------------------------------------------------------
(* Links                                                                    *)

\* the first two continue statements
SkipLink ==
    /\ AtLink
    /\ \/ ~DomainAllowed(Head(links)) /\ UNCHANGED skips
       \/ /\ DomainAllowed(Head(links))
          /\ Decided(Head(links)) /\ ~CanFetch(Head(links))
          /\ RecordSkip(Head(links))
    /\ links' = Tail(links)
    /\ UNCHANGED <<httpVars, web, robotsVars, search, seed, queue, visited, page, depth,
                   found, requested, candidates, failed, pc>>

Enqueue(u) == queue' = Append(queue, [url |-> u, depth |-> depth + 1])

FollowLink ==
    LET u == Head(links)
    IN  /\ AtLink
        /\ DomainAllowed(u) /\ Decided(u) /\ CanFetch(u)
        /\ found' = IF ShouldCollect(u, depth)
                    THEN found \cup {[url |-> u, page |-> page]} ELSE found
        /\ \/ ShouldCollect(u, depth) /\ Followed(u, depth) /\ Enqueue(u)
           \/ ~(ShouldCollect(u, depth) /\ Followed(u, depth)) /\ UNCHANGED queue
        /\ links' = Tail(links)
        /\ UNCHANGED <<httpVars, web, robotsVars, search, seed, visited, page, depth,
                       requested, candidates, skips, failed, pc>>

LinksDone ==
    /\ pc = "links" /\ links = <<>>
    /\ pc' = "next"
    /\ UNCHANGED <<httpVars, web, robotsVars, search, seed, pageVars, requested, candidates,
                   skips, failed>>

-----------------------------------------------------------------------------
(* robots.txt                                                               *)

Waiting == pc \in {"check", "links"} /\ ~Idle

AskRobots ==
    \E u \in Urls:
        /\ AtHand(u) /\ ~Decided(u) /\ SiteOf[u] \notin UnsendableSites
        /\ Get(NetlocOf[SiteOf[u]])
        /\ asked' = [asked EXCEPT ![SiteOf[u]] = @ + 1]
        /\ UNCHANGED <<web, policies, permitted, read, search, seed, pageVars, requested,
                       candidates, skips, failed, pc>>

\* a 2xx response that is UTF-8: the file permits some of the URLs of its site
RobotsArrives ==
    \E u \in Urls:
        /\ Waiting /\ AtHand(u) /\ Return
        /\ policies' = policies \cup {SiteOf[u]}
        /\ \E allowed \in SUBSET SiteUrls(SiteOf[u]): permitted' = permitted \cup allowed
        /\ read' = read \cup {SiteOf[u]}
        /\ UNCHANGED <<web, asked, search, seed, pageVars, requested, candidates, skips,
                       failed, pc>>

\* the policy None, kept like any other: nothing of the site may be fetched
DenyAll(s) == policies' = policies \cup {s} /\ UNCHANGED permitted

\* another status, other bytes, a timeout or a failed connection
RobotsUnavailable ==
    \E u \in Urls:
        /\ Waiting /\ AtHand(u) /\ Return
        /\ DenyAll(SiteOf[u])
        /\ UNCHANGED <<web, read, asked, search, seed, pageVars, requested, candidates,
                       skips, failed, pc>>

-----------------------------------------------------------------------------
(* What nothing catches                                                     *)

\* urljoin of a link, the request of a robots.txt, that of a page: the search ends with
\* the run of the pipeline that it belongs to
Raise ==
    /\ Idle
    /\ \/ pc = "links" /\ links # <<>> /\ Head(links) \in Unparsable
       \/ \E u \in Urls: AtHand(u) /\ ~Decided(u) /\ SiteOf[u] \in UnsendableSites
       \/ pc = "check" /\ Decided(page) /\ CanFetch(page) /\ page \in Unsendable
    /\ pc' = "raised"
    /\ UNCHANGED <<httpVars, web, robotsVars, search, seed, pageVars, requested, candidates,
                   skips, failed>>

-----------------------------------------------------------------------------

Request ==
    /\ HttpStep
    /\ UNCHANGED <<web, robotsVars, search, seed, pageVars, requested, candidates, skips,
                   failed, pc>>

-----------------------------------------------------------------------------

Crawl ==
    \/ StartSearch \/ EndSeed \/ TakePage \/ SkipPage \/ RequestPage \/ PageArrives
    \/ PageFails \/ SkipLink \/ FollowLink \/ LinksDone \/ AskRobots \/ RobotsArrives
    \/ RobotsUnavailable \/ Raise \/ Request

\* the process goes on to its other sources, or ends
Finished ==
    /\ pc = "raised" \/ (pc = "idle" /\ search = MaxSearches)
    /\ UNCHANGED vars

Next == Crawl \/ Finished
Spec == Init /\ [][Next]_vars

\* one thread, and every request ends by its timeout
FairSpec == Spec /\ WF_vars(Crawl)

-----------------------------------------------------------------------------
(* Properties                                                               *)

\* Whatever the order in which sites come up, by a seed or by a link, no page is
\* requested and none is offered as a candidate before the robots.txt of its site has
\* been read and has permitted it; and what is reported as disallowed is not requested.
RobotsRespected ==
    \A u \in requested \cup {c.url: c \in found \cup candidates}:
        /\ SiteOf[u] \in read
        /\ u \in permitted
        /\ u \notin skips

\* A process asks a site for its robots.txt once, for all seeds and searches, and also
\* when the first answer was an error.
RobotsAskedOnce == \A s \in Sites: asked[s] <= 1

\* the pages within reach of the seed, by their distance, over all links that are
\* allowed: the reference the traversal is compared with
Reach ==
    LET W[n \in 0 .. MaxDepth] ==
            IF n = 0 THEN {Seeds[seed]} \cap permitted
            ELSE W[n - 1] \cup
                 {u \in permitted \ Pdfs:
                     DomainAllowed(u) /\ \E p \in W[n - 1]: u \in ToSet(web[p])}
    IN  W

\* a page is taken at its least distance from the seed, though links form cycles and a
\* page is queued once for every link to it: at a greater one its links would be lost
LeastDepth ==
    pc \in {"page", "links"} =>
        /\ page \in Reach[depth]
        /\ \A n \in 0 .. depth - 1: page \notin Reach[n]

\* what the traversal of a seed is to end with
SeedIsExact ==
    pc = "next" /\ (queue = <<>> \/ LimitReached) =>
        /\ \/ visited = Reach[MaxDepth] /\ Cardinality(visited) <= MaxPagesPerSeed
           \/ visited \subseteq Reach[MaxDepth] /\ Cardinality(visited) = MaxPagesPerSeed
        /\ found = {c \in Candidates:
                      /\ c.page \in visited
                      /\ c.url \in ToSet(web[c.page]) \cap permitted
                      /\ DomainAllowed(c.url)
                      /\ \/ c.url \in Pdfs \/ c.page = Seeds[seed]
                         \/ MaxDepth > 0 /\ c.page \in Reach[MaxDepth - 1]}

\* Every page is crawled at its least distance from the seed; a seed ends with all pages
\* within reach, or as many as the limit allows, and from those pages exactly the links
\* that are allowed, a landing page only where it is to be followed or linked from the
\* seed itself.
CrawlIsExact == LeastDepth /\ SeedIsExact

\* A search comes to its end, on pages that link in circles and with servers that answer
\* with a transient error for ever.
SearchEnds == pc \notin {"idle", "raised"} ~> pc \in {"idle", "raised"}
=============================================================================
