---------------------------- MODULE LinkExpansion ----------------------------
(***************************************************************************)
(* LinkExpansionAdapter.expand (link_expansion.py): the links of the pages  *)
(* among the candidates there are, breadth first, under a limit of depth    *)
(* and one of candidates.  A module that expands links extends this one and *)
(* says what the end of an expansion, an exception of the HTTP client and a *)
(* URL that cannot be parsed lead to.                                       *)
(***************************************************************************)
EXTENDS Web

CONSTANTS
    AllowedDomains, SameDomainOnly,
    MaxDepth, MaxCandidates

ASSUME LinkExpansionAssumption ==
    /\ SameDomainOnly \in BOOLEAN
    /\ MaxDepth \in Nat /\ MaxCandidates \in Nat

VARIABLES
    existing,           \* existing_candidates: their URLs
    pages,              \* queued_pages: [url, depth]
    visited,            \* visited_pages
    known,              \* seen_urls
    expanded,           \* expanded_candidates: [url, page]
    page, links,        \* the page at hand, and its links not yet looked at
    opened              \* history: the pages that were read

expansionVars == <<existing, pages, visited, known, expanded, page, links, opened>>

\* the depths at which a page is ever queued
Depths == 0 .. (IF MaxDepth = 0 THEN 0 ELSE MaxDepth - 1)
Pages == [url: Urls, depth: Depths]

ExpansionTypeOK ==
    /\ existing \in Seq(Urls)
    /\ pages \in Seq(Pages)
    /\ visited \subseteq Urls /\ known \subseteq Urls
    /\ expanded \in Seq([url: Urls, page: Urls])
    /\ Len(expanded) <= MaxCandidates
    /\ page \in Pages
    /\ links \in Seq(Urls)
    /\ opened \subseteq Urls

Queued(u) == [url |-> u, depth |-> 0]

\* the candidates that are pages
Landing(urls) == Selected(urls, Urls \ Pdfs)

ExpansionInit ==
    /\ existing = <<>> /\ pages = <<>>
    /\ visited = {} /\ known = {} /\ opened = {}
    /\ expanded = <<>> /\ links = <<>>
    /\ page = Queued(Roots[1])

BeginExpansion(urls) ==
    /\ existing' = urls
    /\ pages' = [i \in DOMAIN Landing(urls) |-> Queued(Landing(urls)[i])]
    /\ known' = {CanonicalOrRaw(u): u \in ToSet(urls)}
    /\ visited' = {} /\ opened' = {}
    /\ expanded' = <<>> /\ links' = <<>>
    /\ UNCHANGED page

-----------------------------------------------------------------------------
(* A mistake a change of the code could make; it takes the place of Know in *)
(* a run that must then fail.                                               *)

\* the link itself is compared, not its canonical form
KnowRaw(u) == known' = known \cup {u}

-----------------------------------------------------------------------------
(* Pages                                                                    *)

LimitReached == Len(expanded) >= MaxCandidates
AtPage == links = <<>> /\ pages # <<>> /\ ~LimitReached
ExpansionDone == links = <<>> /\ (pages = <<>> \/ LimitReached)

\* the two continue statements, about a visited page and about the depth, are never
\* reached: no page is queued twice, and none beyond the depth
TakePage ==
    /\ AtPage /\ Head(pages).url \notin Odd \cup Unsendable
    /\ page' = Head(pages)
    /\ pages' = Tail(pages)
    /\ visited' = visited \cup {CanonicalOrRaw(page'.url)}
    /\ UNCHANGED <<existing, known, expanded>>

PageArrives ==
    /\ TakePage
    /\ links' = Anchors(page'.url)
    /\ opened' = opened \cup {page'.url}

\* a status that is not 2xx: the page is skipped and the expansion goes on
PageRefused == TakePage /\ UNCHANGED <<links, opened>>

\* a timeout or a failed connection, or a URL without http: everything found is lost
PageFails ==
    /\ AtPage /\ Head(pages).url \notin Unsendable
    /\ UNCHANGED expansionVars

-----------------------------------------------------------------------------
(* Links                                                                    *)

\* _domain_allowed
DomainAllowed(u, from) ==
    SameDomainOnly => DomainOf[u] = DomainOf[from] \/ DomainOf[u] \in AllowedDomains

Wanted(u) == CanonicalOrRaw(u) \notin known /\ DomainAllowed(u, page.url)
AtLink == links # <<>> /\ Head(links) \notin Unparsable

SkipLink ==
    /\ AtLink /\ ~Wanted(Head(links))
    /\ links' = Tail(links)
    /\ UNCHANGED <<existing, pages, visited, known, expanded, page, opened>>

Know(u) == known' = known \cup {CanonicalOrRaw(u)}
Followed(u) == page.depth + 1 < MaxDepth /\ ~IsPdf(u)

\* the last candidate the limit allows breaks the loop before its page is queued
TakeLink ==
    LET u == Head(links)
    IN  /\ AtLink /\ Wanted(u)
        /\ expanded' = Append(expanded, [url |-> u, page |-> page.url])
        /\ Know(u)
        /\ \/ Len(expanded') >= MaxCandidates /\ links' = <<>> /\ UNCHANGED pages
           \/ /\ Len(expanded') < MaxCandidates
              /\ links' = Tail(links)
              /\ pages' = IF Followed(u)
                          THEN Append(pages, [url |-> u, depth |-> page.depth + 1])
                          ELSE pages
        /\ UNCHANGED <<existing, visited, page, opened>>

ExpansionStep == PageArrives \/ PageRefused \/ SkipLink \/ TakeLink

\* what nothing catches: urljoin's ValueError for a link, httpx's InvalidURL
ExpansionRaises ==
    /\ \/ links # <<>> /\ Head(links) \in Unparsable
       \/ AtPage /\ Head(pages).url \in Unsendable
    /\ UNCHANGED expansionVars

-----------------------------------------------------------------------------
(* Properties                                                               *)

\* the pages that a page leads to; what cannot be read as a URL is none
PageLinks(p) == {u \in ToSet(Anchors(p)) \ (Pdfs \cup Odd): DomainAllowed(u, p)}

\* the pages within reach of the candidates by the pages that were read, by their
\* distance: the reference the traversal is compared with
Layers ==
    LET R[n \in Depths] ==
            IF n = 0 THEN {CanonicalOrRaw(u): u \in ToSet(existing) \ Pdfs}
            ELSE R[n - 1] \cup
                 {CanonicalOrRaw(u): u \in UNION {PageLinks(p):
                     p \in {q \in opened: CanonicalOrRaw(q) \in R[n - 1]}}}
    IN  R

Reach == Layers[Max(Depths)]

\* every candidate is new, by its canonical URL, and linked from a page that was read
CandidatesNew ==
    \A i \in DOMAIN expanded:
        LET c == expanded[i]
        IN  /\ c.page \in opened
            /\ c.url \in ToSet(Anchors(c.page))
            /\ DomainAllowed(c.url, c.page)
            /\ \A u \in ToSet(existing) \cup {expanded[k].url: k \in 1 .. i - 1}:
                  CanonicalOrRaw(u) # CanonicalOrRaw(c.url)

\* every link that is allowed, of every page that was read, is there in the end
LinksFound ==
    \A p \in opened: \A u \in ToSet(Anchors(p)):
        DomainAllowed(u, p) =>
            \E v \in ToSet(existing) \cup {c.url: c \in ToSet(expanded)}:
                CanonicalOrRaw(v) = CanonicalOrRaw(u)

\* no page is requested twice in an expansion
PagesOnce ==
    \A i \in DOMAIN pages:
        \A u \in visited \cup {CanonicalOrRaw(pages[k].url): k \in 1 .. i - 1}:
            CanonicalOrRaw(pages[i].url) # u

\* An expansion offers only what is new, wherever links lead and whatever of it is
\* already a candidate under another form of its URL; it asks for exactly the pages
\* within reach, each of them once, and, unless the limit of candidates ends it, leaves no link out.
ExpansionExact ==
    /\ CandidatesNew
    /\ PagesOnce
    /\ visited \subseteq Reach
    /\ ExpansionDone /\ ~LimitReached => visited = Reach /\ LinksFound
=============================================================================
