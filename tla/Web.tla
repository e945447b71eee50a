--------------------------------- MODULE Web ---------------------------------
(***************************************************************************)
(* What the traversals of the web share: URLs, what url_normalization.py    *)
(* makes of them, and the contents of the web.                              *)
(*                                                                          *)
(* URLs are values.  A URL is odd if canonicalize_url raises a ValueError   *)
(* for it (no http, no host, a port that is no number), and unparsable if   *)
(* urlsplit and urljoin raise one already.  It is unsendable if httpx       *)
(* raises InvalidURL before it connects (a port that is no number, a        *)
(* control character), which is no HttpClientError.                         *)
(***************************************************************************)
EXTENDS Integers, Sequences, FiniteSets, SequencesExt

CONSTANTS
    Urls,
    Odd, Unparsable, Unsendable,
    Canonical,          \* canonicalize_url of a URL that is not odd
    Pdfs,               \* the URLs whose path ends in .pdf, whatever their port
    DomainOf,           \* url_domain
    NoLoc,              \* a <url> of a sitemap without <loc>
    Roots,              \* domain_roots of the sitemap source
    Webs                \* the webs there may be

(* What the robots.txt of each root names; the pages with the hrefs of      *)
(* their anchors, the sitemap indexes and urlsets with what they list.      *)
WebType(w) ==
    /\ w.robots \in [DOMAIN Roots -> Seq(Urls)]
    /\ DOMAIN w.pages \subseteq Urls /\ \A u \in DOMAIN w.pages: w.pages[u] \in Seq(Urls)
    /\ DOMAIN w.indexes \subseteq Urls
    /\ \A u \in DOMAIN w.indexes: w.indexes[u] \in Seq(Urls)
    /\ DOMAIN w.urlsets \subseteq Urls \ DOMAIN w.indexes
    /\ \A u \in DOMAIN w.urlsets: w.urlsets[u] \in Seq(Urls \cup {NoLoc})

ASSUME WebAssumption ==
    /\ Unparsable \subseteq Odd /\ Odd \subseteq Urls /\ Unsendable \subseteq Urls
    /\ Canonical \in [Urls \ Odd -> Urls]
    /\ Pdfs \subseteq Urls \ Unparsable
    /\ NoLoc \notin Urls
    /\ Roots \in Seq(Urls \ (Unparsable \cup Unsendable)) /\ Roots # <<>>
    /\ \A w \in Webs: WebType(w)

\* the canonical form keeps what is asked about host and path
ASSUME CanonicalAssumption ==
    \A u \in Urls \ Odd:
        /\ Canonical[u] \in Pdfs => u \in Pdfs
        /\ \A v \in Urls \ Odd:
              Canonical[u] = Canonical[v] =>
                  (u \in Pdfs <=> v \in Pdfs) /\ DomainOf[u] = DomainOf[v]

VARIABLE web

CanonicalOrRaw(u) == IF u \in Odd THEN u ELSE Canonical[u]

IsPdf(u) == u \in Pdfs

\* the elements of s that are in S, in their order
Selected(s, S) ==
    LET positions == {i \in DOMAIN s: s[i] \in S}
        Nth(k) == CHOOSE i \in positions: Cardinality(positions \cap 1 .. i) = k
    IN  [k \in 1 .. Cardinality(positions) |-> s[Nth(k)]]

\* parse_links: anything that is not a page has no anchors
Anchors(u) == IF u \in DOMAIN web.pages THEN web.pages[u] ELSE <<>>
=============================================================================
