------------------------------ MODULE Discovery ------------------------------
(***************************************************************************)
(* DiscoveryPipeline (discovery_pipeline.py): for every variant of a query  *)
(* the sources one after the other (run_source_search of sources.py), then  *)
(* the expansion of the links of everything found so far; all candidates    *)
(* are merged by canonical URL.                                             *)
(*                                                                          *)
(* The sitemap source and the link expansion are those of their modules.    *)
(* The other sources are their answers: a list of candidates, a failure, or *)
(* what their adapter does not expect.                                      *)
(* iter_search and search do the same; the one yields each step, the other  *)
(* returns the merged candidates at the end.                                *)
(***************************************************************************)
EXTENDS Sitemap, LinkExpansion

CONSTANTS
    Sources,            \* the sources that build_search_sources makes, in order
    SitemapSource,      \* the one among them that reads sitemaps, if any
    ExpansionSource,    \* SourceKind.LINK_EXPANSION
    Answers,            \* of each other source: the lists of candidates it may return
    Malformed,          \* among them: an answer of another shape, which its adapter
                        \* cannot make candidates of
    SourceRank, UrlRank,    \* the order of their texts
    SitemapScore, LinkScore, PdfLinkScore,
    Variants            \* bound: variants of a query, at most max_variants

SourceNames == ToSet(Sources) \cup {ExpansionSource}

\* what the merge and the traversals look at in a RawCandidate
Candidates == [url: Urls, source: SourceNames, score: Nat]

ASSUME DiscoveryAssumption ==
    /\ Sources \in Seq(SourceNames) /\ ExpansionSource \notin ToSet(Sources)
    /\ \A s \in ToSet(Sources) \ {SitemapSource}:
          Answers[s] \ {Malformed} \subseteq Seq(Candidates)
    /\ SourceRank \in [SourceNames -> Nat]
    /\ UrlRank \in [Urls -> Nat]
    /\ SitemapScore \in Nat /\ LinkScore \in Nat /\ PdfLinkScore \in Nat
    /\ Variants \in Nat \ {0}

VARIABLES
    pc,
    variant, source,    \* positions in query_plan.variants and sources
    todo, status,       \* of the step at hand: candidates not yet added, status
    table, order,       \* candidates_by_canonical_url: its values and its keys
    finds,              \* history: every candidate added, with its variant
    steps               \* history: the steps that were yielded

mergeVars == <<table, order, finds>>
stepVars == <<variant, source, todo, status>>
vars == <<web, sitemapVars, expansionVars, pc, stepVars, mergeVars, steps>>

\* A merged candidate is the find that is kept, the finds it was merged from
\* (source_occurrences) and merged_count.
TableEntries == [best: Nat, occurrences: SUBSET Nat, count: Nat]

TypeOK ==
    /\ web \in Webs
    /\ SitemapTypeOK /\ ExpansionTypeOK
    /\ pc \in {"search", "sitemap", "expand", "add", "done", "raised"}
    /\ variant \in 1 .. Variants
    /\ source \in 1 .. Len(Sources) + 1
    /\ todo \in Seq(Candidates)
    /\ status \in {"completed", "failed"}
    /\ DOMAIN table \subseteq Urls
    /\ \A u \in DOMAIN table: table[u] \in TableEntries
    /\ order \in Seq(Urls)
    /\ finds \in Seq([candidate: Candidates, variant: 1 .. Variants])
    /\ steps \in Seq([variant: 1 .. Variants, source: SourceNames,
                      status: {"completed", "failed"}, finds: Nat])

Init ==
    /\ web \in Webs
    /\ SitemapInit /\ ExpansionInit
    /\ pc = "search"
    /\ variant = 1 /\ source = 1
    /\ todo = <<>> /\ status = "completed"
    /\ table = <<>> /\ order = <<>> /\ finds = <<>>
    /\ steps = <<>>

Expanding == source = Len(Sources) + 1
SourceName == IF Expanding THEN ExpansionSource ELSE Sources[source]

-----------------------------------------------------------------------------
(* The merge by canonical URL                                               *)

\* _candidate_sort_key
Precedes(c, d) ==
    \/ c.score > d.score
    \/ /\ c.score = d.score
       /\ \/ SourceRank[c.source] < SourceRank[d.source]
          \/ /\ SourceRank[c.source] = SourceRank[d.source]
             /\ UrlRank[c.url] < UrlRank[d.url]

Cand(i) == finds[i].candidate

\* _enrich_candidate
Enriched(c) == [candidate |-> c, variant |-> variant]
Alone(i) == [best |-> i, occurrences |-> {i}, count |-> 1]

\* the later candidate is kept if it is as good
PreferredLater(entry, c, i) == IF Precedes(Cand(entry.best), c) THEN entry.best ELSE i

\* _preferred_candidate
Preferred(entry, c, i) == IF Precedes(c, Cand(entry.best)) THEN i ELSE entry.best

\* _merge_candidates
Merged(entry, c, i) ==
    [best |-> Preferred(entry, c, i), occurrences |-> entry.occurrences \cup {i},
     count |-> entry.count + 1]

\* _add_candidate
Merge(c) ==
    LET i == Len(finds) + 1
        key == Canonical[c.url]
    IN  /\ finds' = Append(finds, Enriched(c))
        /\ \/ /\ key \notin DOMAIN table
              /\ table' = [u \in DOMAIN table \cup {key} |->
                              IF u = key THEN Alone(i) ELSE table[u]]
              /\ order' = Append(order, key)
           \/ /\ key \in DOMAIN table
              /\ table' = [table EXCEPT ![key] = Merged(@, c, i)]
              /\ UNCHANGED order

-----------------------------------------------------------------------------
(* Steps of a variant                                                       *)

\* the result of a source or of the expansion
Found(candidates, s) ==
    /\ todo' = candidates /\ status' = s
    /\ pc' = "add"
    /\ UNCHANGED <<variant, source, mergeVars, steps>>

\* an exception that neither run_source_search nor the pipeline catches
Raise == pc' = "raised" /\ UNCHANGED <<stepVars, mergeVars, steps>>

\* a link expansion without its except
FailedUncaught ==
    \/ pc = "expand" /\ Raise
    \/ pc # "expand" /\ Found(<<>>, "failed")

\* an empty result with an error
Failed == Found(<<>>, "failed")

\* run_source_search of a source that is one request or more, and its answer
SearchSource ==
    /\ pc = "search" /\ ~Expanding /\ SourceName # SitemapSource
    /\ \E candidates \in Answers[SourceName] \ {Malformed}: Found(candidates, "completed")
    /\ UNCHANGED <<web, sitemapVars, expansionVars>>

\* an exception that run_source_search knows (SourceError, HttpClientError, bytes that are
\* no JSON, no UTF-8 or no XML), or a source that is disabled
SourceFails ==
    /\ pc = "search" /\ ~Expanding /\ SourceName # SitemapSource
    /\ Failed
    /\ UNCHANGED <<web, sitemapVars, expansionVars>>

\* any other one: pydantic's ValidationError for a result without title or URL, an
\* AttributeError for a list in place of an object, what urljoin or httpx raises in a crawl
SourceRaises ==
    /\ pc = "search" /\ ~Expanding /\ SourceName # SitemapSource
    /\ Malformed \in Answers[SourceName]
    /\ Raise
    /\ UNCHANGED <<web, sitemapVars, expansionVars>>

StartSitemaps ==
    /\ pc = "search" /\ ~Expanding /\ SourceName = SitemapSource
    /\ BeginSitemaps
    /\ pc' = "sitemap"
    /\ UNCHANGED <<web, expansionVars, stepVars, mergeVars, steps>>

SearchSitemaps ==
    /\ pc = "sitemap" /\ SitemapStep
    /\ UNCHANGED <<web, expansionVars, pc, stepVars, mergeVars, steps>>

SitemapCandidate(u) == [url |-> u, source |-> SitemapSource, score |-> SitemapScore]

SitemapsEnd ==
    /\ pc = "sitemap" /\ SitemapsDone
    /\ Found([i \in DOMAIN listed |-> SitemapCandidate(listed[i])], "completed")
    /\ UNCHANGED <<web, sitemapVars, expansionVars>>

SitemapsFail ==
    /\ pc = "sitemap" /\ SitemapFails /\ Failed
    /\ UNCHANGED <<web, expansionVars>>

SitemapsRaise ==
    /\ pc = "sitemap" /\ SitemapRaises /\ Raise
    /\ UNCHANGED <<web, expansionVars>>

-----------------------------------------------------------------------------
(* Link expansion                                                           *)

\* list(candidates_by_canonical_url.values()): in the order of their first finds
Values == [i \in DOMAIN order |-> Cand(table[order[i]].best).url]

StartExpansion ==
    /\ pc = "search" /\ Expanding
    /\ BeginExpansion(Values)
    /\ pc' = "expand"
    /\ UNCHANGED <<web, sitemapVars, stepVars, mergeVars, steps>>

ExpandLinks ==
    /\ pc = "expand" /\ ExpansionStep
    /\ UNCHANGED <<web, sitemapVars, pc, stepVars, mergeVars, steps>>

\* _candidate_from_link; the text of a link, which adds to its score, is left out
LinkCandidate(u) ==
    [url |-> u, source |-> ExpansionSource,
     score |-> IF IsPdf(u) THEN PdfLinkScore ELSE LinkScore]

ExpansionEnds ==
    /\ pc = "expand" /\ ExpansionDone
    /\ Found([i \in DOMAIN expanded |-> LinkCandidate(expanded[i].url)], "completed")
    /\ UNCHANGED <<web, sitemapVars, expansionVars>>

ExpansionFails ==
    /\ pc = "expand" /\ PageFails /\ Failed
    /\ UNCHANGED <<web, sitemapVars>>

ExpansionError ==
    /\ pc = "expand" /\ ExpansionRaises /\ Raise
    /\ UNCHANGED <<web, sitemapVars>>

-----------------------------------------------------------------------------
(* The candidates of a step, and the next step                              *)

AddCandidate ==
    /\ pc = "add" /\ todo # <<>> /\ Head(todo).url \notin Odd
    /\ Merge(Head(todo))
    /\ todo' = Tail(todo)
    /\ UNCHANGED <<web, sitemapVars, expansionVars, pc, variant, source, status, steps>>

\* canonicalize_url
AddRaises ==
    /\ pc = "add" /\ todo # <<>> /\ Head(todo).url \in Odd
    /\ Raise
    /\ UNCHANGED <<web, sitemapVars, expansionVars>>

\* the loops over the sources and over the variants
Yield ==
    /\ pc = "add" /\ todo = <<>>
    /\ steps' = Append(steps, [variant |-> variant, source |-> SourceName,
                               status |-> status, finds |-> Len(finds)])
    /\ \/ ~Expanding /\ source' = source + 1 /\ variant' = variant /\ pc' = "search"
       \/ Expanding /\ variant < Variants
             /\ source' = 1 /\ variant' = variant + 1 /\ pc' = "search"
       \/ Expanding /\ variant = Variants /\ pc' = "done" /\ UNCHANGED <<variant, source>>
    /\ UNCHANGED <<web, sitemapVars, expansionVars, todo, status, mergeVars>>

Discover ==
    \/ SearchSource \/ SourceFails \/ SourceRaises
    \/ StartSitemaps \/ SearchSitemaps \/ SitemapsEnd \/ SitemapsFail \/ SitemapsRaise
    \/ StartExpansion \/ ExpandLinks \/ ExpansionEnds \/ ExpansionFails \/ ExpansionError
    \/ AddCandidate \/ AddRaises \/ Yield

Over == pc \in {"done", "raised"}
Finished == Over /\ UNCHANGED vars

Next == Discover \/ Finished
Spec == Init /\ [][Next]_vars

\* one thread; every request ends by its timeout, and the consumer takes every step
FairSpec == Spec /\ WF_vars(Discover)

-----------------------------------------------------------------------------
(* Properties                                                               *)

Key(i) == Canonical[Cand(i).url]
FindsOf(u) == {i \in DOMAIN finds: Key(i) = u}

\* the entry of a URL: the find that goes before all others, the first one of equals,
\* with all of them as its occurrences
BestOf(u) ==
    LET entry == table[u]
    IN  /\ entry.occurrences = FindsOf(u)
        /\ entry.count = Cardinality(FindsOf(u))
        /\ entry.best \in FindsOf(u)
        /\ \A i \in FindsOf(u):
              /\ ~Precedes(Cand(i), Cand(entry.best))
              /\ i < entry.best => Precedes(Cand(entry.best), Cand(i))

\* every find has an entry
NothingDropped ==
    /\ DOMAIN table = {Key(i): i \in DOMAIN finds}
    /\ ToSet(order) = DOMAIN table

\* the entries are in the order of their first finds
InOrderOfArrival ==
    \A m, n \in DOMAIN order:
        m < n => \E i \in FindsOf(order[m]): \A k \in FindsOf(order[n]): i < k

\* Merged one by one, in whatever order sources and variants report them, the candidates
\* come to what comparing all of them at once gives: none is lost, counted twice or kept
\* in place of a better one, and they keep the order in which their URLs came up, which
\* is the order in which their links are expanded.
MergeKeepsBest ==
    /\ NothingDropped
    /\ \A u \in DOMAIN table: BestOf(u)
    /\ InOrderOfArrival

StepsOfVariant == Len(Sources) + 1
VariantOf(k) == ((k - 1) \div StepsOfVariant) + 1
PositionOf(k) == ((k - 1) % StepsOfVariant) + 1
Planned(k) ==
    [variant |-> VariantOf(k),
     source |-> IF PositionOf(k) = StepsOfVariant THEN ExpansionSource
                ELSE Sources[PositionOf(k)]]
FindsBefore(k) == IF k = 1 THEN 0 ELSE steps[k - 1].finds

\* every URL there is on the web
WebUrls ==
    UNION ({ToSet(web.robots[i]): i \in DOMAIN Roots}
           \cup {ToSet(web.pages[u]): u \in DOMAIN web.pages}
           \cup {ToSet(web.indexes[u]): u \in DOMAIN web.indexes}
           \cup {ToSet(web.urlsets[u]): u \in DOMAIN web.urlsets})

\* the URLs the run has met: of the web, of the step at hand and of the finds
MetUrls == WebUrls \cup {c.url: c \in ToSet(todo)} \cup {Cand(i).url: i \in DOMAIN finds}

\* the answer at hand is one its adapter cannot read
AnswerMalformed ==
    /\ ~Expanding /\ SourceName # SitemapSource
    /\ Malformed \in Answers[SourceName]

\* A source or a link expansion that fails in a way the pipeline knows costs its own step
\* and no other: every source of every variant has its step, in the order of the plan.
\* An answer of another shape than its adapter reads, and a URL that cannot be read or
\* requested, end the run, and nothing else does: the steps before stay, the one at hand
\* and all that were to come are lost.
FailuresContained ==
    /\ \A k \in DOMAIN steps:
          /\ steps[k].variant = Planned(k).variant /\ steps[k].source = Planned(k).source
          /\ steps[k].status = "failed" => steps[k].finds = FindsBefore(k)
    /\ pc = "done" => Len(steps) = Variants * StepsOfVariant
    /\ pc = "raised" =>
          /\ AnswerMalformed \/ (Odd \cup Unsendable) \cap MetUrls # {}
          /\ Len(steps) = (variant - 1) * StepsOfVariant + source - 1

\* A run comes to its end: sitemaps that name each other and pages that link to each
\* other are followed until they are known or the limits are reached.
DiscoveryEnds == <>Over
=============================================================================
