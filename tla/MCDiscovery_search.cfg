\* Two variants, two sources and the expansion of links; any failure of any request, and what no adapter expects.
SPECIFICATION FairSpec
CONSTANTS
    Urls <- MCUrls
    Odd <- MCOdd
    Unparsable = {"bracket"}
    Unsendable = {"port", "scan", "bracket", "control"}
    Canonical <- MCCanonical
    Pdfs = {"paper", "paper2", "draft", "scan"}
    DomainOf <- MCDomainOf
    NoLoc = "none"
    Roots <- MCRoots
    Webs <- MCWebs
    Frontier = {"main", "more", "list", "port"}
    Documents = {"home", "post", "paper", "paper2", "draft", "port", "scan"}
    MaxSitemapFiles = 3
    MaxUrlEntries = 4
    AllowedDomains = {}
    SameDomainOnly = TRUE
    MaxDepth = 2
    MaxCandidates = 3
    Sources <- MCSources
    SitemapSource = "sitemap"
    ExpansionSource = "link_expansion"
    Answers <- MCAnswers
    Malformed = Malformed
    SourceRank <- MCSourceRank
    UrlRank <- MCUrlRank
    SitemapScore = 7
    LinkScore = 5
    PdfLinkScore = 8
    Variants = 2
INVARIANTS
    TypeOK
    SitemapExact
    ExpansionExact
    MergeKeepsBest
    FailuresContained
PROPERTIES
    DiscoveryEnds
