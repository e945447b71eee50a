\* Two searches of two seeds; four webs, any robots.txt, any failure.
SPECIFICATION FairSpec
CONSTANTS
    RateKeys = {"source", "a", "b", "c"}
    Interval = 2
    MaxRetries = 1
    Backoff = 1
    MaxLatency = 1
    Urls <- MCUrls
    Webs <- MCWebs
    Sites <- MCSites
    NoSite = "none"
    SiteOf <- MCSiteOf
    DomainOf <- MCDomainOf
    NetlocOf <- MCNetlocOf
    SourceKey = "source"
    Pdfs = {"book"}
    Unparsable = {"bracket"}
    Unsendable = {"control"}
    UnsendableSites = {"a:port"}
    Seeds <- MCSeeds
    AllowedDomains = {"b"}
    SameDomainOnly = TRUE
    MaxDepth = 2
    MaxPagesPerSeed = 3
    MaxSearches = 2
INVARIANTS
    TypeOK
    RobotsRespected
    RobotsAskedOnce
    CrawlIsExact
PROPERTIES
    RequestsSpaced
    SearchEnds
