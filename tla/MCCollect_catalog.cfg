\* Two processes, any mix of collect and job; one fault.
SPECIFICATION Spec
CONSTANTS
    Collectors = {c1, c2}
    NoCollector = NoCollector
    Candidates <- MCCandidates
    Urls = {"u1", "u2", "u3"}
    Dois = {"d1", "d2"}
    Isbns = {"i1"}
    None = "none"
    Sources = {"a", "b"}
    Evidence = {"e1", "e2"}
    MaxBatch = 2
    MaxSteps = 2
    MaxFaults = 1
SYMMETRY CollectorSymmetry
INVARIANTS
    TypeOK
    CatalogIsWhatStepsFound
    SummaryMatchesCatalog
    EvidenceFollowsUrl
PROPERTIES
    KnownStaysKnown
