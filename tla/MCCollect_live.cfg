\* Weak fairness of every run; one fault, and candidates that cannot be saved.
SPECIFICATION FairSpec
CONSTANTS
    Collectors = {c1, c2}
    NoCollector = NoCollector
    Candidates <- MCCandidates
    Urls = {"u1", "u2", "u3"}
    Dois = {"d1", "d2"}
    Isbns = {"i1"}
    None = "none"
    Sources = {"a", "b"}
    Evidence = {"e1", "e2"}
    MaxBatch = 1
    MaxSteps = 2
    MaxFaults = 1
PROPERTIES
    RunsComplete
