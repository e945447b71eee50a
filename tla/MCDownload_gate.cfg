\* One run after the other; license evidence arrives at any time; one fault.
SPECIFICATION Spec
CONSTANTS
    Runs = {r1, r2}
    Collector = Collector
    NoWriter = NoWriter
    NoFile = NoFile
    UrlIds = {1, 2}
    DocOf <- MCDocOf
    Trusted = {2}
    Contents = {"h1", "h2"}
    Served <- MCServedTwo
    MaxActive = 1
    MaxEvidence = 2
    MaxFaults = 1
SYMMETRY RunSymmetry
INVARIANTS
    TypeOK
    RowsMatchFiles
PROPERTIES
    GateRespected
