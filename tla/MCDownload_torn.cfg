\* Two runs at the same time, without any fault.
SPECIFICATION Spec
CONSTANTS
    Runs = {r1, r2}
    Collector = Collector
    NoWriter = NoWriter
    NoFile = NoFile
    UrlIds = {1, 2}
    DocOf <- MCDocOf
    Trusted = {2}
    Contents = {"h1", "h2"}
    Served <- MCServed
    MaxActive = 2
    MaxEvidence = 0
    MaxFaults = 0
INVARIANTS
    RowsMatchFiles
