\* Two runs over the same URLs and the same directory at the same time.
SPECIFICATION FairSpec
CONSTANTS
    Runs = {r1, r2}
    Collector = Collector
    NoWriter = NoWriter
    NoFile = NoFile
    UrlIds = {1, 2}
    DocOf <- MCDocOf
    Trusted = {2}
    Contents = {"h1", "h2"}
    Served <- MCServed
    MaxActive = 2
    MaxEvidence = 0
    MaxFaults = 2
INVARIANTS
    FilesAreRecorded
    SummaryMatchesRows
    NoTemporaryLeft
PROPERTIES
    WriterReleased
