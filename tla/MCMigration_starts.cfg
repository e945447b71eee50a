\* Three processes on a new database or one of any release; one crash or busy error.
SPECIFICATION FairSpec
CONSTANTS
    Commands = {c1, c2, c3}
    NoCommand = NoCommand
    Parts <- MCParts
    MaxFaults = 1
INVARIANTS
    TypeOK
    RecordedIsComplete
    ReadyHasSchema
PROPERTIES
    Migrated
