\* Stale-lock recovery on: two runs may be past the lock at once.  Half seconds.
SPECIFICATION FairSpec
CONSTANTS
    Daemons = {d1, d2}
    NoDaemon = NoDaemon
    Jobs = {1, 2}
    Priorities = {0}
    TicksPerSecond = 2
    RetryDelay = 1
    StaleRecovery = TRUE
    StaleAfter = 1
    MaxClock = 2
    MaxRetries = 1
    MaxFaults = 1
INVARIANTS
    TypeOK
    SingleOwner
    OwnedIsRunning
    NeverBeforeRetryTime
    EventsMatchTable
PROPERTIES
    AbandonedLockRecovered
    ImplementsLedger
