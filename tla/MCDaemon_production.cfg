\* The configuration build_daemon_runner uses: no stale-lock recovery; one crash or
\* failed bookkeeping.  What holds without faults says so itself.
SPECIFICATION FairSpec
CONSTANTS
    Daemons = {d1, d2}
    NoDaemon = NoDaemon
    Jobs = {1, 2}
    Priorities = {0, 1}
    TicksPerSecond = 1
    RetryDelay = 1
    StaleRecovery = FALSE
    StaleAfter = 0
    MaxClock = 2
    MaxRetries = 2
    MaxFaults = 1
INVARIANTS
    MutualExclusion
    FailureNumberedOnce
PROPERTIES
    OnlyOwnerUnlocks
    JobsComplete
