\* Stale-lock recovery removes a lock younger than the threshold; nothing crashes or fails.
SPECIFICATION Spec
CONSTANTS
    Daemons = {d1, d2}
    NoDaemon = NoDaemon
    Jobs = {1}
    Priorities = {0}
    TicksPerSecond = 1
    RetryDelay = 1
    StaleRecovery = TRUE
    StaleAfter = 1
    MaxClock = 3
    MaxRetries = 1
    MaxFaults = 0
PROPERTIES
    FreshLockKept
