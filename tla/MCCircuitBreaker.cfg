\* Three callers, three failures to open, two successes to close, two ticks to cool down.
CONSTANTS
    Callers = {c1, c2, c3}
    FailureThreshold = 3
    SuccessThreshold = 2
    RecoveryTimeout = 2
    CountLimit = 3
    HistoryLength = 3
SPECIFICATION FairSpec
PROPERTIES
    CoolDownExact
    TransitionsEarned
    Recovers
