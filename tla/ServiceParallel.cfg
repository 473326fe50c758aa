\* Two services that share one slot; the first depends on the second.
SPECIFICATION Spec
CONSTANTS
    s1 = s1
    s2 = s2
    Services = {s1, s2}
    Results <- OnlyCritical
    InitialStates = {0}
    MaxAttemptsValues = {2}
    TimeoutState = 3
    SkipStatus <- KeepState
    IsVolatile <- NotVolatile
    Masters <- OneMaster
    CheckInterval <- IntervalOne
    RetryInterval <- IntervalOne
    Horizon = 0
    FreshnessThreshold <- NoInterval
    Timeout = 1
    OrphanSlack = 1
    MaxParallel = 1
    Delays = {0}
    Commands = {"schedule"}
    MaxOutstanding = 2
    MaxLost = 1
INVARIANT ParallelLimit
