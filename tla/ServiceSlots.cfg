\* A forced check beside one whose result is lost.
SPECIFICATION Spec
CONSTANTS
    s1 = s1
    s2 = s2
    Services = {s1}
    Results <- OkOrCritical
    InitialStates = {0}
    MaxAttemptsValues = {2}
    TimeoutState = 3
    SkipStatus <- KeepState
    IsVolatile <- NotVolatile
    Masters <- NoMasters
    CheckInterval <- IntervalTwo
    RetryInterval <- IntervalOne
    Horizon = 0
    FreshnessThreshold <- NoInterval
    Timeout = 1
    OrphanSlack = 2
    MaxParallel = 1
    Delays = {0}
    Commands = {"schedule"}
    MaxOutstanding = 2
    MaxLost = 1
INVARIANT SlotsAccounted
