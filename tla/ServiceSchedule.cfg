\* One service whose checks overlap and are lost, orphaned, forced, freshened,
\* disabled and kept outside the check period.
SPECIFICATION FairSpec
CONSTANTS
    s1 = s1
    s2 = s2
    Services = {s1}
    Results <- OkOrCritical
    InitialStates = {0}
    MaxAttemptsValues = {2}
    TimeoutState = 3
    SkipStatus <- KeepState
    IsVolatile <- NotVolatile
    Masters <- NoMasters
    CheckInterval <- IntervalTwo
    RetryInterval <- IntervalOne
    Horizon = 1
    FreshnessThreshold <- IntervalOne
    Timeout = 2
    OrphanSlack = 2
    MaxParallel = 1
    Delays = {0, 1}
    Commands = {"schedule", "checks", "passive"}
    MaxOutstanding = 2
    MaxLost = 1
PROPERTY EventsRecur
