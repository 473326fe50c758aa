\* max_attempts is raised from one while a problem is hard.
SPECIFICATION Spec
CONSTANTS
    s1 = s1
    s2 = s2
    Services = {s1}
    Results <- AllResults
    InitialStates = {0, 1, 2, 3}
    MaxAttemptsValues = {1, 3}
    TimeoutState = 3
    SkipStatus <- KeepState
    IsVolatile <- NotVolatile
    Masters <- NoMasters
    CheckInterval <- NoInterval
    RetryInterval <- NoInterval
    Horizon = 0
    FreshnessThreshold <- NoInterval
    Timeout = 1
    OrphanSlack = 1
    MaxParallel = 0
    Delays = {}
    Commands = {"passive", "acknowledge", "max_attempts", "host"}
    MaxOutstanding = 1
    MaxLost = 0
PROPERTY RecoveryNotified
