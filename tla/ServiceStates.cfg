\* One service that gets active and passive results of all kinds, with commands and
\* a host that goes up and down: the state machine.
SPECIFICATION Spec
CONSTANTS
    s1 = s1
    s2 = s2
    Services = {s1}
    Results <- AllResults
    InitialStates = {0, 1, 2, 3}
    MaxAttemptsValues = {2, 3, 4}
    TimeoutState = 3
    SkipStatus <- KeepState
    IsVolatile <- NotVolatile
    Masters <- NoMasters
    CheckInterval <- IntervalOne
    RetryInterval <- NoInterval
    Horizon = 0
    FreshnessThreshold <- NoInterval
    Timeout = 1
    OrphanSlack = 1
    MaxParallel = 0
    Delays = {}
    Commands = {"passive", "acknowledge", "max_attempts", "host", "execute"}
    MaxOutstanding = 1
    MaxLost = 0
INVARIANTS StateConsistent
PROPERTIES HardStaysHard HandlerTold RecoveryNotified
