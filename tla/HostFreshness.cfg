SPECIFICATION Spec
CONSTANTS
    router = router
    leaf = leaf
    Hosts = {router, leaf}
    Parents <- MCParents
    Masters <- MCMasters
    FailureStates = {3}
    SkipStatus <- MCNoSkipStatus
    MaxAttempts <- MCMaxAttempts
    CheckInterval <- MCCheckInterval
    RetryInterval <- MCRetryInterval
    Horizon = 1
    FreshnessThreshold <- MCLeafFreshness
    Timeout = 1
    OrphanSlack = 1
    Delays = {1}
    Environment = {"full", "passive", "schedule", "checks", "execute", "lose", "network", "period"}
    MaxOutstanding = 2
    MaxDisturbances = 1
    Aggressive = FALSE
    PassiveSoft = TRUE
    TranslatePassive = FALSE

PROPERTY DiscardedChangesNothing
