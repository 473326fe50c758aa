SPECIFICATION Spec
CONSTANTS
    alice = alice
    bob = bob
    Contacts = {alice, bob}
    ContactOptions <- MCContactOptions
    ContactsOf <- MCContactsOf
    Options <- MCOptions
    Escalations <- MCEscalations
    NotificationInterval = 1
    FirstDelay = 0
    Volatile = FALSE
    GlobalHandler = FALSE
    PeriodGap = 1
    HistorySize = 3
    LowThreshold = 35
    HighThreshold = 60
    FlapStates <- MCFlapStates
    TimeoutState = 2
    IsVolatile <- MCIsVolatile
    Aggressive = FALSE
    PassiveSoft = FALSE
    TranslatePassive = FALSE
    Scenarios <- MCScenarios
    MaxAttempts = 2
    ServiceResults = {0, 1, 2}
    HostResults <- MCHostResults
    AckTimes = {1}
    MaxNumber = 2
    MaxComments = 2
INVARIANTS AcksEndWithProblems FlapCommentsOwned
PROPERTIES RecoveryFollowsProblem RecoveryToTheTold AcksExpire
CHECK_DEADLOCK FALSE
