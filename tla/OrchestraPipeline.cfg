SPECIFICATION FairSpec
CONSTANTS
    QualityRetryLimit = 2
    MiniRetries = 1
    SaveNodeMetrics = TRUE
CHECK_DEADLOCK FALSE
INVARIANTS
    OnlyApprovedIsShown
    CrisisStaysDeterministic
    ReportedMemoryIsKept
    SavedPageIsKept
PROPERTIES
    FailureNamesNode
    ImplementsGate
    EveryRequestIsAnswered
