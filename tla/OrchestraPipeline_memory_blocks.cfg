SPECIFICATION Spec
CONSTANTS
    QualityRetryLimit = 1
    MiniRetries = 1
    SaveNodeMetrics = TRUE
CHECK_DEADLOCK FALSE
INVARIANTS
    MemoryNeverBlocksDelivery
