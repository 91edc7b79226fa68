SPECIFICATION Spec
CONSTANTS
    BatchSize <- MCBatchSize
    MaxEntries <- SmallMaxEntries
    Interpreters = {TRUE}
    FlushMayFail = FALSE
INVARIANTS
    GracefulShutdownKeepsAudit
CHECK_DEADLOCK FALSE
