SPECIFICATION Spec
CONSTANTS
    BatchSize <- MCBatchSize
    MaxEntries <- MCMaxEntries
    Interpreters = {TRUE, FALSE}
    FlushMayFail = TRUE
INVARIANTS
    LogIsFaithful
    AuditLossBounded
PROPERTIES
    EventuallyPersisted
    CancelledShutdownEnds
CHECK_DEADLOCK FALSE
