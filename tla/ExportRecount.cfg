SPECIFICATION MetricsSpec
CONSTANTS
    Readers = {t1, t2}
    MaxLookups = 5
    MaxSyncs = 3
    MaxInvalidations = 0
INVARIANT NoDuplicateAccumulation
CHECK_DEADLOCK FALSE
