SPECIFICATION MetricsSpec
CONSTANTS
    Readers = {t1, t2}
    MaxLookups = 3
    MaxSyncs = 0
    MaxInvalidations = 0
INVARIANT GetNeverRaises
CHECK_DEADLOCK FALSE
