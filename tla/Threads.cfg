SPECIFICATION ThreadsSpec
CONSTANTS
    Threads = {t1, t2}
    Conns = {c1, c2, c3}
    MaxPool = 1
    MaxAcquires = 3
    NoConn = NoConn
    Ready = TRUE
    r1 = r1
    r2 = r2
    r3 = r3
    w1 = w1
    w2 = w2
    Requests = {r1, r2, r3}
    Workers = {w1, w2}
    Home <- TwoProcesses
    Backends = {{}, {w2}, {w1, w2}}
    TTL = 1
    MaxFetch = 1
    MaxVersion = 2
    CacheMayFail = TRUE
    Callers = {q1, q2, q3}
    MaxCalls = 2
    Readers = {l1, l2}
    MaxLookups = 2
    MaxSyncs = 3
    MaxInvalidations = 1
INVARIANTS
    PoolBounded
    PooledAreOpen
    LeakOnlyByOverflow
    StatsBalance
    StalenessBounded
    SettledIsSeen
    ExportExplained
    SettledIsPatched
    WarmReuse
PROPERTIES
    ReuseIsFresh
CHECK_DEADLOCK FALSE
