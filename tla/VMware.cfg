SPECIFICATION VMwareSpec
CONSTANTS
    r1 = r1
    r2 = r2
    v1 = v1
    v2 = v2
    v3 = v3
    NoName = NoName
    Requests = {r1, r2}
    Scenarios <- MCScenarios
    MaxExpiries = 1
    KBPerGB = 2
    MaxVCPUs = 2
    MaxMemoryMB = 2
    MaxDiskGB = 3
    LargeDiskGB = 3
    MediumDiskGB = 1
    Migrations = {m1, m2}
    Runs = {e1, e2}
    NoRun = NoRun
    StaleHours = 1
    MaxFaults = 2
INVARIANTS
    EveryEntryOnce
    FailedOnlyAfterRetry
    OneListing
    VerdictsAreRight
    MappingIsRight
    GaugeExplained
    CompletedHasServer
    VerdictExplained
CHECK_DEADLOCK FALSE
