SPECIFICATION Spec
CONSTANTS
    Requests = {r1, r2}
    Servers = {s1, s2}
    NoServer = NoServer
    InitialStatuses = {"absent", "ACTIVE", "SHUTOFF"}
    DriftStatuses = {"ERROR", "PAUSED", "SUSPENDED", "UNKNOWN"}
    MaxDrift = 1
INVARIANTS
    ReportsAgree
    OrphanExplained
    DeletesOnlyWhatItMay
    SuccessHolds
PROPERTIES
    RequestsEnd
CHECK_DEADLOCK FALSE
