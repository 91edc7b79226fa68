SPECIFICATION MonitoringSpec
CONSTANTS
    BatchSize = 3
    Interval = 1
    MaxRequests = 2
    Readings <- MCReadings
    ProjectLike <- MCProjectLike
    UsageWindow = 2
    ProjectWindow = 2
    Limit = 2
    MaxCalls = 5
INVARIANTS
    DelayBounded
    FiguresExplained
    AlertsExplained
CHECK_DEADLOCK FALSE
