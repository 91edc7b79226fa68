SPECIFICATION SyncSpec
CONSTANTS
    Requests = {s1, s2}
    Processes = {p1, p2}
    Present = {"vm-1", "datastore-1"}
    NoProcess = NoProcess
    Resources <- ResourcesDef
    MaxChanges = 1
    MaxFaults = 1
INVARIANTS
    RegressionExplained
    SucceededMeansStored
PROPERTIES
    UpsertsEnd
CHECK_DEADLOCK FALSE
