SPECIFICATION Spec
CONSTANTS
    Requests = {r1, r2}
    Workers = {w1, w2}
    InstanceCount = 2
INVARIANTS
    ReplyMatchesTask
    OutcomeExplained
    NamesUnique
    BatchCountHonest
PROPERTIES
    ImplementsLifecycle
    RequestsEnd
CHECK_DEADLOCK FALSE
