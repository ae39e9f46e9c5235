SPECIFICATION EngineSpec
CONSTANTS
    o1 = o1
    o2 = o2
    Order = {o1}
    Caller = {c1, c2}
    MaxReproof = 5
    InitialStatus = {"UNDER_REVIEW"}
CHECK_DEADLOCK FALSE
INVARIANT
    TrailLeadsToStatus
