SPECIFICATION AiLiveSpec
CONSTANTS
    Request = {r1, r2}
    Workers = 3
    Threshold = 2
    Probes = 2
    PoolSize = 1
    MaxWorkers = 2
    Passes = 2
    MaxRefills = 1
INVARIANTS
    WorkersAreExclusive
PROPERTIES
    ClosesAfterProbes
    Recovers
