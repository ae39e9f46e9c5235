SPECIFICATION AiSpec
CONSTANTS
    Request = {r1, r2}
    Workers = 3
    Threshold = 2
    Probes = 2
    PoolSize = 1
    MaxWorkers = 2
    Passes = 2
    MaxRefills = 1
\* Each of these fails; remove the others to see its behaviour.
INVARIANTS
    OneProbe
    WorkersAreCapped
PROPERTY
    OpensOnFailures
