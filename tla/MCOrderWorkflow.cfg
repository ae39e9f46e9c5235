SPECIFICATION EngineSpec
CONSTANTS
    o1 = o1
    o2 = o2
    Order = {o1, o2}
    Caller = {c1, c2, c3}
    MaxReproof = 1
    InitialStatus = {"REJECTED", "UNDER_REVIEW", "REWARD_PENDING"}
SYMMETRY Symmetry
CHECK_DEADLOCK FALSE
INVARIANTS
    EngineInv
PROPERTIES
    OnlyAllowedMoves
    FrozenOrdersStay
