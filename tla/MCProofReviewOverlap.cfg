SPECIFICATION Spec
CONSTANTS
    o1 = o1
    o2 = o2
    Order = {o1}
    Caller = {c1, c2}
    Required <- Rating
    TotalSlots = 1
    Confidence = {"none", "auto"}
    AdminForces = FALSE
    MaxReproof = 1
    MaxRejections = 0
    Handlers = {"createOrder", "submitClaim", "verify", "forceApproveOrder", "cancelOrder"}
    Overlap = TRUE
    CanCrash = TRUE
SYMMETRY Symmetry
CHECK_DEADLOCK FALSE
INVARIANTS
    ApprovedHasProofs
PROPERTIES
    CancelledIsFinal
