SPECIFICATION Spec
CONSTANTS
    o1 = o1
    o2 = o2
    Order = {o1}
    Caller = {c1}
    Required <- Rating
    TotalSlots = 1
    Confidence = {"none", "low", "bulk", "auto"}
    AdminForces = TRUE
    MaxReproof = 1
    MaxRejections = 1
    Handlers <- AllHandlers
    Overlap = FALSE
    CanCrash = FALSE
CHECK_DEADLOCK FALSE
INVARIANTS
    ApprovedIsVerified
    ReviewHasProof
