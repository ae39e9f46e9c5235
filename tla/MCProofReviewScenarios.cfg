SPECIFICATION Spec
CONSTANTS
    o1 = o1
    o2 = o2
    Order = {o1, o2}
    Caller = {c1, c2}
    Required <- Discount
    TotalSlots = 1
    Confidence = {"low"}
    AdminForces = TRUE
    MaxReproof = 1
    MaxRejections = 2
    Handlers <- AllHandlers
    Overlap = TRUE
    CanCrash = TRUE
SYMMETRY Symmetry
CHECK_DEADLOCK FALSE
INVARIANTS
    ApprovedHasProofs
    NoOverselling
    ReproofIsCapped
    ForcedIsApproved
