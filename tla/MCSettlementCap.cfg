SPECIFICATION Spec
CONSTANTS
    o1 = o1
    o2 = o2
    brand = brand
    buyer = buyer
    mediator = mediator
    NoMediator = NoMediator
    NoEntry = NoEntry
    Order = {o1, o2}
    Caller = {c1, c2}
    Owner <- MCOwner
    Brand <- MCBrand
    Buyer <- MCBuyer
    Mediator <- MCMediator
    Commission <- MCCommission
    Payouts <- OnePayout
    InitialWallet <- MCInitialWallet
    MaxBalance = 8
    Limit = 1
    Shortage = 0
    MaxCycle = 2
    Overlap = TRUE
    CanCrash = FALSE
SYMMETRY Symmetry
CHECK_DEADLOCK FALSE
INVARIANT
    CapRespected
