SPECIFICATION CoolingSpec
CONSTANTS
    o1 = o1
    brand = brand
    buyer = buyer
    mediator = mediator
    NoMediator = NoMediator
    NoEntry = NoEntry
    Order = {o1}
    Settler = c0
    Caller = {c0, c1}
    ActorAccepted = FALSE
    Owner <- MCOwner
    Brand <- MCBrand
    Buyer <- MCBuyer
    Mediator <- MCMediator
    Commission <- MCCommission
    Payouts <- OnePayout
    InitialWallet <- MCInitialWallet
    MaxBalance = 8
    Limit = 0
    MaxCycle = 2
    Overlap = TRUE
    CanCrash = FALSE
CHECK_DEADLOCK FALSE
PROPERTY
    CooledOrdersSettle
