SPECIFICATION Spec
CONSTANTS
    o1 = o1
    o2 = o2
    brand = brand
    buyer = buyer
    mediator = mediator
    NoMediator = NoMediator
    NoEntry = NoEntry
    Order = {o1, o2}
    Caller = {c1}
    Owner <- MCOwner
    Brand <- MCBrand
    Buyer <- MCBuyer
    Mediator <- MCMediator
    Commission <- MCCommission
    Payouts <- OnePayout
    InitialWallet <- MCInitialWallet
    MaxBalance = 8
    Limit = 1
    Shortage = 3
    MaxCycle = 2
    Overlap = FALSE
    CanCrash = FALSE
CHECK_DEADLOCK FALSE
INVARIANTS
    StatusAgrees
    PaidIsCovered
PROPERTIES
    KeepsTheBook
