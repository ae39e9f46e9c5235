SPECIFICATION Spec
CONSTANTS
    o1 = o1
    o2 = o2
    brand = brand
    buyer = buyer
    mediator = mediator
    NoMediator = NoMediator
    NoEntry = NoEntry
    Order = {o1}
    Caller = {c1}
    Owner <- MCOwner
    Brand <- MCBrand
    Buyer <- MCBuyer
    Mediator <- MCMediator
    Commission <- MCDearCommission
    Payouts <- ShortPayouts
    InitialWallet <- MCInitialWallet
    MaxBalance = 8
    Limit = 0
    Shortage = 0
    MaxCycle = 2
    Overlap = FALSE
    CanCrash = FALSE
CHECK_DEADLOCK FALSE
INVARIANT
    MoneyIsConserved
