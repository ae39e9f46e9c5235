SPECIFICATION Spec
CONSTANTS
    o1 = o1
    o2 = o2
    brand = brand
    buyer = buyer
    mediator = mediator
    NoMediator = NoMediator
    NoEntry = NoEntry
    Order = {o1}
    Caller = {c1, c2}
    Owner <- MCOwner
    Brand <- MCBrand
    Buyer <- MCBuyer
    Mediator <- MCMediator
    Commission <- MCCommission
    Payouts <- TwoPayouts
    InitialWallet <- MCInitialWallet
    MaxBalance = 8
    Limit = 0
    Shortage = 3
    MaxCycle = 2
    Overlap = TRUE
    CanCrash = TRUE
SYMMETRY Symmetry
CHECK_DEADLOCK FALSE
INVARIANTS
    TypeOK
    MoneyIsConserved
    CreditsMatchDebit
