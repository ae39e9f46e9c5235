SPECIFICATION Spec
CONSTANTS
    c1 = c1
    c2 = c2
    r1 = r1
    r2 = r2
    brand = brand
    agency = agency
    mediator = mediator
    NoEntry = NoEntry
    Owner <- MCOwner
    InitialWallet <- MCInitialWallet
    Caller = {c1, c2}
    Ref = {r1, r2}
    Amounts = {1, 2}
    Deletable = {agency}
    MaxPayouts = 2
    MaxRefund = 2
    MaxBalance = 4
CHECK_DEADLOCK FALSE
SYMMETRY Symmetry
INVARIANTS
    BalancesMatchLedger
    PaidPayoutIsDebited
    RefPaysOnce
    DebitReachesAgency
