SPECIFICATION LiveSpec
CONSTANTS
    Owner = {brand, buyer}
    Key = {k1, k2, k3, k4}
    Request = {r1, r2, r3}
    MaxBalance = 3
    DeleteHandlers = {"deleteWallet", "deleteUser"}
    brand = brand
    buyer = buyer
    k1 = k1
    k2 = k2
    k3 = k3
    k4 = k4
    NoEntry = NoEntry
    InitialWallet <- MCInitialWallet
    Batches <- MCBatches
CHECK_DEADLOCK FALSE
INVARIANTS
    IInv
    BalanceWithinBounds
    LedgerExplainsBalance
    RepliesMatchLedger
PROPERTIES
    LedgerIsAppendOnly
    PostsAtomically
    EveryRequestEnds
