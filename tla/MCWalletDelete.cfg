SPECIFICATION Spec
CONSTANTS
    Owner = {brand, buyer}
    Key = {k1, k2, k3, k4}
    Request = {r1, r2}
    MaxBalance = 3
    DeleteHandlers = {"deleteUser"}
    brand = brand
    buyer = buyer
    k1 = k1
    k2 = k2
    k3 = k3
    k4 = k4
    NoEntry = NoEntry
    InitialWallet <- MCInitialWallet
    Batches <- MCBatches
CHECK_DEADLOCK FALSE
INVARIANT DeletedWalletIsEmpty
