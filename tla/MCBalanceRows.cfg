SPECIFICATION BalSpec
CONSTANTS
    sys = sys
    alice = alice
    bob = bob
    Users = {alice, bob}
    System = sys
    MaxPrice = 1
    MaxOrders = 3
    Quantities = {1, 2}
    OrderTypes = {"limit"}
    InitCash <- MCInitCash
    InitAsset <- MCInitAsset
    Followed = {"balance"}
    FanoutMayFail = TRUE
    MaxCopies = 2
    MaxLost = 1
INVARIANT BalInv
INVARIANT BuyersCredited
CHECK_DEADLOCK FALSE
