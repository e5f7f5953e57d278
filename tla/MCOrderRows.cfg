SPECIFICATION RowSpec
CONSTANTS
    sys = sys
    alice = alice
    Users = {alice}
    System = sys
    MaxPrice = 1
    MaxOrders = 3
    Quantities = {1, 2}
    OrderTypes = {"limit"}
    InitCash <- MCInitCash
    InitAsset <- MCInitAsset
    Followed = {"order"}
    FanoutMayFail = TRUE
    MaxCopies = 2
    MaxLost = 1
INVARIANT RowInv
INVARIANT RowsConverge
PROPERTY RowsFollowLifecycle
CHECK_DEADLOCK FALSE
