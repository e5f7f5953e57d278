SPECIFICATION PubFairSpec
CONSTANTS
    sys = sys
    alice = alice
    Users = {alice}
    System = sys
    MaxPrice = 1
    MaxOrders = 2
    Quantities = {1, 2}
    OrderTypes = {"limit"}
    InitCash <- MCInitCash
    InitAsset <- MCInitAsset
    Followed = {"order", "trade"}
    FanoutMayFail = TRUE
    MaxCopies = 2
    MaxLost = 1
    MaxRestarts = 1
    MaxRepeated = 1
INVARIANT PubInv
INVARIANT NoHiddenLiquidity
PROPERTY FillRecorded
CHECK_DEADLOCK FALSE
