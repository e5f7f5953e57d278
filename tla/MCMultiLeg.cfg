SPECIFICATION MSpec
CONSTANTS
    sys = sys
    alice = alice
    Users <- MCUsers
    System = sys
    SingleUsers = {alice}
    LinkedUsers = {sys, alice}
    MaxPrice = 2
    MaxOrders = 5
    MaxSingles = 2
    MaxLinked = 3
    Quantities = {1, 2}
    OrderTypes = {"limit"}
    InitCash <- MCInitCash
    InitAsset <- MCInitAsset
INVARIANT MInv
INVARIANT OneLegTrades
INVARIANT ChildrenFollowParent
INVARIANT LinkFailuresExplained
PROPERTY PartialFillPersists
CHECK_DEADLOCK FALSE
