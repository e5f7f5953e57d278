SPECIFICATION Spec
CONSTANTS
    sys = sys
    alice = alice
    bob = bob
    Users <- MCUsers
    System = sys
    InitCash <- MCInitCash
    InitAsset <- MCInitAsset
    MaxPrice = 2
    MaxOrders = 3
    Quantities = {1, 2}
    OrderTypes = {"limit", "stop"}
INVARIANT BookConsistent
INVARIANT OneFate
INVARIANT BalancesReconcile
INVARIANT NoEscrowStranded
INVARIANT LimitBookSound
PROPERTY PriceTimePriority
CHECK_DEADLOCK FALSE
