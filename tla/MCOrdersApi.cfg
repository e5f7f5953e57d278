CONSTANTS
    Reqs = {r1, r2}
    MaxOrders = 3
    MaxRequests = 2
SPECIFICATION FairSpec
CHECK_DEADLOCK FALSE
INVARIANT RowsPrecedeEvents
INVARIANT LateCancelHolds
PROPERTY AcceptedIsDecided
