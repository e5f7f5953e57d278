SPECIFICATION SocketsSpec
CONSTANTS
    w1 = w1
    w2 = w2
    w3 = w3
    none = none
    NoSocket = none
    Sockets = {w1, w2, w3}
    EventTypes = {"order_filled"}
    Clients = {w1, w2}
    Feeds = {"trades", "bars"}
    MaxQueue = 3
INVARIANT EndedIsQueued
INVARIANT OpenIsServed
INVARIANT ConnsMatchSubscriptions
PROPERTY EndedForgotten
CHECK_DEADLOCK FALSE
