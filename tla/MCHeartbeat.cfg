SPECIFICATION FairSpec
CONSTANTS
    eurusd = eurusd
    Symbols = {eurusd}
    MaxConns = 2
    Timely = TRUE
INVARIANT RegistryServed
INVARIANT LoneClientAlive
PROPERTY DeadDetected
CHECK_DEADLOCK FALSE
