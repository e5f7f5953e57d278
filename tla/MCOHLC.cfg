SPECIFICATION OhlcSpec
CONSTANTS
    Frames = {1, 2}
    TradePrices = {1, 2}
    MaxTime = 3
    MaxTrades = 3
INVARIANT OHLCInv
INVARIANT RowsMatchTrades
CHECK_DEADLOCK FALSE
