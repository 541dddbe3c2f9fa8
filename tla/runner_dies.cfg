\* The default LOG_LEVEL, and nothing outside the runner fails.
SPECIFICATION MCSpec
CONSTANTS
    Prices = {1, 2}
    Distances = {0, 1}
    DefaultStop = 0
    DefaultTake = 0
    MaxCandles = 1
    MaxOrders = 1
    InfoLogs = {TRUE}
    CallsMayFail = FALSE
INVARIANTS
    LoopKeepsRunning
CHECK_DEADLOCK FALSE
