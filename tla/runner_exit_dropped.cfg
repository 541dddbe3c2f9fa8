\* An exit is rejected, or its order fails; nothing else does.
SPECIFICATION MCSpec
CONSTANTS
    Prices = {1, 2}
    Distances = {0, 1}
    DefaultStop = 1
    DefaultTake = 0
    MaxCandles = 3
    MaxOrders = 2
    InfoLogs = {FALSE}
    CallsMayFail = FALSE
INVARIANTS
    OpenIsTracked
CHECK_DEADLOCK FALSE
