\* Three prices, candles of every shape, everything may fail, with and without
\* INFO logging, cancelled anywhere.
SPECIFICATION MCSpec
CONSTANTS
    Prices = {1, 2, 3}
    Distances = {0, 1}
    DefaultStop = 1
    DefaultTake = 0
    MaxCandles = 4
    MaxOrders = 4
    InfoLogs = {TRUE, FALSE}
    CallsMayFail = TRUE
INVARIANTS
    TypeOK
    OneExitPerPosition
    WatchedOrExited
    HistoryHasNoHole
PROPERTIES
    ExitsTried
CHECK_DEADLOCK FALSE
