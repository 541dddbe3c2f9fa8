\* Two callers race; starts fail at every point, publishes fail.
SPECIFICATION MCSpec
CONSTANTS
    Bots = {b1, b2}
    Callers = {listener, other}
    MaxCalls = 4
    PublishMayFail = TRUE
INVARIANTS
    TypeOK
    EveryRunnerOwned
    OpenWhileTrading
    LaunchedAdaptersOwned
    ShutdownIsComplete
PROPERTIES
    StopIsComplete
    CallsReturn
CHECK_DEADLOCK FALSE
