\* A crash after SET NX and before the handler is called.
SPECIFICATION Spec
CONSTANTS
    Bots = {b1}
    MaxCommands = 1
    MaxPublish = 1
    MaxTime = 0
    BatchSize = 1
    MaxAge = 2
    Linger = 1
    DedupTtl = 2
    Junk = {}
    Poison = {}
    UserKinds = {"start"}
    MayCrash = TRUE
    RedisMayFail = FALSE
    DbMayFail = FALSE
INVARIANTS
    ProcessedWasHandled
CHECK_DEADLOCK FALSE
