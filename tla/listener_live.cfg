\* Liveness: the user reverses commands, rows age, database calls fail, the
\* process is stopped and started.
SPECIFICATION FairSpec
CONSTANTS
    Bots = {b1}
    MaxCommands = 2
    MaxPublish = 1
    MaxTime = 1
    BatchSize = 1
    MaxAge = 0
    Linger = 1
    DedupTtl = 3
    Junk = {}
    Poison = {}
    UserKinds = {"start", "stop", "update"}
    MayCrash = FALSE
    RedisMayFail = FALSE
    DbMayFail = TRUE
PROPERTIES
    EventuallyHandled
CHECK_DEADLOCK FALSE
