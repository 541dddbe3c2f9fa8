\* Failing database calls, stray messages, graceful restarts; no crash, and a
\* Redis that answers.
SPECIFICATION FairSpec
CONSTANTS
    Bots = {b1}
    MaxCommands = 3
    MaxPublish = 1
    MaxTime = 0
    BatchSize = 2
    MaxAge = 1
    Linger = 1
    DedupTtl = 3
    Junk = {junk}
    Poison = {}
    UserKinds = {"start", "stop", "update"}
    MayCrash = FALSE
    RedisMayFail = FALSE
    DbMayFail = TRUE
INVARIANTS
    TypeOK
    ProcessedWasHandled
    ConvergesWhenPolled
CHECK_DEADLOCK FALSE
