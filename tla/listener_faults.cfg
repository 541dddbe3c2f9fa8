\* Crashes, failing Redis and Postgres calls, a stray message that ends the task,
\* publications after the clock has moved, and a dedup key that does not outlive
\* the copies of its command, as with the default settings.
SPECIFICATION Spec
CONSTANTS
    Bots = {b1}
    MaxCommands = 2
    MaxPublish = 1
    MaxTime = 2
    BatchSize = 1
    MaxAge = 0
    Linger = 1
    DedupTtl = 1
    Junk = {poison}
    Poison = {poison}
    UserKinds = {"start", "stop"}
    MayCrash = TRUE
    RedisMayFail = TRUE
    DbMayFail = TRUE
INVARIANTS
    OncePerKeyLife
PROPERTIES
    DeliveryRefined
CHECK_DEADLOCK FALSE
