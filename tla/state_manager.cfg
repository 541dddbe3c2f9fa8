\* Two credentials, one bot, a key that lives three passes.
SPECIFICATION Spec
CONSTANTS
    Bots = {b1}
    Creds = {c1, c2}
    Period = 1
    Ttl = 3
INVARIANTS
    TypeOK
    NoAdapterLeaks
    OnlyReportsKill
    SnapshotSurvives
PROPERTIES
    StopEndsEngine
    StaleKeysExpire
\* A stopped engine stays stopped.
CHECK_DEADLOCK FALSE
