\* A runner task ends by itself.
SPECIFICATION MCSpec
CONSTANTS
    Bots = {b1}
    Callers = {listener}
    MaxCalls = 1
    PublishMayFail = FALSE
INVARIANTS
    ReportedIsAlive
CHECK_DEADLOCK FALSE
