SPECIFICATION FairSpec
CONSTANTS
    Jobs = {j1, j2}
    MaxAttempts = 2
    MaxRetries = 1
    Concurrency = 1
INVARIANTS
    TypeOK
    RunsBounded
    CancelledIsIdle
    StopDrains
PROPERTY JobsEnd
CHECK_DEADLOCK FALSE
