SPECIFICATION Spec
CONSTANTS
    Requests = {c, r1}
    Creator = c
    SourceKey = uploaded
    MaxAttempts = 3
    Concurrency = 1
    MaxStalls = 0
    Faults = {}
INVARIANT ReadyCanBeTransformed
CHECK_DEADLOCK FALSE
