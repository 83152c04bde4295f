SPECIFICATION ReportSpec
CONSTANTS
    Anomalies = {a1, a2}
    First = first
    Nobody = nobody
    MaxPolls = 1
    Submissions = {s1}
    Webhooks = {w1}
    MaxRetries = 0
INVARIANT DecidedIsResolved
CHECK_DEADLOCK FALSE
