SPECIFICATION FairReportSpec
CONSTANTS
    Anomalies = {a1, a2}
    First = first
    Nobody = nobody
    MaxPolls = 1
    Submissions = {s1}
    Webhooks = {w1}
    MaxRetries = 1
INVARIANTS
    IInv
    ViewsAgree
    ReviewedMeansDecided
    SubmittedIsApplied
    CompleteSubmissionNeverWaits
PROPERTIES
    DecisionsStay
    UndecidedKeepsSuggestion
    ReviewsEnd
CHECK_DEADLOCK FALSE
