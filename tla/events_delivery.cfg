SPECIFICATION FairSpec
CONSTANTS
    Streams = {s1}
    Watchers = {w1, w2}
    MaxAttempts = 3
INVARIANTS
    IInv
    OutcomeIsTold
    OpenIsCurrent
PROPERTIES
    ConnectedAreTold
    StreamsEnd
CHECK_DEADLOCK FALSE
