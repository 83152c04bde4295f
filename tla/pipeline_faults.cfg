SPECIFICATION FairSpec
CONSTANTS
    Requests = {c, r1}
    Creator = c
    SourceKey = uploaded
    MaxAttempts = 2
    Concurrency = 2
    MaxStalls = 1
    Faults <- AllFaults
INVARIANTS
    ReadyHasOutput
    ProcessingIsOwed
    DownloadsWork
    OutputsComeFromUpload
    SingleDetection
    IInv
PROPERTIES
    KeepsContract
    MeetsContract
    DatasetSettles
CHECK_DEADLOCK FALSE
