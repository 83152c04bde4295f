SPECIFICATION FairSpec
CONSTANTS
    Names <- MCNames
    Words <- MCWords
    Jobs <- MCJobs
    HasApiKey = TRUE
INVARIANTS
    TypeOK
    UntouchedCells
    DatesOrdered
    DetectedIsFindable
    SoloEffect
    FirstIsKept
    FailuresExplained
    DraftsAreValid
PROPERTIES
    RowsStayTogether
    DraftsEnd
CHECK_DEADLOCK FALSE
