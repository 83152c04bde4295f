SPECIFICATION Spec
CONSTANTS
    Names <- MCNames
    Words <- MCWords
    Jobs <- NumberJobs
    HasApiKey = TRUE
INVARIANT KeptIsKept
CHECK_DEADLOCK FALSE
