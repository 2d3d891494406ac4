SPECIFICATION FairSpec
CONSTANTS
    Txns = {1, 2}
    Keys = {1}
    Impatient = {1, 2}
    Snapshots = {}
    MaxReads = 1
    EpsValues = {0}
    Ceiling = 1
    MaxTime = 1
    ServerAccess = TRUE
    ConcurrentAbort = TRUE
    StoreMayFail = TRUE
PROPERTIES
    CommitReturns
CHECK_DEADLOCK FALSE
