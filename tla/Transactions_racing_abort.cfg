SPECIFICATION Spec
CONSTANTS
    Txns = {1, 2}
    Keys = {1}
    Impatient = {}
    Snapshots = {}
    MaxReads = 1
    EpsValues = {0}
    Ceiling = 1
    MaxTime = 1
    ServerAccess = FALSE
    ConcurrentAbort = TRUE
    StoreMayFail = FALSE
INVARIANTS
    ApplyUnderLocks
CHECK_DEADLOCK FALSE
