SPECIFICATION Spec
CONSTANTS
    Txns = {1, 2}
    Keys = {1, 2}
    Impatient = {}
    Snapshots = {"r"}
    MaxReads = 1
    EpsValues = {0}
    Ceiling = 1
    MaxTime = 1
    ServerAccess = FALSE
    ConcurrentAbort = FALSE
    StoreMayFail = FALSE
INVARIANTS
    SnapshotStable
