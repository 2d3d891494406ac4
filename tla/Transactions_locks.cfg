SPECIFICATION Spec
CONSTANTS
    Txns = {1, 2}
    Keys = {1, 2}
    Impatient = {2}
    Snapshots = {"r"}
    MaxReads = 1
    EpsValues = {0}
    Ceiling = 1
    MaxTime = 1
    ServerAccess = FALSE
    ConcurrentAbort = FALSE
    StoreMayFail = FALSE
INVARIANTS
    Serializable
    ApplyUnderLocks
    SnapshotsAreRecent
    UnstableOnlyByInFlight
