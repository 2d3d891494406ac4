SPECIFICATION Spec
CONSTANTS
    Txns = {1, 2}
    Keys = {1}
    Impatient = {1, 2}
    Snapshots = {}
    MaxReads = 1
    EpsValues = {0, 1, 2}
    Ceiling = 1
    MaxTime = 1
    ServerAccess = FALSE
    ConcurrentAbort = FALSE
    StoreMayFail = FALSE
INVARIANTS
    VisibleInThePast
    Serializable
    FinalizedHoldsNothing
PROPERTIES
    TimestampsNotEarly
    VersionsInOrder
