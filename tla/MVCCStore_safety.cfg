SPECIFICATION StoreSpec
CONSTANTS
    Keys = {1}
    Getters = {"g"}
    Deletes = TRUE
    Empties = FALSE
    MaxTs = 3
    MaxSeq = 4
    MaxCrashes = 2
INVARIANTS
    StoreTypeOK
    Durable
    NewestVisible
    GetAgreesWithScan
    GetsAreCurrent
    RefsExact
CHECK_DEADLOCK FALSE
