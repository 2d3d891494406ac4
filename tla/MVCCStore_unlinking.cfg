SPECIFICATION StoreSpec
CONSTANTS
    Keys = {1}
    Getters = {"g"}
    Deletes = TRUE
    Empties = FALSE
    MaxTs = 3
    MaxSeq = 3
    MaxCrashes = 2
INVARIANTS
    DeletedStaysDeleted
CHECK_DEADLOCK FALSE
