SPECIFICATION StoreSpec
CONSTANTS
    Keys = {1}
    Getters = {"g"}
    Deletes = TRUE
    Empties = FALSE
    MaxTs = 2
    MaxSeq = 2
    MaxCrashes = 2
INVARIANTS
    NothingLost
CHECK_DEADLOCK FALSE
