SPECIFICATION StoreSpec
CONSTANTS
    Keys = {1}
    Getters = {"g"}
    Deletes = TRUE
    Empties = TRUE
    MaxTs = 1
    MaxSeq = 1
    MaxCrashes = 2
INVARIANTS
    Restartable
CHECK_DEADLOCK FALSE
