SPECIFICATION StoreSpec
CONSTANTS
    Keys = {1}
    Getters = {"g"}
    Deletes = TRUE
    Empties = FALSE
    MaxTs = 2
    MaxSeq = 2
    MaxCrashes = 0
INVARIANTS
    AlwaysAgree
CHECK_DEADLOCK FALSE
