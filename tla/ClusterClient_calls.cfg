SPECIFICATION Spec
CONSTANTS
    N = 2
    Threads = {a, b}
    a = a
    b = b
    Keys = {1, 2}
    Programs <- MCPrograms
    MaxFaults = 2
    None = None
SYMMETRY ThreadSymmetry
INVARIANTS
    CommitTruthful
    EveryNodeAsked
    NotFoundMeansEnded
    ReadsOwnPut
    AloneStatementExact
CHECK_DEADLOCK FALSE
