SPECIFICATION LeaseSpec
CONSTANTS
    Replicas = {1, 2, 3}
    Candidates = {1, 2}
    Unreliable = {3}
    Before <- InOrder
    None = 0
    Lease = 1
    MaxErr = 2
    MaxTime = 2
    MaxTerm = 2
INVARIANTS
    LeaseDisjoint
    LeaseBacked
PROPERTIES
    TermsGrow
CHECK_DEADLOCK FALSE
