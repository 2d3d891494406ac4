SPECIFICATION Spec
CONSTANTS
    Members = 3
    Unreliable = {1, 2, 3}
    Candidates = {1, 2}
    Callers = {a}
    MaxTerm = 2
    MaxSlot = 1
    MaxProposals = 2
    MaxLate = 1
    MaxLateTerm = 1
PROPERTY ReplicatesWithStrayCommits
CHECK_DEADLOCK FALSE
