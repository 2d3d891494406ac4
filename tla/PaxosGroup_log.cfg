SPECIFICATION Spec
CONSTANTS
    Members = 3
    Unreliable = {2}
    Candidates = {1, 2}
    Callers = {a, b}
    MaxTerm = 2
    MaxSlot = 2
    MaxProposals = 2
    MaxLate = 1
    MaxLateTerm = 1
SYMMETRY CallerSymmetry
VIEW Essentials
CONSTRAINT StillToCheck
INVARIANTS TermSlotsUnique LeaderComplete
PROPERTY IsReplicatedLog
CHECK_DEADLOCK FALSE
