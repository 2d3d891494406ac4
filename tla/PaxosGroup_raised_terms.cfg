SPECIFICATION Spec
CONSTANTS
    Members = 3
    Unreliable = {2}
    Candidates = {1, 2}
    Callers = {a, b}
    MaxTerm = 2
    MaxSlot = 1
    MaxProposals = 2
    MaxLate = 0
    MaxLateTerm = 1
INVARIANT UniqueWithRaisedTerms
CHECK_DEADLOCK FALSE
