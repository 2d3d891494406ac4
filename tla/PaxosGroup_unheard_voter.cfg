SPECIFICATION Spec
CONSTANTS
    Members = 3
    Unreliable = {1, 2, 3}
    Candidates = {1, 2}
    Callers = {a}
    MaxTerm = 2
    MaxSlot = 1
    MaxProposals = 2
    MaxLate = 0
    MaxLateTerm = 1
INVARIANT CompleteWithoutAnswers
CHECK_DEADLOCK FALSE
