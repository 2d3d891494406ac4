SPECIFICATION Spec
CONSTANTS
    Nodes = {a, b}
    a = a
    b = b
    Tick = 10
    Drift = 1
    Assumed = 2
    Floor = 0
    MaxDrift = 2
    Delays = {2}
    Jumps <- MCJumps
    Never <- MCNever
    MaxTime = 20
    MaxCalls = 3
    MaxSyncs = 1
    MaxJumps = 1
    None = None
SYMMETRY NodeSymmetry
INVARIANTS
    IntervalContainsTime
PROPERTIES
    CausalWhileCalm
CHECK_DEADLOCK FALSE
