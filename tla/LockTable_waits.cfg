SPECIFICATION CallersFinishSpec
CONSTANTS
    Txns = {1, 2, 3}
    Keys = {1, 2}
    Impatient = {2}
INVARIANTS
    Exclusion
    HeldMatchesLocks
    SleepsBehindOlder
    NoDeadlock
PROPERTIES
    CommitFence
    AcquireReturns
