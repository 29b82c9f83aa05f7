SPECIFICATION FairSpec
CONSTANTS
    Callers = {c1, c2}
    Calls <- MCCalls
    MaxAttempts = 3
    BaseDelay = 1
    MaxDelay = 1
    RetryAfters = {2}
    KeyLife = Absent
    Absent = Absent
INVARIANTS
    FedOnce
    OneEffectPerCall
PROPERTIES
    RetryAfterKept
    CallEnds
CHECK_DEADLOCK FALSE
