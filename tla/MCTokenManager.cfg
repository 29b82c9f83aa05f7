SPECIFICATION FairSpec
CONSTANTS
    Callers = {t1, t2, t3}
    Tokens = {k1, k2}
    Lifetimes = {2, 4}
    Skew = 2
    MaxLatency = 1
    None = None
PROPERTIES
    HandedOutIsValid
    RejectedIsNotReused
    ImplementsTokenCell
    TokenIsAnswered
CHECK_DEADLOCK FALSE
