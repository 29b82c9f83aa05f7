SPECIFICATION FairSpec
CONSTANTS
    a = a
    b = b
    s1 = s1
    s2 = s2
    Ids = {a}
    LocalIds = {1}
    Qty = 1
    Sweepers = {s1}
    Cancels = {}
    Refreshes = {}
    Fetches = {1}
    MaxCalls = 1
    MayStop = FALSE
    NoRow = NoRow
    NoKey = NoKey
    None = None
PROPERTIES
    DropIsCaptured
CHECK_DEADLOCK FALSE
