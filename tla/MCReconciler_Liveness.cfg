SPECIFICATION FairSpec
CONSTANTS
    a = a
    b = b
    s1 = s1
    s2 = s2
    Ids = {a}
    LocalIds = {1}
    Qty = 1
    Sweepers = {s1}
    Cancels = {1}
    Refreshes = {}
    Fetches = {1}
    MaxCalls = 1
    MayStop = FALSE
    NoRow = NoRow
    NoKey = NoKey
    None = None
PROPERTIES
    
    OpenOrderIsTracked
    SubmissionIsAnswered
    RevertedCancelIsFolded
