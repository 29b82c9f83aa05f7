SPECIFICATION Spec
CONSTANTS
    a = a
    b = b
    s1 = s1
    s2 = s2
    Ids = {a}
    LocalIds = {1}
    Qty = 2
    Sweepers = {s1, s2}
    Cancels = {}
    Refreshes = {1}
    Fetches = {}
    MaxCalls = 2
    MayStop = TRUE
    NoRow = NoRow
    NoKey = NoKey
    None = None
SYMMETRY SweepSymmetry
INVARIANTS
    ClosedRowsAreFinal
    NoPhantomFills
    SubmissionKeepsARow
PROPERTIES
    AnswerKeepsFills
CHECK_DEADLOCK FALSE
