SPECIFICATION Spec
CONSTANTS
    a = a
    b = b
    Ids = {a, b}
    LocalIds = {1}
    Qty = 2
    NoRow = NoRow
    NoKey = NoKey
    Symbols = {"005930"}
    Payloads = {"p"}
    MaxGeneration = 5
SYMMETRY IdPermutations
INVARIANTS
    TypeOK
    IndexRoutesToItsRow
    OneRowPerSubmission
    OpenSetIsComplete
    NoFillUnannounced
PROPERTIES
    TerminalLatch
    ImplementsTracking
CHECK_DEADLOCK FALSE
