SPECIFICATION FairSpec
CONSTANTS
    Symbols = {x}
    PriceLeases = {p1}
    MaxHoldingLeases = 1
    MaxHandles = 2
    MaxRequests = 2
    None = None
PROPERTIES
    LastHandleStops
CHECK_DEADLOCK FALSE
