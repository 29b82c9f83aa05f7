SPECIFICATION FairSpec
CONSTANTS
    Symbols = {x, y}
    PriceLeases = {p1, p2}
    MaxHoldingLeases = 2
    MaxHandles = 2
    MaxRequests = 2
    None = None
INVARIANTS
    LeasesAreCounted
PROPERTIES
    LeaseIsServed
    LeasedPriceIsPolled
CHECK_DEADLOCK FALSE
