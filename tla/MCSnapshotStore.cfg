SPECIFICATION FairSpec
CONSTANTS
    Writers = {"pump"}
    MaxChanges = 4
    MaxDeltas = 3
    Capacity = 2
INVARIANTS
    TypeOK
    SentIsPublished
    CaughtUpIsCurrent
PROPERTIES
    EveryChangeIsSeen
    ImplementsAtomicStore
CHECK_DEADLOCK FALSE
