SPECIFICATION Spec
CONSTANTS
    t1 = t1
    t2 = t2
    Callers = {t1, t2}
    Base = 4
    Peak = 2
    Floor = 1
    HardFactor = 60
    SoftFactor = 80
    IncreaseStep = 1
    DecreaseCooldown = 1
    IncreaseCooldown = 2
    RebuildThreshold = 25
    Limits = {0}
    RetryAfters = {1}
    MaxDelay = 1
    Absent = Absent
SYMMETRY CallerSymmetry
INVARIANTS
    TypeOK
    LagIsBounded
    BucketIsBuilt
PROPERTIES
    DecreaseIsDrained
    HardCooldownIsItsOwn
CHECK_DEADLOCK FALSE
