SPECIFICATION FairSpec
CONSTANTS
    t1 = t1
    t2 = t2
    Callers = {t1, t2}
    Base = 3
    Peak = 2
    Floor = 1
    HardFactor = 60
    SoftFactor = 80
    IncreaseStep = 1
    DecreaseCooldown = 1
    IncreaseCooldown = 2
    RebuildThreshold = 100
    Limits = {}
    RetryAfters = {}
    MaxDelay = 1
    Absent = Absent
PROPERTIES
    RateRecovers
CHECK_DEADLOCK FALSE
