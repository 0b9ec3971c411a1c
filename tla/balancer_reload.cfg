\* Reloads that add, remove and re-add backends under connections.
SPECIFICATION Spec
CONSTANTS
    a = a
    b = b
    t1 = t1
    t2 = t2
    t3 = t3
    Addr = {a, b}
    Task = {t1, t2, t3}
    Checker = {}
    Configs <- ReloadConfigs
    NumWorkers = 2
    ConnLimit = 1
    NoLimit = NoLimit
    UsizeMod = 2
    MaxObj = 3
SYMMETRY TaskSymmetry
INVARIANTS
    TypeOK
    ActiveCountsGuards
    LimitOvershoot
    GaugeNeverHigh
PROPERTIES
    KeepsIdentity
    RetiredForGood
    ImplementsPool
