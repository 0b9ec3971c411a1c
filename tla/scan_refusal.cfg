\* Refusals while checkers, drains and other connections interfere.
SPECIFICATION ScanSpec
CONSTANTS
    a = a
    b = b
    t1 = t1
    t2 = t2
    k1 = k1
    Addr = {a, b}
    Task = {t1, t2}
    Checker = {k1}
    Configs <- DrainConfigs
    NumWorkers = 2
    ConnLimit = 1
    NoLimit = NoLimit
    UsizeMod = 2
    MaxObj = 2
SYMMETRY TaskSymmetry
INVARIANTS
    RefusedOnlyIfUnavailable
    ConnGaugeExact
    ConfigApplied
