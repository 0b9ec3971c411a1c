\* Shares of two backends under overlapping calls and idle reloads.
SPECIFICATION RRSpec
CONSTANTS
    a = a
    b = b
    t1 = t1
    t2 = t2
    t3 = t3
    Addr = {a, b}
    Task = {t1, t2, t3}
    Checker = {}
    Configs <- Pair
    NumWorkers = 3
    ConnLimit = NoLimit
    NoLimit = NoLimit
    UsizeMod = 4
    MaxObj = 4
SYMMETRY TaskSymmetry
INVARIANTS
    EvenShares
