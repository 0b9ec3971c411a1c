\* Two runtime threads, a limit of one connection, no reload.
SPECIFICATION Spec
CONSTANTS
    a = a
    b = b
    t1 = t1
    t2 = t2
    t3 = t3
    Addr = {a, b}
    Task = {t1, t2}
    Checker = {}
    Configs <- OneBackend
    NumWorkers = 2
    ConnLimit = 1
    NoLimit = NoLimit
    UsizeMod = 2
    MaxObj = 1
INVARIANTS
    MaxConnsPerBackend
