\* Three waiters of different sizes.
SPECIFICATION FairSpec
CONSTANTS
    t1 = t1
    t2 = t2
    t3 = t3
    Task = {t1, t2, t3}
    Amounts = {1, 3}
    Rate = 1
    Burst = 3
    LagCap = 3
PROPERTIES
    KeepsGranting
