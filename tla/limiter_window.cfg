\* The bucket against the interval rule.
SPECIFICATION WSpec
CONSTANTS
    t1 = t1
    t2 = t2
    Task = {t1, t2}
    Amounts = {1, 3}
    Rate = 2
    Burst = 4
    LagCap = 2
    MaxNow = 4
SYMMETRY TaskSymmetry
INVARIANTS
    TypeOK
    BucketIsLeastSlack
PROPERTIES
    Promise
