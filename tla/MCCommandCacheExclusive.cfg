CONSTANTS
    Tasks = {t1, t2, t3}
    Uids = {u1}
    MaxSize = 1
    Ttl = 1
    MaxTime = 2
    Null = Null
SPECIFICATION Spec
INVARIANTS
    ExclusiveAccess
SYMMETRY MCSymmetry
CHECK_DEADLOCK FALSE
