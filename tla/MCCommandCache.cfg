CONSTANTS
    Tasks = {t1, t2, t3}
    Uids = {u1, u2, u3}
    MaxSize = 1
    Ttl = 1
    MaxTime = 2
    Null = Null
SPECIFICATION Spec
INVARIANTS
    BoundedCache
    OverlapOnlyAfterExpiry
    FailureIsOwn
    HitIsRecentAnswer
PROPERTIES
    CacheMovesForward
SYMMETRY MCSymmetry
CHECK_DEADLOCK FALSE
