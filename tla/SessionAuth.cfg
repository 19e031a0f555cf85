CONSTANTS
    Tasks = {t1, t2, t3, t4}
    Null = Null
SPECIFICATION FairSpec
INVARIANTS
    OneLogin
    SessionsAccounted
PROPERTIES
    ImplementsContract
    EveryCallEnds
CHECK_DEADLOCK FALSE
