CONSTANTS
    Tasks = {t1, t2, t3, t4}
    MaxRequests = 1
    Null = Null
SPECIFICATION FairSpec
INVARIANTS
    OneOpenClient
    FlagsAreTrue
    SlotsAreExact
PROPERTIES
    EveryCallEnds
CHECK_DEADLOCK FALSE
