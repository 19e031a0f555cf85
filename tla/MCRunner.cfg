CONSTANTS
    d1 = d1
    d2 = d2
    d3 = d3
    any = any
    mtu = mtu
    bad = bad
    AnyTest = AnyTest
    MtuTest = MtuTest
    leaf = leaf
    spine = spine
    Null = Null
    Runs = {r1, r2}
    RunArgs <- MCRunArgs
    Devices <- MCDevices
    Address <- MCAddress
    DeviceTags <- MCDeviceTags
    Definitions <- MCDefinitions
    Names <- MCNames
    Tags <- MCTags
    NameOf <- MCNameOf
    TagsOf <- MCTagsOf
    Broken <- MCBroken
    Raw <- MCRaw
    MaxConcurrency = 2
SPECIFICATION FairSpec
INVARIANTS
    ReportIsComplete
    CutByAnother
    NoConnectionLeft
PROPERTIES
    PlanIsExact
    EveryRunEnds
CHECK_DEADLOCK FALSE
