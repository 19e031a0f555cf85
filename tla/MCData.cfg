CONSTANTS
    None = None
    NotSet = None
    Values <- MCValues
    Words <- MCWords
    CommandLists <- MCCommandLists
    OtherCommands <- PlainCommands
    Absent = None
    Unset = None
    Refused = Refused
    Files <- MCFiles
    LastAddress <- MCLastAddress
    DefaultPort = 443
    HostNames <- MCHostNames
    Requests <- MCRequests
    Details <- MCDetails
    Contents <- MCContents
    Empty = Empty
    Nothing = Nothing
    Unknown = Unknown
    Plain = Plain
    Null = Null
    Definitions = {"uptime", "mtu", "mtuSpine", "both"}
    Names = {"Uptime", "Mtu"}
    Tags = {"leaf", "spine"}
    NameOf <- MCNameOf
    TagsOf <- MCTagsOf
SPECIFICATION Spec
INVARIANTS
    AnswerIsAccounted
    InventoryIsComplete
    DumpAndParse
    AnsibleHostsFound
    SessionIsIntended
    KeptIsKept
    CachedAnswerFits
    CatalogIsComplete
    ListingIsComplete
    IndexIsExact
    QueriesAreExact
CHECK_DEADLOCK FALSE
