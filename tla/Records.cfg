SPECIFICATION RecordsSpec
CONSTANTS
    Store = {s1}
    Pid = {p1, p2}
    Price = {1, 2}
    RVal = {1}
    Day = {0, 1}
    MaxLegs = 2
    TornWrites = FALSE
    ScaleOut = TRUE
    Trades = {"p", "q"}
    Linked = {"p"}
    SideOf <- AuditSides
    AuditBars <- AuditPrices
    Offsets = {4}
    StopAway = 4
    WideStop = 3
    MaxRows = 4
    MaxJobs = 2
    PatchSpan = 9
    TfSpan = 2
    Tolerance = 0
    Feeds <- TwoFeeds
    Minute = 2
    Daily = 4
    Quarter = 4
    PriceStep = 3
    PageSize = 2
    MaxScripts = 2
    MaxStarts = 1
INVARIANTS
    MemoryIsReplay
PROPERTIES
    BookedOnce
    ImplementsLedger
    RecordsSound
CHECK_DEADLOCK FALSE
