SPECIFICATION BarSpec
CONSTANTS
    Price <- CyclePrices
    Plan <- CyclePlans
    Rules <- CycleRules
    Floor = 9
    EscapeMove = 6
    EscapeBars = 2
    Near = 50
    Shapes <- SweepShapes
    Refs <- SweepRefs
    Span = 2
    MaxBars = 3
    MaxAge = 3
    MinStored = 2
    Asks = 1
    Starts = 1
    Symbols = {"xau", "btc"}
    Moves <- PrintMoves
    Window = 2
    OutcomeBars = 1
    MaxTicks <- PrintTicks
    MaxPrints = 2
    Types = {"bull"}
    Flows <- MemoryFlows
    LookBack = 3
    MaxAnchors = 2
    StaleBars = 2
    MaxFlows = 5
    MaxDeaths = 1
    Kinds = {"choch", "wave", "climax", "vote"}
    Candles <- LimitCandles
    Histories <- LimitPast
    MaxBarsOf <- LimitBars
    MaxGaps = 1
    MaxRestarts = 1
    SwingN = 1
    ArmWithin = 3
    LimitLife = 2
    StopBuf = 100
    StopMin = 500
    Retrace = 618
    Extend = 1618
    LegLevel <- LimitLevel
    TargetLevel <- LimitTarget
    Scenes <- FadeScenes
    MaxFadeBars = 3
    MaxLapses = 1
    TickHandlers = {"h1", "h2"}
    TickBars = 3
    TickEmits = 3
    TickPosts = 2
    TickStarts = 2
    KeepAfter = 1
    VpSymbols = {"btc", "xau"}
    StartHour <- VpStarts
    Day = 4
    Week = 8
    Ist = 1
    DaysBack = 2
    WeeksBack = 2
    MinCached = 2
    MinDaily = 2
    MinWeekly = 3
    Thursday = 4
    RefreshBars = 2
    VpHorizon = 6
    MaxMissing <- VpLate
    MaxCrashes = 1
INVARIANTS
    BarTypeOK
    PositionSound
    SweepsOnce
    PastIsRecorded
    OneEntryPerSetup
    OneTickPerBar
    ProfilesOfTheirSession
PROPERTY SettledStands
CHECK_DEADLOCK FALSE
