SPECIFICATION ReadSpec
VIEW ReadView
CONSTANTS
    Readings <- ModelReadings
    AreaPct = 68
    BarAreaPct = 70
    PeakGap = 2
    ZoneGap = 1
    Profiles <- ModelProfiles
    ZoneLists <- ModelZones
    Moments <- ModelMoments
    Day = 24
    OpensAt = 22
    CvdWindow = 7
    DivHalf = 1
    GateLeast = 6
    GapAge = 4
    SeriesRead <- ModelSeries
    Threshold = 60
    FarAtr = 1
    Evidence <- ModelEvidence
    Lot = 2
    Times3 = 3
    MinStack = 2
    TopCells = 2
    MinCell = 1
    AuctionX = 4
    BandPct = 34
    Footprints <- ModelFootprints
    Paths <- ModelPaths
    MinBars = 3
    IbBars = 3
    Steps = 2
    SignTail = 4
    Dwell = 3
    Axis = 20
    Markets <- ModelMarkets
    ZonesAsked <- ModelAsked
    Surroundings <- ModelSurroundings
    LegQuestions <- ModelLegQuestions
    VolMult = 2
    DeltaSwing = 5
    Climaxes <- ModelClimaxes
    Charts <- ModelCharts
    SwingHalf = 1
    LeastSwing = 5
    Prices <- EntryPrices
    Anchor = 100
    Touch = 6
    Kinds = {"hvn", "poc", "lvn"}
    MaxLevels = 2
    Atr = 8
    Floor = 3
    MinGap = 2
    BaseLot = 1
    Tick = 2
    Mids = {99, 103}
    StopsLevels = {0, 4}
    Wirings = {"choch", "wave", "climax", "vote"}
    Candles <- WireCandles
    Histories <- WirePasts
    MaxBarsOf <- WireLengths
    MaxGaps = 1
    MaxRestarts = 1
    SwingN = 1
    ArmWithin = 3
    LimitLife = 2
    StopBuf = 100
    StopMin = 500
    Retrace = 618
    Extend = 1618
    LegLevel <- WireLevel
    Tapes <- ModelTapes
    Hold = 2
    FillIn = 2
    Rr = 1
    Tight = 3
    PerBar = 3
    Grid <- ModelGrid
INVARIANTS
    VotesWeighed
    ReadingsSound
    LongMirrorsShort
    PlansSound
    OrdersSound
    BookingsSound
    ReplaysCausal
PROPERTY ComposedIsLegacy
CHECK_DEADLOCK FALSE
