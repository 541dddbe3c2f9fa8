SPECIFICATION MCSpec
CONSTANTS
    \* LiveCandles
    LastTime = 4
    MaxBackoff = 3
    \* CandleCache
    Frame = 2
    Listing = 2
    Page = 2
    LastClock = 8
    Beyond = 9
    Dates = {1, 2, 3, 4, 6, 8}
    MaxBacktests = 3
    \* Backtest and Strategies
    OrderSize = 2
    GridLow = 1
    GridStep = 1
    GridLevels = 3
    DcaAmount = 6
    DcaInterval = 2
    Prices = {1, 2, 3}
    InitQuote = 12
    InitBase = 2
    FeeNum = 1
    FeeDen = 4
    PctNum = 4
    PctDen = 5
    MinLot = 1
    SnapshotEvery = 2
    MaxCandles = 5
    \* AdaptiveRsi
    Closes = {1, 2, 4}
    RsiPeriods <- MCRsiPeriods
    Oversolds <- MCOversolds
    Overboughts <- MCOverboughts
    DefaultParams <- MCDefaultParams
    MinWarmup = 1
    MaxWarmup = 5
    MaxTraded = 5
    \* WalkForward
    MaxFile = 7
    Months = {1, 2, 3, 4}
    Warm = 2
    Horizon = 1
    TrainMonths = 1
    MinSamples = 2
    MinTest = 1
    \* Account
    Bots = {b1, b2}
    Levels = {1}
    Sizes = {1}
    StartQuote = 2
    StartBase = 1
    CapNum = 3
    CapDen = 4
    MaxOrders = 3
SYMMETRY Symmetry
INVARIANTS
    LostOnlyByFailure
    ServedAsAsked
    DownloadedIsCovered
    BacktestTypeOK
    FundsAccounted
    OrdersAccounted
    AbortNeedsOverlap
    PnlOfAdjacentPair
    GridTracksPrice
    CalibrationReplaysLive
    CalibratedToTheBest
    TrainedOnThePast
    ApprovalsHold
    SoldOnce
PROPERTIES
    FeedSpec
\* Every one of these programs ends, or has no order left.
CHECK_DEADLOCK FALSE
