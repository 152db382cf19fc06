SPECIFICATION MarketSpec
CHECK_DEADLOCK FALSE
CONSTANTS
    BPS = 100
    Fee = 3
    Slippage = 10
    MinLiquidity = 1
    Amounts = {2, 5}
    Depth = 12
    MaxMoves = 2
    MaxDeviation = 40
    MinGuarded = 3
    FlashFees = {0, 2}
    FlashFloor = 1
    Readers = {r1, r2}
    SpotPrices = {1, 3}
    MinWindow = 2
    MaxObservations = 3
    LastTime = 4
    OrderIds = {1, 2}
    Calls = {c1, c2}
    Amount = 2
    OraclePrices = {1, 2}
    StaleAfter = 1
    MaxAttempts = 2
    RouteIds = {q1}
    Received = {2, 3}
    SwapFees = {0, 2}
    NativeFeeBps = 40
    SlippageBps = 30
    TenThousand = 100
    OwnFunds = 1
    Deadline = 1
    LastHeight = 2
    Requests = {g1, g2}
    Signers = {"h1"}
    Delegates = {"h1", "h2"}
    StakeAmounts = {1}
    Staked = 1
    CooldownTime = 1
    Resubmissions = 1
    MaxProposals = 2
    LastBlock = 1
    NumIds = 2
    NumRules = 1
    Prices = {1, 2, 3}
    Threshold = 2
    Cooldown = 2
    MaxTime = 5
    MaxRules = 1
    MaxReports = 3
    Checks = {k1, k2}
    Collectors = {m1, m2}
    MaxDataPoints = 2
    PruneAfter = 1
    Urls <- TwoUrls
    LatencyTTL = 2
    Latencies = {1, 2}
    MaxArrays = 3
    EndTime = 3
INVARIANTS
    UnmovedPoolPays
    GuardedNearFeed
    TwapOfItsWindow
    
    LegsMadeOnce
    
    MeasurementsSound
PROPERTIES
    NoDilution
    WindowKept
