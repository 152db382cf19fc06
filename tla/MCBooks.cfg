SPECIFICATION RecordSpec
CHECK_DEADLOCK FALSE
CONSTANTS
    Scans = {s1, s2}
    MaxLedger = 3
    PerLedger = 3
    MaxEvents = 3
    Limit = 2
    Window = 1
    Polls = {p1, p2}
    WatchWindow = 1
    Users = {"u1", "u2"}
    Swaps <- MCSwaps
    FEE_SCALE = 100
    Day = 1
    HistoryLimit = 3
    LastLedger = 4
    LongestLedger = 2
    MostSwaps = 3
    Owners = {"o1", "o2"}
    Pairs <- MCPairs
    PoolStates <- MCPools
    Stables = {"S"}
    PRICE_SCALE = 100
    SHARE_SCALE = 10
    Revenues = {1, 3}
    PageSizes = {1, 2}
    MaxTrades = 4
    Lookups = {l1, l2}
    CacheTtl = 2
    LongestRead = 2
    LastTick = 6
    Resolves = {d1, d2}
    TokenKeys = {t1, t2, t3, t4}
    Capacity = 2
    NumTasks = 4
    Concurrency = 2
    TimesOut = TRUE
INVARIANTS
    ScanIsRun
    
    
    TaxBooksBalance
    
    CachesSound
    BatchComplete
