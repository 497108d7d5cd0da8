SPECIFICATION Pool
CONSTANTS
    Parts = {"mempool", "histogram", "notifications"}
    Tx = {"t1", "t2", "t3"}
    Prevouts <- MCPrevouts
    Coins <- MCCoins
    Pairs <- MCPairs
    ChunkSize = 1
    MaxBlocks = 1
    MaxEvictions = 1
    PromptTasks = TRUE
    HashX = {"x", "y"}
    Touches <- MCTouches
    MaxHeight = 2
    MaxReorgs = 1
    EarlyRefresh = TRUE
INVARIANTS
    RefreshRight
    HistogramRight
    BlockTouchesKept
PROPERTIES
    MirrorExact
    EventuallyMirrors
    AllTold
CHECK_DEADLOCK FALSE
