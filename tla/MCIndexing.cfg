SPECIFICATION Indexing
CONSTANTS
    Parts = {"names", "ltor", "decred", "decred races", "headers", "upgrade"}
    PrefixCount = 3
    Blocks = 2
    Leftover = 0
    MaxCrashes = 2
    CrashAt = {"open history", "history", "read counts"}
    A = A
    B = B
    C = C
    null = null
    Hole = Hole
    Tx <- MCTx
    MaxBlockTxs = 4
    MaxHeight = 6
    MaxFetch = 2
    file_size = 5
    MaxFiles = 4
    BASIC_HEADER_SIZE = 2
    ExpandedHeight = 1
    ExpandedSize = 3
    Sizes = {2, 4}
    MaxHeaders = 2
INVARIANTS
    HistoriesComplete
    IndexMatchesChain
    
    HeadersRight
    RowsOnce
PROPERTIES
    CatchesUp
CHECK_DEADLOCK FALSE
