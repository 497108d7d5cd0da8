SPECIFICATION Spec
CONSTANTS
    Blocks <- MCBlocks
    NoBlock = "none"
    NoX = "none"
    Prev <- MCPrev
    Txs <- MCTxs
    Ins <- MCIns
    Outs <- MCOuts
    Comp <- MCComp
    DaemonTips = {"m2", "a5", "c6"}
    ReorgLimit = 4
    ChunkSize = 2
    MaxQueue = 2
    MaxForced = 1
    MaxReorgs = 1
    MaxCrashes = 1
    ShutdownPoints = {"wait", "advanced", "notify", "reorg", "probe", "backup", "reopen"}
INVARIANTS
    
    CacheMatchesTip
    NoFailure
    TouchedCoversChanges
CHECK_DEADLOCK FALSE
