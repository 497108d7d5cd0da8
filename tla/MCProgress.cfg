SPECIFICATION Spec
CONSTANTS
    Blocks <- MCBlocks
    NoBlock = "none"
    NoX = "none"
    Prev <- MCPrev
    Txs <- MCTxs
    Ins <- MCIns
    Outs <- MCOuts
    Comp <- MCComp
    DaemonTips = {"a4", "c5"}
    ReorgLimit = 4
    ChunkSize = 2
    MaxQueue = 2
    MaxForced = 1
    MaxReorgs = 1
    MaxCrashes = 1
    ShutdownPoints = {"flush_backup"}
PROPERTIES
    EventuallySynced
CHECK_DEADLOCK FALSE
