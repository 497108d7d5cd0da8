SPECIFICATION Spec
CONSTANTS
    Parts = {"readers", "txids", "merkle", "lru"}
    Blocks <- MCBlocks
    Genesis <- MCGenesis
    A = "A"
    NoOne = "none"
    Comp <- MCComp
    MaxReorgs = 2
    Key = {"k1", "k2", "k3", "k4"}
    maxsize = 5
    MaxValue = 3
INVARIANTS
    ReadsConsistent
    TxidsFresh
    ProofsRight
PROPERTIES
    RequestsAnswered
    CacheRight
CHECK_DEADLOCK FALSE
