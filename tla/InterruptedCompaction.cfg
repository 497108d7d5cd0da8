SPECIFICATION Spec
CONSTANTS
    a = a
    b = b
    HashX <- MCHashX
    Prefixes = 2
    PrefixOf <- MCPrefixOf
    MaxRow = 1
    MaxTx = 4
    MaxFlushId = 5
    MaxPerFlush = 3
    NameX = {}
    CrashPoints = {"sync", "compact"}
INVARIANT
    HistoryMatchesChain
