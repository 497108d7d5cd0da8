SPECIFICATION Spec
CONSTANTS
    a = a
    b = b
    HashX <- MCHashX
    Prefixes = 2
    PrefixOf <- MCPrefixOf
    MaxRow = 2
    MaxTx = 4
    MaxFlushId = 4
    MaxPerFlush = 2
    NameX = {}
    CrashPoints = {"sync", "hist_flushed", "compact"}
INVARIANTS
    HistoryCorrect
    Recoverable
PROPERTIES
    ImplementsIndex
