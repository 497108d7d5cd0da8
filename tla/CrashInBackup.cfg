SPECIFICATION Spec
CONSTANTS
    a = a
    b = b
    HashX <- MCHashX
    Prefixes = 2
    PrefixOf <- MCPrefixOf
    MaxRow = 1
    MaxTx = 3
    MaxFlushId = 5
    MaxPerFlush = 1
    NameX = {}
    CrashPoints = {"backed_up"}
INVARIANT
    Recoverable
