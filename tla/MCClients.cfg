SPECIFICATION Clients
CONSTANTS
    Parts = {"subscriptions", "handshake", "fees"}
    t1 = t1
    t2 = t2
    NoValue = NoValue
    Txs = {1}
    MaxHeight = 2
    MaxChanges = 4
    Tasks = {t1, t2}
    Limit = 2
    Overlap = FALSE
    EqualHeights = FALSE
    Version <- MCVersion
    Class = {"ElectrumX", "Dash", "SmartCash", "NameIndex"}
    PROTOCOL_MIN <- MCMin
    PROTOCOL_MAX <- MCMax
    CrashVer <- MCCrashVer
    DropUnknown = TRUE
    Session = {"s1", "s2", "s3"}
    Key = {"k1", "k2"}
    Tip = {"A", "B", "C"}
    maxsize = 2
    MaxTime = 2
    MaxLocks = 2
SYMMETRY TaskSymmetry
INVARIANTS
    
    EstimatesShared
PROPERTIES
    VersionNegotiated
CHECK_DEADLOCK FALSE
