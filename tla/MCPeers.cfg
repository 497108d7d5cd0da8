SPECIFICATION Peering
CONSTANTS
    Parts = {"peers", "peer requests", "peer tasks", "sessions"}
    Peer = {"name", "alias", "ip"}
    IpOf <- MCIpOf
    Domain <- MCDomain
    NoIp = "none"
    STALE_SECS = 1
    PEER_ADD_PAUSE = 1
    Day = 8
    TryLimitGood = 2
    TryLimitNew = 1
    MaxTime = 1
    MayAdd = FALSE
    Overlap = FALSE
    force_proxy = FALSE
    Session = {"s1", "s2", "s3"}
    Exempt = "exempt"
    GroupOf <- MCGroupOf
    max_sessions = 2
    ConnectionCost = 1
    HardLimit = 3
    Refund = 1
    MaxSpent = 3
    MaxRecalcs = 1
    ListenFails = FALSE

    
    
PROPERTIES
    
    ServersFollowLimit
CHECK_DEADLOCK FALSE
