SPECIFICATION Spec
CONSTANTS
    Parts = {"prefetcher", "failover", "daemon", "fees", "transport"}
    Fork = 1
    MaxHeight = 4
    MinCache = 2
    Start = 0
    DaemonStart = 2
    MaxForced = 1
    MaxFailovers = 0
    MIN_PACKET_SIZE = 4
    Sizes = {1, 3, 9}
    MaxMessages = 3
PROPERTIES
    ServerFollows
    
    EveryCallEnds
    MessagesDelivered
CHECK_DEADLOCK FALSE
