SPECIFICATION MCSpec
CONSTANTS
    Threads = {t1, t2}
    NoThread = NoThread
    IPs <- OneIp
    Hosts <- TwoHosts
    Rules <- Several
    Records <- MatchingSeveral
    MaxTime = 16
    MaxRequests = 6
SYMMETRY Symmetry
INVARIANTS  SpacedNotBanned 
CHECK_DEADLOCK FALSE
