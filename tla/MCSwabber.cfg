SPECIFICATION MCSpec
CONSTANTS
    Threads = {t1, t2}
    NoThread = NoThread
    Reloader = Reloader
    IPs = {ip1, ip2}
    WhiteListed = {ip2}
    GracePeriod = 2
    MaxTime = 4
    MaxCalls = 3
INVARIANTS
    DeliveredBansJustified
    DenialNeedsFilter
    LogAlternates
PROPERTIES
    ImplementsBanService
    ReleaseCompletes
CHECK_DEADLOCK FALSE
