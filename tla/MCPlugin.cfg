SPECIFICATION FairSpec
CONSTANTS
    Transactions = {t1}
    Reloader = Reloader
    Task = Task
    Nobody = Nobody
    MaxReloads = 2
INVARIANTS TypeOK ConsumerTargetsBuilt  FreedWhenUnused
PROPERTIES ReloadEnds ConsumerFollows SnifferBinds
CHECK_DEADLOCK FALSE
