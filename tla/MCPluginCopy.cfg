SPECIFICATION Spec
CONSTANTS
    Transactions = {t1}
    Reloader = Reloader
    Task = Task
    Nobody = Nobody
    MaxReloads = 1
INVARIANT TransactionsUseLive
CHECK_DEADLOCK FALSE
