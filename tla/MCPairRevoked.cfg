CONSTANTS
    h1 = h1
    t1 = t1
    t2 = t2
    NoHost = NoHost
    Hosts = {h1}
    Tasks = {t1, t2}
    CRL_ENTRY_TTL_SECS = 1
    MaxTime = 1
    SvidTtl = 1
    REATTEST_WINDOW_SECS = 1
    MaxSvids = 2
    MaxEpoch = 0
    MaxAdminCalls = 1
    MaxRestarts = 0
SPECIFICATION Spec
INVARIANTS
    PairRevokedTogether
CHECK_DEADLOCK FALSE
