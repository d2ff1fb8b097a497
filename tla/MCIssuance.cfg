CONSTANTS
    h1 = h1
    t1 = t1
    t2 = t2
    NoHost = NoHost
    Hosts = {h1}
    Tasks = {t1, t2}
    CRL_ENTRY_TTL_SECS = 2
    MaxTime = 2
    SvidTtl = 1
    REATTEST_WINDOW_SECS = 1
    MaxSvids = 3
    MaxEpoch = 1
    MaxAdminCalls = 2
    MaxRestarts = 1
SPECIFICATION Spec
INVARIANTS
    RenewedAtMostOnce
    RenewalsWithinWindow
    RevokedHostGetsNothing
CONSTRAINT Scenario
SYMMETRY Symmetric
CHECK_DEADLOCK FALSE
