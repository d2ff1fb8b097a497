CONSTANTS
    h1 = h1
    t1 = t1
    t2 = t2
    Hosts = {h1}
    Tasks = {t1, t2}
    CRL_ENTRY_TTL_SECS = 2
    MaxTime = 2
    MaxCrlNumber = 2
    CRL_MAX_AGE_SECS = 0
    CRL_FRESHNESS_LEEWAY_SECS = 1
    MiaLag = 0
    MaxRestarts = 0
SPECIFICATION Spec
PROPERTY PublishedNumberMonotonic
CHECK_DEADLOCK FALSE
