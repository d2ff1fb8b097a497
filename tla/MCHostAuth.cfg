CONSTANTS
    Hosts = {h1}
    Nonces = {n1, n2, n3}
    Tasks = {t1, t2}
    MAX_SKEW_SECS = 1
    Capacity = 2
    Calls = 2
    Period = 1
    MaxTime = 2
    MaxCalls = 4
SPECIFICATION Spec
SYMMETRY Symmetry
INVARIANTS
    CacheConsistent
    ReplayOnlyAtWindowEnd
    WithinRate
CHECK_DEADLOCK FALSE
