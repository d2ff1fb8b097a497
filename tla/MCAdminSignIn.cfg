CONSTANTS
    n1 = n1
    n2 = n2
    t1 = t1
    t2 = t2
    h1 = h1
    h2 = h2
    h3 = h3
    Nodes = {n1, n2}
    Tasks = {t1, t2}
    Hashes = {h1, h2, h3}
    Thresholds <- MCThresholds
    Locks <- MCLocks
    RESET_AFTER_SECS = 2
    SKEW_STEPS = 1
    MAX_SESSIONS_PER_ACCOUNT = 2
    MAX_STEP_UP_FAILURES = 2
    StoreErrors = TRUE
    MaxTime = 2
    MaxCalls = 3
SPECIFICATION Spec
SYMMETRY Symmetry
INVARIANTS
    GuessesStopAtLock
    CodesOnce
    OnlyMissedSurvive
CHECK_DEADLOCK FALSE
