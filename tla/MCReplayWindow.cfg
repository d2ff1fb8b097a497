CONSTANTS
    Hosts = {h1}
    Nonces = {n1, n2}
    Tasks = {t1, t2}
    MAX_SKEW_SECS = 1
    Capacity = 1
    Calls = 2
    Period = 2
    MaxTime = 3
    MaxCalls = 4
SPECIFICATION Spec
SYMMETRY Symmetry
INVARIANT AcceptedOnce
CHECK_DEADLOCK FALSE
