CONSTANTS
    TTL = 20
    HostKeyTier = TRUE
    REATTEST_WINDOW = 25
    ROTATE_WINDOW_MARGIN = 4
    RETRY_BASE = 1
    RETRY_CAP = 2
    EXPIRY_MARGIN = 1
    REATTEST_INTERVAL = 3
    MAX_SLEEP = 2
    MAX_ROTATE_FAILURES = 2
    ROTATE_TIMEOUT = 1
    ATTEST_TIMEOUT = 1
    AFTER_TIMEOUT = 1
    RetryAfters = {1}
    Jitters = {0, 9}
    MaxFailures = 2
    MaxFaults = 1
    Jump = 12
SPECIFICATION RenewalSpec
INVARIANTS
    TakenOutWithinASleep
