CONSTANTS
    a1 = a1
    a2 = a2
    Apps = {a1}
    ExpiresAt <- MCExpiresAt
    LegacyEntries = {l1}
    Tasks = {t1, t2}
    TTL = 2
    MILLIS = 2
    ATTEMPTS = 2
    MaxTime = 2
    MaxChanges = 1
    NOT_BEFORE_LEEWAY = 1
    MAX_AGE = 2
    MaxFaults = 1
SPECIFICATION Spec
SYMMETRY Symmetry
INVARIANTS
    BodyFileAdmitted
    OneEntrySetPerGeneration
    GenuineBodyAdmitted
    NotModifiedMeansInForce
PROPERTIES
    NoRollback
