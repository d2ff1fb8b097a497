CONSTANTS
    a1 = a1
    a2 = a2
    e1 = e1
    e2 = e2
    k1 = k1
    k2 = k2
    t1 = t1
    t2 = t2
    Accounts = {a1, a2}
    Tokens = {e1, e2}
    Keys = {k1, k2}
    Tasks = {t1, t2}
    MAX_WEBAUTHN_CREDENTIALS = 1
    MaxCalls = 4
SPECIFICATION Spec
SYMMETRY Symmetry
INVARIANTS
    FactorKept
    TokensSingleUse
PROPERTIES
    LastAdminGuarded
CHECK_DEADLOCK FALSE
