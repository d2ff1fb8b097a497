SPECIFICATION Spec
CONSTANTS
    l1 = l1
    s1 = s1
    s2 = s2
    s3 = s3
    u1 = u1
    a1 = a1
    Lineages = {l1}
    Users = {u1}
    Admins = {a1}
    Tasks = {t1, t2}
    Signer <- MCSigner
    AutoUpdate = TRUE
    StrictSod = FALSE
    Shas = {s1, s2, s3}
    RequestIds = {r1, r2, r3}
    ApprovalIds = {p1, p2, p3}
    Submissions <- IntakeSubmissions
    Terms <- IntakeTerms
    Edits = {}
    MAX_PER_DAY = 1
    DAY = 2
    COOLDOWN = 0
    PENDING_TTL = 1
    MAX_PENDING_PER_HOST = 1
    MAX_PENDING_PER_USER = 1
    Ops = {"submit", "register", "freeze"}
    MaxTime = 2
    MaxVersion = 2
    MaxAlsoRevoke = 0
SYMMETRY MCSymmetry
INVARIANTS AutoRate PendingCap
CHECK_DEADLOCK FALSE
