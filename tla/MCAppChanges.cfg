SPECIFICATION Spec
CONSTANTS
    l1 = l1
    s1 = s1
    s2 = s2
    s3 = s3
    u1 = u1
    a1 = a1
    Lineages = {l1}
    Users = {u1}
    Admins = {a1}
    Tasks = {t1, t2}
    Signer <- MCSigner
    AutoUpdate = TRUE
    StrictSod = FALSE
    Shas = {s1, s2}
    RequestIds = {r1, r2}
    ApprovalIds = {p1, p2}
    Submissions <- ChangeSubmissions
    Terms <- ChangeTerms
    Edits <- ChangeEdits
    MAX_PER_DAY = 1
    DAY = 2
    COOLDOWN = 1
    PENDING_TTL = 1
    MAX_PENDING_PER_HOST = 2
    MAX_PENDING_PER_USER = 2
    Ops = {"submit", "register", "revoke", "expire", "update", "approve", "deny", "lapse"}
    MaxTime = 1
    MaxVersion = 3
    MaxAlsoRevoke = 1
SYMMETRY MCSymmetry
INVARIANTS HistoryMatches OneDecision WideAutoProtected AutoWithinParent
PROPERTIES LiveChangeBumps EndsOnlyWhenDue
CHECK_DEADLOCK FALSE
