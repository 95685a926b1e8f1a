\* Registration, reset and verification by two pages, with expiry and faults.
CONSTANTS
    Home <- OneTenant
    Users = {u1}
    Tenants = {t1, t2}
    Existing = {}
    Requests = {r1, r2, r3, r4}
    Kinds = {"register", "request", "reset", "verify"}
    Ttl = 1
    MaxNow = 1
    Faults = TRUE
    None = None
SYMMETRY Interchangeable
SPECIFICATION Spec
CHECK_DEADLOCK FALSE
INVARIANTS EffectsComeFromLinks
PROPERTIES ImplementsOneTimeGrant
