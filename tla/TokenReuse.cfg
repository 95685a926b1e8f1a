\* A rotated refresh token is presented again.
CONSTANTS
    Users = {u1}
    Tenants = {t1}
    Clients = {cl1}
    Registered <- AllRegistered
    Codes = {k1}
    Requests = {r1, r2, r3}
    Ops = {}
    CodeTtl = 1
    RefreshTtl = 1
    MaxNow = 1
    Faults = FALSE
    None = None
SPECIFICATION Spec
CHECK_DEADLOCK FALSE
INVARIANTS ReuseRevokesChain
