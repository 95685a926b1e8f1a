\* Two accounts log in on one AuthSession.
CONSTANTS
    u1 = u1
    u2 = u2
    u3 = u3
    Home <- OneTenant
    Users = {u1, u3}
    Tenants = {t1}
    TotpUsers = {u3}
    PasskeyUsers = {}
    Requests = {r1, r2, r3, r4}
    Workloads <- FlowTwoAccounts
    SessionTtl = 1
    IdleTtl = 2
    AbsoluteTtl = 2
    None = None
SYMMETRY Interchangeable
SPECIFICATION Spec
CHECK_DEADLOCK FALSE
INVARIANTS CodeNamesWhoLoggedIn
