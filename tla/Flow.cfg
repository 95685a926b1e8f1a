\* Two calls at a time, of one account and its second factors; or of two accounts
\* at two tenants, with consent and failing statements; or of one account whose SSO
\* sessions are resumed while time passes.  Or one call at a time of an account
\* that is disabled, enabled and reset.
CONSTANTS
    u1 = u1
    u2 = u2
    u3 = u3
    Home <- OneTenant
    Users = {u1, u2, u3}
    Tenants = {t1, t2}
    TotpUsers = {u3}
    PasskeyUsers = {u3}
    Requests = {r1, r2, r3, r4}
    Workloads <- Flow
    SessionTtl = 1
    IdleTtl = 2
    AbsoluteTtl = 2
    None = None
SYMMETRY Interchangeable
SPECIFICATION Spec
CHECK_DEADLOCK FALSE
INVARIANTS AuthTimeGenuine ConsentPrecedesCode CodeForMember ReauthenticationHonoured ResumeWithinLifetime
