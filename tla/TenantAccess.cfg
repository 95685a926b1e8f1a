\* The root tenant with its administrator, a guest who may administer it, and
\* an account yet to be created; two overlapping calls of every kind, failing
\* statements and a restart.
CONSTANTS
    root = root
    sub = sub
    admin = admin
    guest = guest
    Users = {admin, guest, fresh}
    Tenants = {root, sub}
    Root = root
    Home <- Homes
    Existing = {admin, guest}
    Guests <- GuestOfRoot
    Seeded <- Holders
    Hosts = {root}
    Requests = {r1, r2}
    Kinds = {"check", "settings", "grant", "revoke", "invite", "accept", "expel", "create", "delete"}
    CacheTtl = 1
    InviteTtl = 1
    MaxNow = 1
    Faults = TRUE
    None = None
SYMMETRY Interchangeable
SPECIFICATION Spec
CHECK_DEADLOCK FALSE
INVARIANTS CacheCoherent StaleDecisionExpires GuestHasAccepted PermissionNeedsMembership
PROPERTIES SystemAdminFromSystemAdmin
