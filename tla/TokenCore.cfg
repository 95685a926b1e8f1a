\* Concurrent redemption, rotation and revocation, with faults, of one
\* account's grants.
CONSTANTS
    Users = {u1}
    Tenants = {t1}
    Clients = {cl1}
    Registered <- AllRegistered
    Codes = {k1}
    Requests = {r1, r2, r3}
    Ops = {o1}
    CodeTtl = 1
    RefreshTtl = 2
    MaxNow = 2
    Faults = TRUE
    None = None
SYMMETRY Interchangeable
SPECIFICATION Spec
CHECK_DEADLOCK FALSE
PROPERTIES ImplementsOneTimeGrant
INVARIANTS CodeRedeemedOnce GrantLineage RotatedParentRevoked RotationWithinLifetime DeadCredentialRefused
