\* Either three overlapping calls at the doors that count, with restarts and
\* failing statements, or two at all the other doors, with tickets presented at
\* another tenant or too late.
CONSTANTS
    Home <- OneTenant
    Users = {u1}
    Tenants = {t1, t2}
    Ips = {ip1}
    Requests = {r1, r2, r3}
    Kinds = {"login", "portal", "portal_change", "portal_mfa", "admin", "admin_change", "account"}
    AdminOps = {"reset", "totp", "status", "verify"}
    MaxFailed = 2
    LockTtl = 1
    MaxAttempts = 2
    Window = 1
    TicketTtl = 0
    MaxNow = 1
    Faults = TRUE
    None = None
SYMMETRY Interchangeable
SPECIFICATION MCSpec
CHECK_DEADLOCK FALSE
INVARIANTS LimiterBound LockNeedsMaxFailures SequentialFailuresLock SecondFactorHonoured TicketGenuine
PROPERTIES LockRunsItsTime
