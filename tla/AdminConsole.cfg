SPECIFICATION MCSpec
CONSTANTS
    Requests = {r1, r2, r3}
    Workloads <- Forms
    None = None
    Child = t
    MaxNow = 2
    Client = c
    Sp = s
    Entities = {e1, e2}
    Env <- Unset
    MaxDoc = 8
    Words <- Vocabularies
    Faults = TRUE
SYMMETRY Interchangeable
CHECK_DEADLOCK FALSE
INVARIANTS
    DisabledTenantExpires
    RestartSucceeds
    NoOlderMailSettings
    ImportFaithful
