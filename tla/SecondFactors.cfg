\* Two accounts, one with a passkey; two open challenges; three calls at the TOTP
\* pages, at the registration, or at the login.
CONSTANTS
    Users = {u1, u2}
    Passkeys = {k}
    Pending = {c1, c2}
    Requests = {r1, r2, r3}
    Workloads <- Pages
    ChallengeTtl = 1
    MaxCount = 2
    MaxNow = 1
    Faults = TRUE
    None = None
SYMMETRY Interchangeable
SPECIFICATION Spec
CHECK_DEADLOCK FALSE
INVARIANTS ConfirmedSecretChecked PasskeyOfRequester
PROPERTIES ChallengeNotReplayed AcceptedCountersGrow
