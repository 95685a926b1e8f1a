\* Two instances of the server, a call of an administrator, and time for a key
\* to grow old, be replaced and expire.
CONSTANTS
    Instances = {i1, i2}
    Requests = {r1}
    Validity = 3
    Lead = 1
    Interval = 1
    TokenTtl = 1
    MaxKeys = 3
    MaxNow = 2
    Faults = TRUE
    None = None
SPECIFICATION Spec
CHECK_DEADLOCK FALSE
INVARIANTS NoSigningGap SignedTokensVerifiable OneBootstrapKey
PROPERTIES SigningResumes
