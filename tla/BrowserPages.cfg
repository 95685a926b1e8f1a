\* Two tabs, one cookie jar.
SPECIFICATION MCSpec
CONSTANTS
    None = None
    ann = ann
    ada = ada
    tom = tom
    t1 = t1
    t2 = t2
    Tabs = {1, 2}
    Persistent = 1
    Users = {ann, ada, tom}
    Tenants = {t1, t2}
    Home <- MCHome
    TotpUsers = {ann}
    Guests <- MCGuests
    Admins <- MCAdmins
    AuthIds = {a1, a2, a3, a4}
    SsoIds = {k1, k2, k3, k4}
    Seeds = {c1, c2, c3, c4}
    Openings <- MCOpenings
    Disturbances = 1
INVARIANTS SignInServesItsForm ActsForTheAccountOfItsPage
PROPERTIES SelfRecovery
CHECK_DEADLOCK FALSE
