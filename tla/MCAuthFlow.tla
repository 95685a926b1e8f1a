----------------------------- MODULE MCAuthFlow -----------------------------
(* Finite instances of AuthFlow for TLC.  u3 has TOTP and a passkey.        *)
EXTENDS AuthFlow, TLC

CONSTANTS u1, u2, u3

OneTenant == [u \in Users |-> CHOOSE t \in Tenants : TRUE]

Interchangeable == Permutations(Requests)

\* Second factor, forced change, passkey and consent of one account.
Steps == [kinds |-> {"authorize", "login", "mfa", "change", "passkey", "approve"},
          ops |-> {"reset", "delete"}, users |-> {u3}, tenants |-> {Home[u3]},
          scopes |-> {{"profile"}}, prompts |-> {"consent"}, maxAges |-> {None},
          until |-> 1, faults |-> FALSE, parallel |-> 2]

\* Two accounts share AuthSessions, SSO sessions are shared by two tenants, a
\* guest comes and goes, statements fail; the clock stands still.
Consent == [kinds |-> {"authorize", "login", "approve", "deny"},
            ops |-> {"guest"}, users |-> {u1, u2}, tenants |-> Tenants,
            scopes |-> {{"profile"}}, prompts |-> {""}, maxAges |-> {None},
            until |-> 0, faults |-> TRUE, parallel |-> 2]

\* SSO sessions of one account in one tenant resumed, timed out, logged out and
\* wiped while time passes; nothing is asked for that needs consent.
Resume == [kinds |-> {"authorize", "login", "logout"},
           ops |-> {"disable"}, users |-> {u1}, tenants |-> {Home[u1]},
           scopes |-> {{}}, prompts |-> {"login", "none"}, maxAges |-> {None, 0},
           until |-> 2, faults |-> FALSE, parallel |-> 2]

\* The administrator disables, enables and forces a change of the password; the
\* statement that deletes the SSO sessions may fail.
Forced == [kinds |-> {"authorize", "login", "change"},
           ops |-> {"reset", "disable", "enable"}, users |-> {u1}, tenants |-> {Home[u1]},
           scopes |-> {{}}, prompts |-> {""}, maxAges |-> {None},
           until |-> 0, faults |-> TRUE, parallel |-> 1]

\* Two accounts, one with TOTP, log in on one AuthSession.
TwoAccounts == [kinds |-> {"authorize", "login", "approve"}, ops |-> {},
                users |-> {u1, u3}, tenants |-> Tenants, scopes |-> {{"profile"}},
                prompts |-> {""}, maxAges |-> {None}, until |-> 0, faults |-> FALSE, parallel |-> 2]

Flow == {Steps, Consent, Resume, Forced}
FlowTwoAccounts == {TwoAccounts}
=============================================================================
