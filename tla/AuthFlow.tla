------------------------------ MODULE AuthFlow ------------------------------
(***************************************************************************)
(* The interactive flows between GET /authorize and an authorization code: *)
(* SSO resumption, password login, TOTP, forced password change, passkey   *)
(* login, consent, logout, with the account operations that cut across     *)
(* them.  One client per tenant stands for all of them.                    *)
(*                                                                         *)
(* A member of Requests is one call of a handler; an action is one SQL     *)
(* statement of it.  It also names the AuthSession, the SSO session and    *)
(* the code that the call creates, at most one of each.  The login lockout *)
(* (failed_login_count, locked_until) and the rate limiter are in          *)
(* PasswordLogin: here a refused password is a request that never starts.  *)
(***************************************************************************)
EXTENDS Integers, FiniteSets

CONSTANTS
    Users, Tenants,
    Home,            \* users.tenant_id
    TotpUsers,       \* accounts with a confirmed TOTP secret
    PasskeyUsers,    \* accounts with a registered passkey
    Requests,        \* the handler calls that may happen (bound)
    Workloads,       \* what may happen in a behaviour, chosen at its start (bound)
    SessionTtl, IdleTtl, AbsoluteTtl,   \* AuthSession, SSO idle, SSO absolute
    None             \* SQL NULL / Option::None

ASSUME TtlAssumption ==
    /\ SessionTtl \in Nat \ {0} /\ IdleTtl \in Nat \ {0} /\ AbsoluteTtl \in Nat \ {0}
ASSUME AccountAssumption ==
    /\ Home \in [Users -> Tenants]
    /\ TotpUsers \subseteq Users /\ PasskeyUsers \subseteq Users
ASSUME NoneAssumption == None \notin Users \cup Tenants \cup Requests \cup Int

\* A workload: the handlers that are called, the account operations that
\* happen, to whom and where; the sets of scopes asked for (without `openid`),
\* the values of `prompt` ("" for none) and `max_age`; when the clock stops;
\* whether statements fail and handlers are dropped; how many calls run at a
\* time.
Kinds == {"authorize", "login", "mfa", "change", "passkey", "approve", "deny", "logout"}
AccountOps == {"disable", "reset", "enable", "delete", "guest"}
Prompts == {"", "login", "consent", "none"}
Workload == [kinds : SUBSET Kinds, ops : SUBSET AccountOps, users : SUBSET Users,
             tenants : SUBSET Tenants, scopes : SUBSET SUBSET STRING, prompts : SUBSET Prompts,
             maxAges : SUBSET (Nat \cup {None}), until : Nat, faults : BOOLEAN, parallel : Nat]
Scopes == UNION {w.scopes : w \in Workloads}

ASSUME InputAssumption == Workloads \subseteq Workload

VARIABLES
    now,        \* the Clock port
    load,       \* the workload
    users,      \* users: status and must_change_password
    guests,     \* ACTIVE guest memberships, as <<tenant, user>>
    consents,   \* client_consents: the scopes consented to, {} without a row
    sess,       \* auth_sessions, by the authorize call that created the row
    sso,        \* sso_sessions, by the call that created the row
    pc,         \* where each call stands
    job,        \* the locals of each call
    issued,     \* the authorization code each call inserted
    wiping,     \* accounts whose SSO sessions an operation is about to delete
    proved,     \* history: who presented every credential asked for, and when
    seen,       \* history: the accounts each AuthSession was ever set to
    granted,    \* history: what each account ever consented to
    joined      \* history: the members of a call's tenant at some time since it began

rows == <<users, guests, consents, sess, sso, wiping>>
calls == <<pc, job, issued>>
history == <<proved, seen, granted, joined>>
vars == <<now, load, rows, calls, history>>
-----------------------------------------------------------------------------
Session == [tenant : Tenants, scope : Scopes, user : Users \cup {None},
            auth : Int \cup {None}, pending : BOOLEAN, expires : Int]
SsoSession == [user : Users, auth : Int, idle : Int, absolute : Int]

Job == [kind : Kinds, tenant : Tenants, scope : Scopes \cup {None},
        prompt : Prompts \cup {None}, maxAge : Nat \cup {None},
        sess : Requests \cup {None}, cookie : Requests \cup {None},
        user : Users \cup {None}, time : Int, auth : Int \cup {None}]

Issued == [user : Users, tenant : Tenants, scope : Scopes, auth : Int]

ASSUME NoneIsNoRecord == None \notin Session \cup SsoSession \cup Job \cup Issued

Member(t, u) == Home[u] = t \/ <<t, u>> \in guests
Deleted(u) == users[u].status = "DELETED"

\* Mutant of SsoValidAt: the absolute limit is not compared.
SsoIdleAt(s, time) == s.idle > time

\* SsoSession::is_valid_at
SsoValidAt(s, time) == s.idle > time /\ s.absolute > time

\* AuthSession::is_expired_at
ExpiredAt(s, time) == s.expires <= time

Pcs == {"new", "sso", "expire", "user", "member", "extend", "consent", "create", "load",
        "purge", "setpwd", "newpwd", "ssonew", "setauth", "upsert", "issue", "drop", "end",
        "ok", "failed"}
Ended == {"ok", "failed"}

TypeOK ==
    /\ load \in Workloads /\ now \in 0..load.until
    /\ users \in [Users -> [status : {"ACTIVE", "DISABLED", "DELETED"}, mustChange : BOOLEAN]]
    /\ guests \subseteq Tenants \X Users
    /\ consents \in [Tenants \X Users -> SUBSET UNION Scopes]
    /\ sess \in [Requests -> Session \cup {None}]
    /\ sso \in [Requests -> SsoSession \cup {None}]
    /\ pc \in [Requests -> Pcs]
    /\ job \in [Requests -> Job \cup {None}]
    /\ issued \in [Requests -> Issued \cup {None}]
    /\ wiping \subseteq Users
    /\ proved \subseteq Users \X Int
    /\ seen \in [Requests -> SUBSET Users]
    /\ granted \subseteq Tenants \X Users \X UNION Scopes
    /\ joined \in [Requests -> SUBSET Users]

Init ==
    /\ now = 0 /\ load \in Workloads
    /\ users = [u \in Users |-> [status |-> "ACTIVE", mustChange |-> FALSE]]
    /\ guests = {} /\ wiping = {} /\ proved = {} /\ granted = {}
    /\ consents = [p \in Tenants \X Users |-> {}]
    /\ sess = [r \in Requests |-> None]
    /\ sso = [r \in Requests |-> None]
    /\ pc = [r \in Requests |-> "new"]
    /\ job = [r \in Requests |-> None]
    /\ issued = [r \in Requests |-> None]
    /\ seen = [r \in Requests |-> {}]
    /\ joined = [r \in Requests |-> {}]
-----------------------------------------------------------------------------
(* Accounts and time.                                                       *)

\* Whether an operation happens to u in this workload.
May(op, u) == op \in load.ops /\ u \in load.users

Tick == now < load.until /\ now' = now + 1 /\ UNCHANGED <<load, rows, calls, history>>

\* UserLifecycleService::set_status(DISABLED) and the two forced resets: the
\* UPDATE of users; deleting the SSO sessions is the next statement.
DisableUser(u) ==
    /\ May("disable", u) /\ users[u].status = "ACTIVE"
    /\ users' = [users EXCEPT ![u].status = "DISABLED"]
    /\ wiping' = wiping \cup {u}
    /\ UNCHANGED <<now, load, guests, consents, sess, sso, calls, history>>

ResetPasswordFor(u) ==
    /\ May("reset", u) /\ ~Deleted(u)
    /\ users' = [users EXCEPT ![u].mustChange = TRUE]
    /\ wiping' = wiping \cup {u}
    /\ UNCHANGED <<now, load, guests, consents, sess, sso, calls, history>>

\* SsoSessionRepository::delete_all_for_user; its failure is only logged.
WipeSso(u) ==
    /\ u \in wiping
    /\ wiping' = wiping \ {u}
    /\ \/ sso' = [k \in Requests |-> IF sso[k] # None /\ sso[k].user = u THEN None ELSE sso[k]]
       \/ load.faults /\ UNCHANGED sso
    /\ UNCHANGED <<now, load, users, guests, consents, sess, calls, history>>

EnableUser(u) ==
    /\ May("enable", u) /\ users[u].status = "DISABLED"
    /\ users' = [users EXCEPT ![u].status = "ACTIVE"]
    /\ UNCHANGED <<now, load, guests, consents, sess, sso, wiping, calls, history>>

\* One DELETE: sessions, consents and memberships cascade, AuthSessions have
\* authenticated_user_id set to NULL.
DeleteUser(u) ==
    /\ May("delete", u) /\ ~Deleted(u)
    /\ users' = [users EXCEPT ![u].status = "DELETED"]
    /\ sso' = [k \in Requests |-> IF sso[k] # None /\ sso[k].user = u THEN None ELSE sso[k]]
    /\ sess' = [s \in Requests |-> IF sess[s] # None /\ sess[s].user = u
                                   THEN [sess[s] EXCEPT !.user = None] ELSE sess[s]]
    /\ guests' = guests \ (Tenants \X {u})
    /\ consents' = [p \in Tenants \X Users |-> IF p[2] = u THEN {} ELSE consents[p]]
    /\ UNCHANGED <<now, load, wiping, calls, history>>

\* InvitationService: a guest joins or is expelled.
ToggleGuest(t, u) ==
    /\ May("guest", u) /\ Home[u] # t /\ ~Deleted(u)
    /\ guests' = IF <<t, u>> \in guests THEN guests \ {<<t, u>>} ELSE guests \cup {<<t, u>>}
    /\ joined' = [r \in Requests |-> IF job[r] # None /\ job[r].tenant = t
                                     THEN joined[r] \cup {u} ELSE joined[r]]
    /\ UNCHANGED <<now, load, users, consents, sess, sso, wiping, calls, proved, seen, granted>>
-----------------------------------------------------------------------------
(* Calls begin.                                                             *)

Goto(r, l) == pc' = [pc EXCEPT ![r] = l]
Set(r, l, j) == Goto(r, l) /\ job' = [job EXCEPT ![r] = j]

Fresh(k, t) == [kind |-> k, tenant |-> t, scope |-> None, prompt |-> None, maxAge |-> None,
                sess |-> None, cookie |-> None, user |-> None, time |-> now, auth |-> None]

Running == {r \in Requests : pc[r] \notin Ended \cup {"new"}}

Begin(r, l, j) == /\ j.kind \in load.kinds
                  /\ Set(r, l, j)
                  /\ joined' = [joined EXCEPT ![r] = {u \in Users : Member(j.tenant, u)}]
                  /\ UNCHANGED <<now, load, rows, issued, proved, seen, granted>>

\* The browser has the cookie of a session once the call that made it answered.
HasCookie(k) == k \in {None} \cup {q \in Requests :
    pc[q] = "ok" /\ job[q].kind \in {"login", "mfa", "change", "passkey"}}
HasSession(s) == pc[s] = "ok" /\ job[s].kind = "authorize"

\* Whether the SSO cookie is looked at.
SsoWanted(prompt, cookie) == prompt # "login" /\ cookie # None

\* Where the handler goes when no SSO session carries it.
NoSso(prompt) == IF prompt = "none" THEN "failed" ELSE "create"

\* AuthorizeService::authorize: client, redirect_uri and parameters are valid.
Authorize(r, t, s, p, a, k) ==
    /\ HasCookie(k)
    /\ Begin(r, IF SsoWanted(p, k) THEN "sso" ELSE NoSso(p),
             [Fresh("authorize", t) EXCEPT !.scope = s, !.prompt = p, !.maxAge = a, !.cookie = k])

\* LoginService::login with the right password of u, an account of tenant t.
Login(r, s, u) ==
    /\ HasSession(s) /\ Home[u] = job[s].tenant
    /\ Begin(r, "load", [Fresh("login", job[s].tenant) EXCEPT !.sess = s, !.user = u])

\* MfaLoginService::verify, ChangePasswordService::change, ConsentService.
SessionCall(r, k, s) ==
    /\ k \in {"mfa", "change", "approve", "deny"}
    /\ HasSession(s)
    /\ Begin(r, "load", [Fresh(k, job[s].tenant) EXCEPT !.sess = s])

\* PasskeyAuthenticationService::complete after the assertion of u's
\* credential verified; the challenge and the counter are in SecondFactors.
Passkey(r, s, u) ==
    /\ HasSession(s) /\ u \in PasskeyUsers
    /\ Begin(r, "user", [Fresh("passkey", job[s].tenant) EXCEPT !.sess = s, !.user = u])

\* LogoutService::logout
Logout(r, t, k) ==
    /\ k # None /\ HasCookie(k)
    /\ Begin(r, "sso", [Fresh("logout", t) EXCEPT !.cookie = k])
-----------------------------------------------------------------------------
(* SSO resumption (try_resume_sso).                                         *)

FindSso(r) ==
    LET j == job[r]
        s == sso[j.cookie]
    IN
    /\ pc[r] = "sso"
    /\ IF s = None THEN Set(r, IF j.kind = "logout" THEN "ok" ELSE NoSso(j.prompt), j)
       ELSE IF j.kind = "logout" THEN Set(r, "end", j)
       ELSE IF SsoValidAt(s, now)
       THEN Set(r, "user", [j EXCEPT !.time = now, !.user = s.user, !.auth = s.auth])
       ELSE Set(r, "expire", [j EXCEPT !.time = now])
    /\ UNCHANGED <<now, load, rows, issued, history>>

\* Without a session the locals learnt from it are not used any further.
Unresumed(r) == Set(r, NoSso(job[r].prompt), [job[r] EXCEPT !.user = None, !.auth = None])

\* DELETE of an SSO session: timed out, or ended by a logout.
DeleteSso(r) ==
    /\ pc[r] \in {"expire", "end"}
    /\ sso' = [sso EXCEPT ![job[r].cookie] = None]
    /\ IF pc[r] = "end" THEN Goto(r, "ok") /\ UNCHANGED job ELSE Unresumed(r)
    /\ UNCHANGED <<now, load, users, guests, consents, sess, wiping, issued, history>>

\* Mutant of IsActiveMember: any membership will do.
IsMemberAnywhere(t, u) == \E x \in Tenants : Member(x, u)

\* SqlxTenantMembershipRepository::is_active_member
IsActiveMember(t, u) == Member(t, u) /\ ~Deleted(u)

\* The membership check, for a resumed session and for a passkey.
CheckMember(r) ==
    LET j == job[r] IN
    /\ pc[r] = "member"
    /\ IF IsActiveMember(j.tenant, j.user)
       THEN Goto(r, IF j.kind = "passkey" THEN "load" ELSE "extend") /\ UNCHANGED job
       ELSE IF j.kind = "passkey" THEN Goto(r, "failed") /\ UNCHANGED job ELSE Unresumed(r)
    /\ UNCHANGED <<now, load, rows, issued, history>>

\* Mutant of TooOld: max_age is not looked at.
NeverTooOld(auth, maxAge) == FALSE

TooOld(auth, maxAge) == maxAge # None /\ now - auth > maxAge

\* extend_idle, then the max_age check and the choice of what comes next.
ExtendIdle(r) ==
    LET j == job[r] IN
    /\ pc[r] = "extend"
    /\ sso' = [sso EXCEPT ![j.cookie] =
                  IF @ = None THEN @ ELSE [@ EXCEPT !.idle = j.time + IdleTtl]]
    /\ IF TooOld(j.auth, j.maxAge) THEN Unresumed(r)
       ELSE Goto(r, IF j.prompt = "consent" THEN "create" ELSE "consent") /\ UNCHANGED job
    /\ UNCHANGED <<now, load, users, guests, consents, sess, wiping, issued, history>>

\* AuthSessionRepository::create; authenticated already when SSO carried it.
CreateSession(r) ==
    LET j == job[r] IN
    /\ pc[r] = "create"
    /\ IF j.user # None /\ Deleted(j.user)
       THEN Goto(r, "failed") /\ UNCHANGED <<sess, seen>>
       ELSE /\ sess' = [sess EXCEPT ![r] =
                  [tenant |-> j.tenant, scope |-> j.scope, user |-> j.user, auth |-> j.auth,
                   pending |-> FALSE, expires |-> now + SessionTtl]]
            /\ seen' = [seen EXCEPT ![r] = IF j.user = None THEN {} ELSE {j.user}]
            /\ Goto(r, "ok")
    /\ UNCHANGED <<now, load, users, guests, consents, sso, wiping, job, issued, proved, granted, joined>>
-----------------------------------------------------------------------------
(* The steps of a login.                                                    *)

\* The state of the AuthSession that each handler insists on.
Admits(k, s) == CASE k \in {"mfa", "change"} -> s.user # None /\ s.pending
                  [] k = "approve" -> s.user # None /\ s.auth # None
                  [] OTHER -> TRUE

AfterLoad(k) == CASE k = "approve" -> "upsert" [] k = "deny" -> "drop"
                  [] k = "passkey" -> "setauth" [] OTHER -> "user"

\* AuthSessionRepository::find_by_id and the checks on the row.
FindSession(r) ==
    LET j == job[r]
        s == sess[j.sess]
    IN
    /\ pc[r] = "load"
    /\ IF s = None THEN Set(r, "failed", j)
       ELSE IF ExpiredAt(s, j.time) THEN Set(r, "purge", j)
       ELSE IF ~Admits(j.kind, s) THEN Set(r, "failed", j)
       ELSE Set(r, AfterLoad(j.kind),
                [j EXCEPT !.scope = s.scope, !.auth = s.auth,
                          !.user = IF j.kind \in {"login", "passkey"} THEN @ ELSE s.user])
    /\ UNCHANGED <<now, load, rows, issued, history>>

DeleteSession(r) == sess' = [sess EXCEPT ![job[r].sess] = None]

\* DELETE of an expired AuthSession, or of one that has served its purpose
\* (best effort).
DropSession(r) ==
    /\ pc[r] \in {"purge", "drop"}
    /\ DeleteSession(r) \/ (load.faults /\ UNCHANGED sess)
    /\ Goto(r, IF pc[r] = "purge" THEN "failed" ELSE "ok")
    /\ UNCHANGED <<now, load, users, guests, consents, sso, wiping, job, issued, history>>

\* Where login goes once the password is right.
AfterPassword(u) == IF users[u].mustChange \/ u \in TotpUsers THEN "setpwd" ELSE "ssonew"

\* The SELECT of the account and the credential checks that follow it: the
\* password for login and change, the TOTP code for mfa.
CheckUser(r) ==
    LET j == job[r]
        x == users[j.user]
    IN
    /\ pc[r] = "user"
    /\ IF x.status # "ACTIVE"
       THEN /\ IF j.kind = "authorize" THEN Unresumed(r) ELSE Goto(r, "failed") /\ UNCHANGED job
            /\ UNCHANGED proved
       ELSE LET next == CASE j.kind \in {"authorize", "passkey"} -> "member"
                          [] j.kind = "login" -> AfterPassword(j.user)
                          [] j.kind = "mfa" -> IF j.user \in TotpUsers THEN "setauth" ELSE "failed"
                          [] j.kind = "change" -> IF x.mustChange THEN "newpwd" ELSE "failed"
            IN /\ Goto(r, next) /\ UNCHANGED job
               /\ proved' = IF next \in {"setpwd", "failed"} \/ j.kind = "authorize" THEN proved
                            ELSE proved \cup {<<j.user, j.time>>}
    /\ UNCHANGED <<now, load, rows, issued, seen, granted, joined>>

\* Mutant of PasswordVerified: the session counts as authenticated.
PasswordVerifiedAsLogin(s, u, time) == [s EXCEPT !.user = u, !.pending = TRUE, !.auth = time]

\* SqlxAuthSessionRepository::set_password_verified
PasswordVerified(s, u, time) == [s EXCEPT !.user = u, !.pending = TRUE]

\* The login waits for its second step.
SetPasswordVerified(r) ==
    LET j == job[r] IN
    /\ pc[r] = "setpwd"
    /\ IF sess[j.sess] = None THEN Goto(r, "ok") /\ UNCHANGED <<sess, seen>>
       ELSE IF Deleted(j.user) THEN Goto(r, "failed") /\ UNCHANGED <<sess, seen>>
       ELSE /\ sess' = [sess EXCEPT ![j.sess] = PasswordVerified(@, j.user, j.time)]
            /\ seen' = [seen EXCEPT ![j.sess] = @ \cup {j.user}]
            /\ Goto(r, "ok")
    /\ UNCHANGED <<now, load, users, guests, consents, sso, wiping, job, issued, proved, granted, joined>>

\* UserRepository::update_password clears must_change_password.
UpdatePassword(r) ==
    LET u == job[r].user IN
    /\ pc[r] = "newpwd"
    /\ users' = [users EXCEPT ![u].mustChange = IF Deleted(u) THEN @ ELSE FALSE]
    /\ Goto(r, "setauth")
    /\ UNCHANGED <<now, load, guests, consents, sess, sso, wiping, job, issued, history>>

\* set_authenticated_user; login does this after, the others before the INSERT
\* of the SSO session.
SetAuthenticatedUser(r) ==
    LET j == job[r] IN
    /\ pc[r] = "setauth"
    /\ job' = [job EXCEPT ![r].auth = j.time]
    /\ IF sess[j.sess] # None /\ Deleted(j.user) THEN Goto(r, "failed") /\ UNCHANGED <<sess, seen>>
       ELSE /\ IF sess[j.sess] = None THEN UNCHANGED <<sess, seen>>
               ELSE /\ sess' = [sess EXCEPT ![j.sess].user = j.user, ![j.sess].auth = j.time]
                    /\ seen' = [seen EXCEPT ![j.sess] = @ \cup {j.user}]
            /\ Goto(r, IF j.kind = "login" THEN "consent" ELSE "ssonew")
    /\ UNCHANGED <<now, load, users, guests, consents, sso, wiping, issued, proved, granted, joined>>

\* INSERT of the SSO session.
CreateSso(r) ==
    LET j == job[r] IN
    /\ pc[r] = "ssonew"
    /\ IF Deleted(j.user) THEN Goto(r, "failed") /\ UNCHANGED sso
       ELSE /\ sso' = [sso EXCEPT ![r] =
                  [user |-> j.user, auth |-> j.time,
                   idle |-> j.time + IdleTtl, absolute |-> j.time + AbsoluteTtl]]
            /\ Goto(r, IF j.kind = "login" THEN "setauth" ELSE "consent")
    /\ UNCHANGED <<now, load, users, guests, consents, sess, wiping, job, issued, history>>
-----------------------------------------------------------------------------
(* Consent and the code.                                                    *)

\* Mutant of Consented: only the tenant of the consent is compared.
ConsentedByAnyone(t, u, needed) == \E v \in Users : needed \subseteq consents[<<t, v>>]

\* ClientConsent::covers
Consented(t, u, needed) == needed \subseteq consents[<<t, u>>]

\* Without consent the browser is sent to the consent screen: /authorize
\* creates the session for it, the others leave theirs.
CheckConsent(r) ==
    LET j == job[r] IN
    /\ pc[r] = "consent"
    /\ Goto(r, IF Consented(j.tenant, j.user, j.scope) THEN "issue"
               ELSE IF j.kind = "authorize" THEN NoSso(j.prompt) ELSE "ok")
    /\ UNCHANGED <<now, load, rows, job, issued, history>>

\* ConsentService::approve overwrites the recorded scopes, then issues.
UpsertConsent(r) ==
    LET j == job[r] IN
    /\ pc[r] = "upsert"
    /\ IF Deleted(j.user) THEN Goto(r, "failed") /\ UNCHANGED <<consents, granted>>
       ELSE /\ Goto(r, "issue")
            /\ consents' = [consents EXCEPT ![<<j.tenant, j.user>>] = j.scope]
            /\ granted' = granted \cup ({j.tenant} \X {j.user} \X j.scope)
    /\ UNCHANGED <<now, load, users, guests, sess, sso, wiping, job, issued, proved, seen, joined>>

\* CodeIssuanceService::issue
IssueCode(r) ==
    LET j == job[r] IN
    /\ pc[r] = "issue"
    /\ IF Deleted(j.user) THEN Goto(r, "failed") /\ UNCHANGED issued
       ELSE /\ issued' = [issued EXCEPT ![r] =
                  [user |-> j.user, tenant |-> j.tenant, scope |-> j.scope, auth |-> j.auth]]
            /\ Goto(r, IF j.kind = "authorize" THEN "ok" ELSE "drop")
    /\ UNCHANGED <<now, load, rows, job, history>>

\* A statement fails, or the browser goes away and the handler is dropped.
CallFails(r) ==
    /\ load.faults /\ pc[r] \notin Ended \cup {"new"}
    /\ Goto(r, "failed")
    /\ UNCHANGED <<now, load, rows, job, issued, history>>

\* /authorize survives a failing statement of try_resume_sso (it goes on to the
\* login) and of check_consent (it asks for consent), and does not resume a
\* locked account.
FallBack(r) ==
    /\ job[r] # None /\ job[r].kind = "authorize"
    /\ \/ /\ pc[r] \in {"sso", "expire", "user", "member", "extend"}
          /\ load.faults \/ pc[r] = "user"
          /\ Unresumed(r)
       \/ /\ pc[r] = "consent" /\ load.faults
          /\ Goto(r, NoSso(job[r].prompt)) /\ UNCHANGED job
    /\ UNCHANGED <<now, load, rows, issued, history>>

Step(r) ==
    \/ FindSso(r) \/ DeleteSso(r) \/ CheckMember(r) \/ ExtendIdle(r) \/ CreateSession(r)
    \/ FindSession(r) \/ DropSession(r) \/ CheckUser(r) \/ SetPasswordVerified(r)
    \/ UpdatePassword(r) \/ SetAuthenticatedUser(r) \/ CreateSso(r)
    \/ CheckConsent(r) \/ UpsertConsent(r) \/ IssueCode(r)
-----------------------------------------------------------------------------
Accounts ==
    \/ Tick
    \/ \E u \in Users : \/ DisableUser(u) \/ ResetPasswordFor(u) \/ WipeSso(u)
                        \/ EnableUser(u) \/ DeleteUser(u)
    \/ \E t \in Tenants, u \in Users : ToggleGuest(t, u)

Arrival(r) ==
    /\ pc[r] = "new" /\ Cardinality(Running) < load.parallel
    /\ \/ \E t \in load.tenants, s \in load.scopes, p \in load.prompts, a \in load.maxAges,
             k \in Requests \cup {None} : Authorize(r, t, s, p, a, k)
       \/ \E s \in Requests, u \in load.users : Login(r, s, u) \/ Passkey(r, s, u)
       \/ \E s \in Requests, k \in Kinds : SessionCall(r, k, s)
       \/ \E t \in load.tenants, k \in Requests : Logout(r, t, k)

Next == Accounts \/ \E r \in Requests : Arrival(r) \/ Step(r) \/ FallBack(r) \/ CallFails(r)

Spec == Init /\ [][Next]_vars
-----------------------------------------------------------------------------
(* What the code guarantees.                                                *)

\* The /authorize call that a code goes back to.
Origin(r) == IF job[r].kind = "authorize" THEN r ELSE job[r].sess

\* The auth_time of a code is a time at which its own account presented
\* every credential it was asked for, through any chain of SSO resumption,
\* second step and consent, as long as one account only used the AuthSession.
AuthTimeGenuine ==
    \A r \in Requests : issued[r] # None /\ Cardinality(seen[Origin(r)]) <= 1 =>
        <<issued[r].user, issued[r].auth>> \in proved

\* prompt=login and max_age demand a recent login: whatever path leads from
\* /authorize to the code, and whichever SSO session was around, the code
\* rests on a login that is recent enough.
ReauthenticationHonoured ==
    \A r \in Requests : issued[r] # None =>
        LET o == job[Origin(r)] IN
        /\ o.prompt = "login" => issued[r].auth >= o.time
        /\ o.maxAge # None => issued[r].auth >= o.time - o.maxAge

\* An SSO session carries a login no further than its absolute lifetime, no
\* matter how often its idle limit was extended.
ResumeWithinLifetime ==
    \A r \in Requests : issued[r] # None /\ job[r].kind = "authorize" =>
        issued[r].auth + AbsoluteTtl > job[r].time

\* A code of a tenant is for an account that was an active member of it at some
\* time since the /authorize call that the code goes back to, even though SSO
\* sessions are shared by all tenants and guests come and go.
CodeForMember ==
    \A r \in Requests : issued[r] # None => issued[r].user \in joined[Origin(r)]

\* No code for a scope without the consent of that very account to it, however
\* consents of several accounts and sessions overwrite one another.
ConsentPrecedesCode ==
    \A r \in Requests : issued[r] # None =>
        \A e \in issued[r].scope : <<issued[r].tenant, issued[r].user, e>> \in granted
-----------------------------------------------------------------------------
(* What comments claim and the code does not do.                            *)

\* auth_sessions.password_verified_at marks a login that waits for its second
\* step: a code is for an account that completed its login at that time.
CodeNamesWhoLoggedIn ==
    \A r \in Requests : issued[r] # None => <<issued[r].user, issued[r].auth>> \in proved
=============================================================================
