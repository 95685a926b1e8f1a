---------------------------- MODULE BrowserPages ----------------------------
(****************************************************************************)
(* The web front end as one browser meets it (crates/web): the pages of the *)
(* OIDC login flow, of the portal and of the administration console, opened *)
(* in several tabs that share one cookie jar.                               *)
(*                                                                          *)
(* The front end keeps no state.  What a request means is decided by the    *)
(* cookies the browser sends with it and by the token inside the form, and  *)
(* both may be stale: another tab has replaced the cookie, a response has   *)
(* not arrived yet, the session behind it has expired.  An exchange has     *)
(* three steps: the tab sends the request with the cookies of that moment,  *)
(* the front end and the API answer, the browser applies Set-Cookie and     *)
(* shows the page.  The API is what its answers (contracts/auth.rs) tell;   *)
(* AuthFlow, PasswordLogin and TenantAccess hold its details.               *)
(****************************************************************************)
EXTENDS Naturals, FiniteSets, Accounts

CONSTANTS
    Tabs,
    Persistent,    \* the tab whose user keeps trying to get in
    TotpUsers,     \* accounts with a confirmed TOTP secret
    Guests,        \* <<account, tenant>>: memberships away from home
    Admins,        \* <<account, tenant>>: who holds the administration permission, and where
    AuthIds,       \* values of auth_session_id
    SsoIds,        \* values of sso_session_id
    Seeds,         \* values of portal_csrf_id and admin_csrf_id
    Openings,      \* <<tenant, address>>: what a user opens of his own accord
    Disturbances   \* bound: steps that nothing forces the user, the clock or the network to take

\* The addresses of pages, as the routes of the front end and of /authorize.
Addresses ==
    {"authorize", "loginPage", "totpPage", "changePage", "consentPage", "portalChangePage",
     "adminChangePage", "portalMfaPage", "settings", "adminLoginPage", "home", "invitePage"}

ASSUME BrowserAssumptions ==
    /\ Persistent \in Tabs
    /\ Openings \subseteq Tenants \X Addresses
    /\ TotpUsers \subseteq Users /\ Guests \cup Admins \subseteq Users \X Tenants
    /\ Disturbances \in Nat
    /\ None \notin AuthIds \cup SsoIds \cup Seeds

VARIABLES
    jar,    \* the cookies of the browser
    page,   \* what each tab shows, or the address it is about to load
    call,   \* the exchange each tab waits for
    auth,   \* the API: the open AuthSessions
    sso,    \* the API: the account of each live SSO session
    must,   \* the API: accounts with must_change_password
    left    \* disturbances left

browserVars == <<jar, page, call, auth, sso, must, left>>
api  == <<auth, sso, must>>

\* auth_session_id, sso_session_id, portal_csrf_id, admin_csrf_id and
\* portal_mfa_ticket, which holds the account that passed the password step.
\* All have `Path=/`: the tabs, and the tenants of the host, share them.
Cookies == {"auth", "sso", "portal", "admin", "ticket"}

\* The CSRF token of a form: a name space and the id it is derived from.  The
\* ref of a redirect is its address, that of the client's page the AuthSession
\* whose authorization response it received.
Ref(kind, id) == [kind |-> kind, of |-> id]

Nothing == Ref("", None)

\* user is the account the page was made for, chal the AuthSession of the
\* passkey challenge the page waits to have signed.
Page(view, t, ref, u) == [view |-> view, tenant |-> t, ref |-> ref, user |-> u, chal |-> None]

\* `found`: a redirect to an address of the front end.
Found(t, path) == Page("goto", t, Ref(path, None), None)

\* error_page, message_page, a bare status code.
Message(t) == Page("message", t, Nothing, None)

\* Back at the client with the authorization response of AuthSession s.
Client(t, s) == Page("client", t, Ref("code", s), None)

\* The forms; the user names his account in the first three.
NameForms == {"login", "portal", "adminLogin"}
Forms == NameForms \cup {"totp", "change", "consent", "portalMfa", "portalChange",
                         "adminChange", "console", "invite"}

BrowserInit ==
    /\ jar = [c \in Cookies |-> None]
    /\ page \in [Tabs -> {Found(o[1], o[2]) : o \in Openings} \cup {Message(o[1]) : o \in Openings}]
    /\ call = [i \in Tabs |-> None]
    /\ auth = [s \in AuthIds |-> None]
    /\ sso = [k \in SsoIds |-> None]
    /\ must \in SUBSET Users
    /\ left \in 0 .. Disturbances

Spend == left > 0 /\ left' = left - 1

Sent(i, ops) == call[i] # None /\ call[i].op \in ops

\* The response: Set-Cookie headers, the page, and the account in whose name
\* the API carried something out.
ReplyAs(i, cookies, next, by) ==
    call' = [call EXCEPT ![i] = [op |-> "reply", set |-> cookies, next |-> next, by |-> by]]

Reply(i, cookies, next) == ReplyAs(i, cookies, next, None)

\* No Set-Cookie header.
NoCookies == [c \in {} |-> None]

\* A response that tells no more than which page comes next.
Show(i, next) == Reply(i, NoCookies, next) /\ UNCHANGED api

\* Ids that some cookie, page or exchange still holds.  Generated ids are
\* random, so a new one is none of these.
Held ==
    {jar[c] : c \in Cookies} \cup {page[i].ref.of : i \in Tabs} \cup {page[i].chal : i \in Tabs}
    \cup UNION {IF call[i] = None THEN {}
                ELSE IF call[i].op = "reply"
                     THEN {call[i].next.ref.of, call[i].next.chal}
                          \cup {call[i].set[c] : c \in DOMAIN call[i].set}
                     ELSE {call[i].jar[c] : c \in Cookies} : i \in Tabs}

Fresh(ids) == CHOOSE x \in ids : x \notin Held

\* Bound: of the ids of a kind one is still free.
Spare(ids) == ids \ Held # {}

\* A session whose id nobody holds any more can never be named again: the
\* model forgets it and uses its place for a new one.
Forget ==
    /\ auth' = [s \in AuthIds |-> IF s \in Held' THEN auth[s] ELSE None]
    /\ sso' = [k \in SsoIds |-> IF k \in Held' THEN sso[k] ELSE None]
    /\ UNCHANGED must
-----------------------------------------------------------------------------
(* The browser.                                                             *)

\* The user opens an address, or comes from a client to /authorize.
Open(i, t, path) ==
    /\ Spend /\ call[i] = None
    /\ page' = [page EXCEPT ![i] = Found(t, path)]
    /\ UNCHANGED <<jar, call>>
    /\ Forget

Send(i, op, u, ok) ==
    /\ call[i] = None
    /\ call' = [call EXCEPT ![i] = [op |-> op, jar |-> jar, user |-> u, ok |-> ok]]

\* The tab loads the address it was given (the routes of the router).
Load(i) ==
    /\ page[i].view = "goto"
    /\ Send(i, page[i].ref.kind, None, TRUE)
    /\ UNCHANGED <<jar, page, api, left>>

\* has_any_permission, with the tenant of the request as the scope.
IsAdmin(u, t) == <<u, t>> \in Admins

\* The accounts whose owner can fill in the form of tab i: a password is asked
\* for at home only.
Owners(i) ==
    CASE page[i].view \in {"login", "portal"} -> {u \in Users : Home[u] = page[i].tenant}
      [] page[i].view = "adminLogin" -> {u \in Users : Home[u] = page[i].tenant /\ IsAdmin(u, page[i].tenant)}
      [] OTHER -> {None}

\* The user submits the form in tab i with what it asks for, or (ok = FALSE)
\* with a wrong account, password or code, or declining.
Submit(i, u, ok) ==
    /\ page[i].view \in Forms
    /\ IF ok THEN u \in Owners(i) /\ UNCHANGED left ELSE u = None /\ Spend
    /\ Send(i, page[i].view, u, ok)
    /\ UNCHANGED <<jar, page, api>>

\* The buttons of a page that are no part of its form: the passkey login, the
\* settings, logging out.
Press(i, op) ==
    /\ Spend
    /\ op \in CASE page[i].view = "login" -> {"pkBegin"}
                [] page[i].view = "account" -> {"settingsForm", "logout"}
                [] page[i].view = "console" -> {"logout"}
                [] OTHER -> {}
    /\ Send(i, op, None, TRUE)
    /\ UNCHANGED <<jar, page, api>>

\* ensure_active_member: the accounts whose passkey will do in tenant t.
Members(t) == {u \in Users : Home[u] = t \/ <<u, t>> \in Guests}

\* The authenticator signs the challenge for account u, or for none.
Sign(i, u) ==
    /\ page[i].chal # None
    /\ u \in Members(page[i].tenant) \cup {None}
    /\ Send(i, "pkComplete", u, u # None)
    /\ UNCHANGED <<jar, page, api, left>>

\* The user who only wants to get in loads the login page again when what he
\* sees is of no further use to him.
Retry ==
    LET i == Persistent IN
    /\ call[i] = None
    /\ \/ page[i].view = "message"
       \/ page[i].view = "account" /\ page[i].user = None
       \/ page[i].view \in Forms /\ (page[i].ref.of = None \/ Owners(i) = {})
    /\ page' = [page EXCEPT ![i] = Found(page[i].tenant, "loginPage")]
    /\ UNCHANGED <<jar, call, left>>
    /\ Forget

\* cookies::build and cookies::expire as the browser carries them out.
Applied(cookies) == [c \in Cookies |-> IF c \in DOMAIN cookies THEN cookies[c] ELSE jar[c]]

Deliver(i) ==
    /\ Sent(i, {"reply"})
    /\ jar' = Applied(call[i].set)
    /\ page' = [page EXCEPT ![i] = call[i].next]
    /\ call' = [call EXCEPT ![i] = None]
    /\ UNCHANGED left
    /\ Forget

\* The response does not arrive: its cookies are not set, though the API has
\* done its part.
Lost(i) ==
    /\ Spend /\ Sent(i, {"reply"})
    /\ call' = [call EXCEPT ![i] = None]
    /\ page' = [page EXCEPT ![i] = Message(@.tenant)]
    /\ UNCHANGED jar
    /\ Forget

\* Max-Age of a cookie runs out.
CookieExpires(c) ==
    /\ Spend /\ jar[c] # None
    /\ jar' = [jar EXCEPT ![c] = None]
    /\ UNCHANGED <<page, call>>
    /\ Forget

\* An AuthSession or an SSO session expires or is withdrawn at the API.
SessionExpires(s) ==
    /\ Spend
    /\ \/ s \in AuthIds /\ auth[s] # None /\ auth' = [auth EXCEPT ![s] = None] /\ UNCHANGED sso
       \/ s \in SsoIds /\ sso[s] # None /\ sso' = [sso EXCEPT ![s] = None] /\ UNCHANGED auth
    /\ UNCHANGED <<jar, page, call, must>>

\* The front end cannot reach the API, or the API fails, limits the rate or
\* refuses the account: no cookie changes.
ApiFails(i) ==
    /\ Spend /\ call[i] # None /\ call[i].op # "reply"
    /\ Reply(i, NoCookies, Message(page[i].tenant))
    /\ UNCHANGED <<jar, page, api>>
-----------------------------------------------------------------------------
(* The OIDC login flow, driven by the auth_session_id cookie.               *)

\* An AuthSession; verified stands for password_verified_at, done for
\* auth_time.
NewAuth(t, u, consent) ==
    [tenant |-> t, user |-> u, verified |-> FALSE, done |-> u # None, consent |-> consent]

\* AuthSessionRepository::find_by_id and the expiry check.
FindAuth(s, t) == s # None /\ auth[s] # None /\ auth[s].tenant = t

SsoUser(k) == IF k = None THEN None ELSE sso[k]

LoginForm(t, s) == Page("login", t, Ref("login", s), None)

\* GET /authorize: a code or an error at once, a login, or only the consent.
Authorize(i) ==
    LET t == page[i].tenant
        s == Fresh(AuthIds)
        u == SsoUser(call[i].jar["sso"])
    IN
    /\ Sent(i, {"authorize"}) /\ Spare(AuthIds)
    /\ \/ Show(i, Client(t, None))
       \/ \E consent \in BOOLEAN :
             /\ auth' = [auth EXCEPT ![s] = NewAuth(t, None, consent)]
             /\ Reply(i, [auth |-> s], Found(t, "loginPage"))
             /\ UNCHANGED <<sso, must>>
       \/ /\ u # None
          /\ auth' = [auth EXCEPT ![s] = NewAuth(t, u, TRUE)]
          /\ Reply(i, [auth |-> s], Found(t, "consentPage"))
          /\ UNCHANGED <<sso, must>>

\* Success and ConsentRequired: the SSO session, then the code or the consent.
FinishFlow(i, s, u) ==
    LET k == Fresh(SsoIds)
        t == page[i].tenant
    IN
    /\ Spare(SsoIds) /\ sso' = [sso EXCEPT ![k] = u]
    /\ \/ /\ auth[s].consent
          /\ auth' = [auth EXCEPT ![s].user = u, ![s].done = TRUE]
          /\ Reply(i, [sso |-> k, auth |-> s], Found(t, "consentPage"))
       \/ /\ ~auth[s].consent
          /\ auth' = [auth EXCEPT ![s] = None]
          /\ Reply(i, [sso |-> k, auth |-> None], Client(t, s))

\* The password is right, and another step follows.
StepTo(i, s, u, path) ==
    /\ auth' = [auth EXCEPT ![s].user = u, ![s].verified = TRUE]
    /\ Reply(i, [auth |-> s], Found(page[i].tenant, path))
    /\ UNCHANGED sso

\* GET /login.  Without an auth_session_id it is the portal's.
LoginPage(i) ==
    LET t == page[i].tenant
        s == call[i].jar["auth"]
        seed == Fresh(Seeds)
    IN
    /\ Sent(i, {"loginPage"}) /\ Spare(Seeds)
    /\ \/ s # None /\ Show(i, LoginForm(t, s))
       \/ /\ s = None
          /\ Reply(i, [portal |-> seed], Page("portal", t, Ref("portal", seed), None))
          /\ UNCHANGED api

\* Mutant of Unusable: the cookie of a dead AuthSession stays.
UnusableKept == NoCookies

\* SessionExpired: what `login` does to the cookie of a dead AuthSession.
Unusable == [auth |-> None]

\* Mutant of OwnForm: the API compares no token.
OwnFormAny(i, s) == TRUE

\* The login_csrf_token comparison of the API.
OwnForm(i, s) == page[i].ref = Ref("login", s)

\* POST /login with an auth_session_id, from whichever form it comes.
Login(i) ==
    LET t == page[i].tenant
        s == call[i].jar["auth"]
        u == call[i].user
    IN
    /\ Sent(i, {"login", "portal"}) /\ s # None
    /\ \/ /\ ~FindAuth(s, t)
          /\ Reply(i, Unusable, Found(t, "loginPage")) /\ UNCHANGED api
       \/ /\ FindAuth(s, t) /\ ~OwnForm(i, s)
          /\ Show(i, Message(t))
       \/ /\ FindAuth(s, t) /\ OwnForm(i, s) /\ ~call[i].ok
          /\ Show(i, LoginForm(t, s))
       \/ /\ FindAuth(s, t) /\ OwnForm(i, s) /\ call[i].ok /\ UNCHANGED must
          /\ \/ u \in must /\ StepTo(i, s, u, "changePage")
             \/ u \in TotpUsers \ must /\ StepTo(i, s, u, "totpPage")
             \/ u \notin TotpUsers \cup must /\ FinishFlow(i, s, u)

\* GET of the TOTP and of the password change page: whichever AuthSession the
\* cookie names, without asking the API.
StepPage(i) ==
    LET t == page[i].tenant
        s == call[i].jar["auth"]
        view == IF call[i].op = "totpPage" THEN "totp" ELSE "change"
    IN
    /\ Sent(i, {"totpPage", "changePage"})
    /\ Show(i, IF s = None THEN Message(t) ELSE Page(view, t, Ref("login", s), None))

\* The checks that POST /mfa/totp and POST /password-change begin with.
PasswordStepOf(s, t) == FindAuth(s, t) /\ auth[s].user # None /\ auth[s].verified

\* POST /mfa/totp.
Totp(i) ==
    LET t == page[i].tenant
        s == call[i].jar["auth"]
        admitted == PasswordStepOf(s, t) /\ OwnForm(i, s) /\ auth[s].user \in TotpUsers
    IN
    /\ Sent(i, {"totp"})
    /\ \/ ~admitted /\ Show(i, Message(t))
       \/ admitted /\ ~call[i].ok /\ Show(i, Page("totp", t, Ref("login", s), None))
       \/ admitted /\ call[i].ok /\ FinishFlow(i, s, auth[s].user) /\ UNCHANGED must

\* POST /password-change.  Two different new passwords are noticed before
\* anything else, and the form is shown again for the cookie's AuthSession.
PasswordChange(i) ==
    LET t == page[i].tenant
        s == call[i].jar["auth"]
        again == IF s = None THEN Message(t) ELSE Page("change", t, Ref("login", s), None)
        admitted == PasswordStepOf(s, t) /\ OwnForm(i, s) /\ auth[s].user \in must
    IN
    /\ Sent(i, {"change"})
    /\ \/ ~call[i].ok /\ Show(i, again)
       \/ ~admitted /\ Show(i, Message(t))
       \/ admitted /\ call[i].ok /\ FinishFlow(i, s, auth[s].user)
          /\ must' = must \ {auth[s].user}

\* ConsentService::info: the AuthSession knows whose consent is asked for.
ConsentInfo(s, t) == FindAuth(s, t) /\ auth[s].user # None

\* GET /consent.
ConsentPage(i) ==
    LET t == page[i].tenant
        s == call[i].jar["auth"]
    IN
    /\ Sent(i, {"consentPage"})
    /\ Show(i, IF ConsentInfo(s, t) THEN Page("consent", t, Ref("consent", s), None) ELSE Message(t))

\* POST /consent, for the AuthSession the form names; approving needs the
\* login to be complete, declining does not.
Consent(i) ==
    LET t == page[i].tenant
        s == page[i].ref.of
        open == FindAuth(s, t) /\ (call[i].ok => auth[s].user # None /\ auth[s].done)
    IN
    /\ Sent(i, {"consent"})
    /\ \/ ~open /\ Show(i, Message(t))
       \/ /\ open
          /\ auth' = [auth EXCEPT ![s] = None]
          /\ Reply(i, [auth |-> None], Client(t, s))
          /\ UNCHANGED <<sso, must>>

\* POST /passkey/login/begin: the challenge belongs to the AuthSession of the
\* cookie, not to that of the page.
PasskeyBegin(i) ==
    /\ Sent(i, {"pkBegin"})
    /\ Show(i, [page[i] EXCEPT !.chal = call[i].jar["auth"]])

\* POST /passkey/login/complete.
PasskeyComplete(i) ==
    LET t == page[i].tenant
        s == page[i].chal
    IN
    /\ Sent(i, {"pkComplete"})
    /\ \/ ~(call[i].ok /\ FindAuth(s, t)) /\ Show(i, [page[i] EXCEPT !.chal = None])
       \/ call[i].ok /\ FindAuth(s, t) /\ FinishFlow(i, s, call[i].user) /\ UNCHANGED must
-----------------------------------------------------------------------------
(* The portal: signing in without a client.                                 *)

\* The token of the form, recomputed from the seed in the cookie.
SeedMatches(i, cookie) ==
    call[i].jar[cookie] # None /\ page[i].ref = Ref(cookie, call[i].jar[cookie])

\* sso_success_response, and its counterpart of the console.
SsoSuccess(i, u, expired, path) ==
    LET k == Fresh(SsoIds) IN
    /\ Spare(SsoIds) /\ sso' = [sso EXCEPT ![k] = u]
    /\ Reply(i, [c \in expired \cup {"sso"} |-> IF c = "sso" THEN k ELSE None],
             Found(page[i].tenant, path))
    /\ UNCHANGED auth

\* MfaRequired: the ticket, and on to its page.
Ticket(i, u) ==
    /\ Reply(i, [ticket |-> u], Found(page[i].tenant, "portalMfaPage"))
    /\ UNCHANGED <<auth, sso>>

\* A form of the portal or of the console's login, shown again.
Again(i, view, seed, u) == Show(i, Page(view, page[i].tenant, seed, u))

\* POST /login without an auth_session_id.
PortalLogin(i) ==
    LET u == call[i].user IN
    /\ Sent(i, {"login", "portal"}) /\ call[i].jar["auth"] = None
    /\ \/ ~SeedMatches(i, "portal") /\ Again(i, "portal", Nothing, None)
       \/ SeedMatches(i, "portal") /\ ~call[i].ok /\ Again(i, "portal", page[i].ref, None)
       \/ /\ SeedMatches(i, "portal") /\ call[i].ok
          /\ \/ u \in must /\ Again(i, "portalChange", page[i].ref, u)
             \/ u \in TotpUsers \ must /\ Ticket(i, u) /\ UNCHANGED must
             \/ /\ u \notin TotpUsers \cup must
                /\ SsoSuccess(i, u, {"portal"}, "settings") /\ UNCHANGED must

\* POST /login/password-change.
PortalChange(i) ==
    LET u == page[i].user IN
    /\ Sent(i, {"portalChange"})
    /\ \/ ~SeedMatches(i, "portal") /\ Again(i, "portalChange", Nothing, u)
       \/ SeedMatches(i, "portal") /\ ~call[i].ok /\ Again(i, "portalChange", page[i].ref, u)
       \/ /\ SeedMatches(i, "portal") /\ call[i].ok
          /\ must' = must \ {u}
          /\ \/ u \in TotpUsers /\ Ticket(i, u)
             \/ u \notin TotpUsers /\ SsoSuccess(i, u, {"portal"}, "settings")

\* GET /login/password-change and /admin/password-change: the form follows a
\* password only, so a bookmark or a reload starts over.
ChangeBookmark(i) ==
    LET path == IF call[i].op = "portalChangePage" THEN "loginPage" ELSE "adminLoginPage" IN
    /\ Sent(i, {"portalChangePage", "adminChangePage"})
    /\ Show(i, Found(page[i].tenant, path))

\* GET /login/mfa.
PortalMfaPage(i) ==
    LET t == page[i].tenant IN
    /\ Sent(i, {"portalMfaPage"})
    /\ Show(i, IF call[i].jar["ticket"] = None THEN Found(t, "loginPage")
               ELSE Page("portalMfa", t, Ref("portal", call[i].jar["portal"]), None))

\* POST /login/mfa.
PortalMfa(i) ==
    LET t == page[i].tenant
        u == call[i].jar["ticket"]
        seed == Ref("portal", call[i].jar["portal"])
        matches == SeedMatches(i, "portal")
    IN
    /\ Sent(i, {"portalMfa"})
    /\ \/ ~matches /\ Again(i, "portalMfa", seed, None)
       \/ matches /\ u = None /\ Show(i, Found(t, "loginPage"))
       \/ /\ matches /\ u # None /\ Home[u] # t
          /\ Reply(i, [ticket |-> None], Found(t, "loginPage")) /\ UNCHANGED api
       \/ matches /\ u # None /\ Home[u] = t /\ ~call[i].ok /\ Again(i, "portalMfa", seed, None)
       \/ /\ matches /\ u # None /\ Home[u] = t /\ call[i].ok
          /\ SsoSuccess(i, u, {"portal", "ticket"}, "settings") /\ UNCHANGED must

\* GET /settings: the account of the cookie, or an empty page.
Settings(i) ==
    /\ Sent(i, {"settings"})
    /\ Show(i, Page("account", page[i].tenant, Nothing, SsoUser(call[i].jar["sso"])))

\* POST /settings/password and /settings/name: no token in the form, the
\* account is the cookie's.
SettingsForm(i) ==
    /\ Sent(i, {"settingsForm"})
    /\ ReplyAs(i, NoCookies, Found(page[i].tenant, "settings"), SsoUser(call[i].jar["sso"]))
    /\ UNCHANGED api

\* Portal and console each have a form for it, and lead to their own login.
AfterLogout(view) == IF view = "console" THEN "adminLoginPage" ELSE "loginPage"

\* POST /logout and /admin/logout: the cookie goes whether or not the API
\* withdraws the session.
Logout(i) ==
    LET k == call[i].jar["sso"] IN
    /\ Sent(i, {"logout"})
    /\ Reply(i, [sso |-> None], Found(page[i].tenant, AfterLogout(page[i].view)))
    /\ \/ k # None /\ sso' = [sso EXCEPT ![k] = None]
       \/ UNCHANGED sso
    /\ UNCHANGED <<auth, must>>
-----------------------------------------------------------------------------
(* The administration console and the invitation page.                      *)

\* GET /admin/login.
AdminLoginPage(i) ==
    LET t == page[i].tenant
        u == SsoUser(call[i].jar["sso"])
        seed == Fresh(Seeds)
    IN
    /\ Sent(i, {"adminLoginPage"}) /\ Spare(Seeds)
    /\ \/ u # None /\ IsAdmin(u, t) /\ Show(i, Found(t, "home"))
       \/ /\ ~(u # None /\ IsAdmin(u, t))
          /\ Reply(i, [admin |-> seed], Page("adminLogin", t, Ref("admin", seed), None))
          /\ UNCHANGED api

\* POST /admin/login.
AdminLogin(i) ==
    LET u == call[i].user IN
    /\ Sent(i, {"adminLogin"})
    /\ \/ ~SeedMatches(i, "admin") /\ Again(i, "adminLogin", Nothing, None)
       \/ SeedMatches(i, "admin") /\ ~call[i].ok /\ Again(i, "adminLogin", page[i].ref, None)
       \/ /\ SeedMatches(i, "admin") /\ call[i].ok
          /\ \/ u \in must /\ Again(i, "adminChange", page[i].ref, u)
             \/ u \notin must /\ SsoSuccess(i, u, {"admin"}, "home") /\ UNCHANGED must

\* POST /admin/password-change.
AdminChange(i) ==
    LET u == page[i].user IN
    /\ Sent(i, {"adminChange"})
    /\ \/ ~SeedMatches(i, "admin") /\ Again(i, "adminChange", Nothing, u)
       \/ SeedMatches(i, "admin") /\ ~call[i].ok /\ Again(i, "adminChange", page[i].ref, u)
       \/ /\ SeedMatches(i, "admin") /\ call[i].ok
          /\ SsoSuccess(i, u, {"admin"}, "home") /\ must' = must \ {u}

\* A page of the console for the SSO session of the cookie.
ConsolePage(t, k) == Page("console", t, Ref("console", k), sso[k])

\* Mutant of ConsoleToken: the token is not compared.
ConsoleTokenAny(i) == TRUE

\* The comparison with console_csrf_token of the SSO session in the cookie.
ConsoleToken(i) == page[i].ref = Ref("console", call[i].jar["sso"])

\* resolve_admin and the pages behind it; a POST also compares the token, and
\* with another token leads to the current page again or to a message.
Console(i) ==
    LET t == page[i].tenant
        k == call[i].jar["sso"]
        u == SsoUser(k)
    IN
    /\ Sent(i, {"home", "console"})
    /\ \/ u = None /\ Show(i, Found(t, "adminLoginPage"))
       \/ u # None /\ ~IsAdmin(u, t) /\ Show(i, Message(t))
       \/ /\ u # None /\ IsAdmin(u, t)
          /\ call[i].op = "home" \/ ~ConsoleToken(i)
          /\ \/ Show(i, ConsolePage(t, k))
             \/ call[i].op = "console" /\ Show(i, Message(t))
       \/ /\ u # None /\ IsAdmin(u, t) /\ call[i].op = "console" /\ ConsoleToken(i)
          /\ ReplyAs(i, NoCookies, Found(t, "home"), u) /\ UNCHANGED api

\* GET /invitations/accept: a form for whoever the cookie says is signed in.
InvitePage(i) ==
    LET k == call[i].jar["sso"] IN
    /\ Sent(i, {"invitePage"})
    /\ Show(i, IF k = None THEN Message(page[i].tenant)
               ELSE Page("invite", page[i].tenant, Ref("console", k), sso[k]))

\* POST /invitations/accept.
InviteAccept(i) ==
    LET t == page[i].tenant
        k == call[i].jar["sso"]
        again == Page("invite", t, Ref("console", k), sso[k])
    IN
    /\ Sent(i, {"invite"})
    /\ \/ k = None /\ Show(i, Message(t))
       \/ k # None /\ ~ConsoleToken(i) /\ Show(i, again)
       \/ k # None /\ ConsoleToken(i) /\ sso[k] = None /\ Show(i, Message(t))
       \/ k # None /\ ConsoleToken(i) /\ sso[k] # None /\ ~call[i].ok /\ Show(i, again)
       \/ /\ k # None /\ ConsoleToken(i) /\ sso[k] # None /\ call[i].ok
          /\ ReplyAs(i, NoCookies, Message(t), sso[k]) /\ UNCHANGED api

Answer(i) ==
    /\ \/ Authorize(i) \/ LoginPage(i) \/ Login(i) \/ StepPage(i) \/ Totp(i) \/ PasswordChange(i)
       \/ ConsentPage(i) \/ Consent(i) \/ PasskeyBegin(i) \/ PasskeyComplete(i)
       \/ PortalLogin(i) \/ PortalChange(i) \/ ChangeBookmark(i) \/ PortalMfaPage(i) \/ PortalMfa(i)
       \/ Settings(i) \/ SettingsForm(i) \/ Logout(i)
       \/ AdminLoginPage(i) \/ AdminLogin(i) \/ AdminChange(i) \/ Console(i)
       \/ InvitePage(i) \/ InviteAccept(i)
    /\ UNCHANGED <<jar, page, left>>

BrowserNext ==
    \/ Retry
    \/ \E i \in Tabs :
          \/ Load(i) \/ Deliver(i) \/ Lost(i) \/ ApiFails(i) \/ Answer(i)
          \/ \E o \in Openings : Open(i, o[1], o[2])
          \/ \E u \in Users \cup {None}, ok \in BOOLEAN : Submit(i, u, ok)
          \/ \E u \in Users \cup {None} : Sign(i, u)
          \/ \E op \in {"pkBegin", "settingsForm", "logout"} : Press(i, op)
    \/ \E c \in Cookies : CookieExpires(c)
    \/ \E s \in AuthIds \cup SsoIds : SessionExpires(s)

BrowserSpec == BrowserInit /\ [][BrowserNext]_browserVars

\* The persistent user loads, fills in and retries, the front end answers and
\* the network delivers; nothing is asked of the other tabs.
Fairness ==
    /\ WF_browserVars(Load(Persistent)) /\ WF_browserVars(Answer(Persistent))
    /\ WF_browserVars(Deliver(Persistent))
    /\ SF_browserVars(Retry)
    /\ WF_browserVars(\E u \in Users \cup {None} : Submit(Persistent, u, TRUE))

FairSpec == BrowserSpec /\ Fairness
-----------------------------------------------------------------------------
(* What the code guarantees.                                                *)

\* The answer to a form continues what that form was shown for, whatever
\* another tab has put into the cookies since.  A login step or a code is for
\* the AuthSession whose token the form carries or whose challenge it asked
\* for; a session of the portal or of the console is opened only from a form
\* with a token of their own name spaces (login_csrf_token in the API,
\* portal_csrf_token and admin_csrf_token in the front end).
SignInServesItsForm ==
    \A i \in Tabs :
        Sent(i, {"reply"}) /\ page[i].view \in Forms =>
            LET a == call[i] IN
            /\ a.next.view = "client" => a.next.ref.of \in {page[i].ref.of, page[i].chal}
            /\ "auth" \in DOMAIN a.set /\ a.set["auth"] # None =>
                  a.set["auth"] \in {page[i].ref.of, page[i].chal}
            /\ "sso" \in DOMAIN a.set /\ "auth" \notin DOMAIN a.set /\ a.set["sso"] # None =>
                  page[i].ref.kind \in {"portal", "admin"}

\* A form of the console or of the invitation page takes effect in the name
\* of the account it was made for, though another account may have signed in
\* through another tab (console_csrf_token binds it to the SSO session).
ActsForTheAccountOfItsPage ==
    \A i \in Tabs :
        Sent(i, {"reply"}) /\ page[i].view \in {"console", "invite"} /\ call[i].by # None =>
            call[i].by = page[i].user

\* A user who keeps trying gets in, however the cookies and sessions of an
\* earlier attempt were left behind: `login` clears the cookie of a dead
\* AuthSession, so that "the state in which the end user cannot enter his own
\* account page recovers by itself".
SelfRecovery ==
    []<>(\/ page[Persistent].view \in {"client", "console"}
         \/ page[Persistent].view = "account" /\ page[Persistent].user # None)
=============================================================================
