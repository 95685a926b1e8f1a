--------------------------- MODULE PasswordLogin ---------------------------
(***************************************************************************)
(* The doors at which a password is presented: the OIDC login, the portal, *)
(* the admin console, the forced change at the latter two, and the change  *)
(* of one's own password; with what they share: the lockout columns of     *)
(* users (failed_login_count, locked_until) and the rate limiter, which is *)
(* in the memory of the process.  The OIDC login goes on in AuthFlow; who  *)
(* holds an administrator's permission is in TenantAccess.                 *)
(*                                                                         *)
(* A member of Requests is one call; an action is one SQL statement of it. *)
(* It also names the SSO session and the mfa_ticket the call issues.       *)
(***************************************************************************)
EXTENDS Integers, FiniteSets

CONSTANTS
    Users, Tenants,
    Home,          \* users.tenant_id
    Ips,           \* the addresses calls come from; None is an unknown one
    Requests,      \* the calls that may happen (bound)
    Kinds,         \* the doors that are used
    AdminOps,      \* what else happens to accounts
    MaxFailed,     \* MAX_FAILED_LOGINS
    LockTtl,       \* LOCK_DURATION_MINUTES
    MaxAttempts, Window,   \* the rate limiter
    TicketTtl,     \* MFA_TICKET_TTL_SECS
    MaxNow,        \* the clock stops here (bound)
    Faults,        \* TRUE: a statement may fail, a handler may be dropped
    None           \* SQL NULL / Option::None

ASSUME LoginAssumption ==
    /\ Home \in [Users -> Tenants]
    /\ Kinds \subseteq {"login", "portal", "portal_change", "portal_mfa", "admin", "admin_change", "account"}
    /\ AdminOps \subseteq {"reset", "status", "verify", "totp"}
    /\ MaxFailed \in Nat \ {0} /\ LockTtl \in Nat \ {0} /\ TicketTtl \in Nat
    /\ MaxAttempts \in Nat \ {0} /\ Window \in Nat \ {0}
    /\ MaxNow \in Nat /\ Faults \in BOOLEAN
ASSUME NoneAssumption == None \notin Users \cup Tenants \cup Requests \cup Int

VARIABLES
    now,        \* the Clock port
    users,      \* users, with whether there is a confirmed TOTP secret
    recorded,   \* the calls in the limiter's memory
    tickets,    \* the expiry of the mfa_ticket each call handed out
    sso,        \* the account of the SSO session each call created
    pc, job,    \* where each call stands, and its locals
    wrong,      \* history: the wrong passwords counted for each account
    streak,     \* history: those since the last reset of the counter
    disturbed,  \* history: accounts two of whose logins overlapped, or failed half way
    latest,     \* history: the latest time with which the limiter was asked
    admitted,   \* history: the calls this process let through the limiter
    blind,      \* history: those let through when part of their window was forgotten
    bare        \* history: calls whose account had no TOTP at some time

limiter == <<recorded, latest, admitted, blind>>
calls == <<tickets, sso, pc, job>>
history == <<wrong, streak, disturbed, bare>>
vars == <<now, users, limiter, calls, history>>
-----------------------------------------------------------------------------
Account == [status : {"ACTIVE", "DISABLED"}, mustChange : BOOLEAN, verified : BOOLEAN,
            failed : Nat, locked : Int \cup {None}, totp : BOOLEAN]

Job == [kind : Kinds, user : Users, tenant : Tenants, ip : Ips \cup {None},
        from : Requests \cup {None}, time : Int, right : BOOLEAN \cup {None},
        row : Account \cup {None}]

ASSUME NoneIsNoRecord == None \notin Account /\ None \notin Job

Pcs == {"new", "auth", "limit", "session", "find", "count", "permission", "newpwd", "uncount", "totp", "sso",
        "ok", "failed"}
Ended == {"ok", "failed"}

\* The places a call reaches only with the row of its account.
Informed == {"count", "permission", "newpwd", "uncount", "totp", "sso"}

TypeOK ==
    /\ now \in 0..MaxNow
    /\ users \in [Users -> Account]
    /\ recorded \subseteq {r \in Requests : job[r] # None}
    /\ tickets \in [Requests -> Int \cup {None}]
    /\ sso \in [Requests -> Users \cup {None}]
    /\ pc \in [Requests -> Pcs]
    /\ job \in [Requests -> Job \cup {None}]
    /\ \A r \in Requests : /\ pc[r] # "new" => job[r] # None
                           /\ pc[r] \in Informed => job[r].row # None
    /\ wrong \in [Users -> Nat] /\ streak \in [Users -> Nat]
    /\ disturbed \subseteq Users
    /\ latest \in Int /\ admitted \subseteq Requests
    /\ blind \subseteq Requests /\ bare \subseteq Requests

Init ==
    /\ now = 0
    /\ users \in [Users -> [status : {"ACTIVE"}, mustChange : {FALSE}, verified : BOOLEAN,
                            failed : {0}, locked : {None}, totp : BOOLEAN]]
    /\ recorded = {} /\ latest = 0 /\ admitted = {} /\ blind = {}
    /\ bare = {} /\ disturbed = {}
    /\ tickets = [r \in Requests |-> None]
    /\ sso = [r \in Requests |-> None]
    /\ pc = [r \in Requests |-> "new"]
    /\ job = [r \in Requests |-> None]
    /\ wrong = [u \in Users |-> 0] /\ streak = [u \in Users |-> 0]
-----------------------------------------------------------------------------
(* Accounts, time, and the process.                                         *)

Tick == now < MaxNow /\ now' = now + 1 /\ UNCHANGED <<users, limiter, calls, history>>

\* Another part of the system rewrites columns of an account: the forced
\* reset, the status, the verification of the address, TOTP.
Rewrite(k, u, row) ==
    /\ k \in AdminOps
    /\ users' = [users EXCEPT ![u] = row]
    /\ bare' = bare \cup {r \in Requests : job[r] # None /\ job[r].user = u /\ ~row.totp}
    /\ UNCHANGED <<now, limiter, calls, wrong, streak, disturbed>>

ResetPasswordFor(u) == Rewrite("reset", u, [users[u] EXCEPT !.mustChange = TRUE])
SetStatus(u) == \E s \in {"ACTIVE", "DISABLED"} \ {users[u].status} :
                    Rewrite("status", u, [users[u] EXCEPT !.status = s])
MarkEmailVerified(u) == Rewrite("verify", u, [users[u] EXCEPT !.verified = TRUE])
ChangeTotp(u) == Rewrite("totp", u, [users[u] EXCEPT !.totp = ~@])

InFlight(u) == {r \in Requests : pc[r] \notin Ended \cup {"new"} /\ job[r].user = u}

\* The process restarts: calls in flight are lost, and so is the limiter's memory.
Restart ==
    /\ Faults
    /\ pc' = [r \in Requests |-> IF pc[r] = "new" THEN "new" ELSE IF pc[r] = "ok" THEN "ok" ELSE "failed"]
    /\ recorded' = {} /\ latest' = 0 /\ admitted' = {} /\ blind' = {}
    /\ disturbed' = disturbed \cup {u \in Users : InFlight(u) # {}}
    /\ UNCHANGED <<now, users, tickets, sso, job, wrong, streak, bare>>
-----------------------------------------------------------------------------
(* Calls begin.                                                             *)

Goto(r, l) == pc' = [pc EXCEPT ![r] = l]

Fresh(k, u, t, ip, from) == [kind |-> k, user |-> u, tenant |-> t, ip |-> ip, from |-> from,
                             time |-> now, right |-> None, row |-> None]

\* Mutant of Kept: the boundary of the window counts as outside already.
KeptLess(time) == {s \in recorded : job[s].time > time - Window + 1}

\* The entries that check_and_record retains, of all addresses.
Kept(time) == {s \in recorded : job[s].time > time - Window}

\* The limiter has forgotten a call of the address that is still in the window
\* of this time: it was asked with a later time in between.
Outrun(ip, time) ==
    \E s \in admitted : /\ job[s].ip = ip /\ time - Window < job[s].time
                        /\ job[s].time <= latest - Window

\* InMemoryLoginRateLimiter::check_and_record at the given time; a call that it
\* refuses is not recorded.  Without an address there is no limit.
CheckAndRecord(r, ip, time, l) ==
    LET full == Cardinality({s \in Kept(time) : job[s].ip = ip}) >= MaxAttempts IN
    \/ /\ ip = None
       /\ Goto(r, l) /\ UNCHANGED limiter
    \/ /\ ip # None
       /\ latest' = IF latest < time THEN time ELSE latest
       /\ \/ /\ full
             /\ recorded' = Kept(time)
             /\ Goto(r, "failed") /\ UNCHANGED <<admitted, blind>>
          \/ /\ ~full
             /\ recorded' = Kept(time) \cup {r} /\ admitted' = admitted \cup {r}
             /\ blind' = IF Outrun(ip, time) THEN blind \cup {r} ELSE blind
             /\ Goto(r, l)

\* A call reads the clock, and goes to its first await or lock.
Begin(r, j, l) ==
    /\ pc[r] = "new" /\ j.kind \in Kinds
    /\ job' = [job EXCEPT ![r] = j] /\ Goto(r, l)
    /\ disturbed' = IF InFlight(j.user) = {} THEN disturbed ELSE disturbed \cup {j.user}
    /\ bare' = IF users[j.user].totp THEN bare ELSE bare \cup {r}
    /\ UNCHANGED <<now, users, limiter, tickets, sso, wrong, streak>>

\* PortalLoginService, AdminLoginService.
PresentPassword(r, k, u, ip) ==
    /\ k \in {"portal", "portal_change", "admin", "admin_change"}
    /\ Begin(r, Fresh(k, u, Home[u], ip, None), "limit")

\* LoginService looks for the authentication session first ...
PresentPasswordInFlow(r, u, ip) == Begin(r, Fresh("login", u, Home[u], ip, None), "auth")

\* ... and goes on if there is one, of that cookie and CSRF token.
FindAuthSession(r) ==
    /\ pc[r] = "auth"
    /\ Goto(r, "limit") \/ Goto(r, "failed")
    /\ UNCHANGED <<now, users, limiter, tickets, sso, job, history>>

\* PortalLoginService::verify_mfa with the ticket of call x at tenant t.
PresentTicket(r, x, t, ip) ==
    /\ pc[x] = "ok" /\ tickets[x] # None
    /\ Begin(r, Fresh("portal_mfa", job[x].user, t, ip, x), "limit")

\* AccountPasswordService::change; there is no limiter and no lockout.
ChangeOwnPassword(r, x) ==
    /\ sso[x] # None
    /\ Begin(r, Fresh("account", sso[x], Home[sso[x]], None, x), "session")

\* Mutant of TicketValid: the expiry is not compared.
TicketValidForever(x, t, time) == job[x].tenant = t

\* verify_ticket: tenant and expiry; the signature covers both and the account.
TicketValid(x, t, time) == job[x].tenant = t /\ time <= tickets[x]

\* The call asks the limiter with the time it had read.  If it is let through,
\* the name is looked up, which may be unknown, or the ticket is verified.
AskLimiter(r) ==
    LET j == job[r] IN
    /\ pc[r] = "limit"
    /\ \E found \in BOOLEAN :
          /\ j.kind = "portal_mfa" => found = TicketValid(j.from, j.tenant, j.time)
          /\ CheckAndRecord(r, j.ip, j.time, IF found THEN "find" ELSE "failed")
    /\ UNCHANGED <<now, users, tickets, sso, job, history>>
-----------------------------------------------------------------------------
(* The account is read, and everything that needs no further statement is   *)
(* decided on that row.                                                     *)

\* Mutant of IsLockedAt: the lock is not looked at.
NeverLocked(row, time) == FALSE

\* User::is_locked_at
IsLockedAt(row, time) == row.locked # None /\ row.locked > time

\* The row that FindUser read has something to reset.
Dirty(row) == row.failed > 0 \/ row.locked # None

\* Mutant of Proceed: the portal hands out the session without asking for TOTP.
ProceedWithoutTotp(k, row) ==
    CASE k = "login" -> IF row.verified THEN "ok" ELSE "failed"
      [] k = "portal" -> IF ~row.verified THEN "failed" ELSE IF row.mustChange THEN "ok" ELSE "sso"
      [] k = "portal_change" -> "totp"
      [] OTHER -> "sso"

\* Where a call goes when the counter is clear: the mail gate and the forced
\* change of the first two, TOTP for the portal.
Proceed(k, row) ==
    CASE k = "login" -> IF row.verified THEN "ok" ELSE "failed"
      [] k = "portal" -> IF ~row.verified THEN "failed" ELSE IF row.mustChange THEN "ok" ELSE "totp"
      [] k = "portal_change" -> "totp"
      [] OTHER -> "sso"

Uncounted(k, row) == IF Dirty(row) THEN "uncount" ELSE Proceed(k, row)

\* What follows the right password.
AfterPassword(k, row) ==
    CASE k \in {"login", "portal"} -> Uncounted(k, row)
      [] k \in {"admin", "admin_change"} -> "permission"
      [] k = "portal_change" -> IF row.verified THEN "newpwd" ELSE "failed"
      [] k = "account" -> "newpwd"

\* The row refuses the call before its password is looked at.
Refused(k, row, time) ==
    \/ k # "account" /\ IsLockedAt(row, time)
    \/ row.status # "ACTIVE"
    \/ k \in {"portal_change", "admin_change"} /\ ~row.mustChange

FindUser(r) ==
    LET j == job[r]
        row == users[j.user]
    IN
    /\ pc[r] = "find"
    /\ \/ /\ Refused(j.kind, row, j.time)
          /\ Goto(r, "failed") /\ UNCHANGED <<job, wrong, streak>>
       \/ /\ ~Refused(j.kind, row, j.time) /\ j.kind = "portal_mfa"
          /\ Goto(r, "totp") /\ job' = [job EXCEPT ![r].row = row]
          /\ UNCHANGED <<wrong, streak>>
       \/ /\ ~Refused(j.kind, row, j.time) /\ j.kind # "portal_mfa"
          /\ \E right \in BOOLEAN :
                LET counted == ~right /\ j.kind # "account" IN
                /\ job' = [job EXCEPT ![r].row = row, ![r].right = right]
                /\ Goto(r, IF right THEN AfterPassword(j.kind, row)
                           ELSE IF counted THEN "count" ELSE "failed")
                /\ wrong' = IF counted THEN [wrong EXCEPT ![j.user] = @ + 1] ELSE wrong
                /\ streak' = IF counted THEN [streak EXCEPT ![j.user] = @ + 1] ELSE streak
    /\ UNCHANGED <<now, users, limiter, tickets, sso, disturbed, bare>>
-----------------------------------------------------------------------------
(* The statements that follow.  All write what was computed from the row    *)
(* that FindUser read, whatever happened to it since.                       *)

\* Mutant of Counted: the lock comes one failure late.
CountedLate(row, failed, time) ==
    [row EXCEPT !.failed = failed, !.locked = IF failed > MaxFailed THEN time + LockTtl ELSE None]

\* Mutant of Counted: the lock comes one failure early.
CountedEarly(row, failed, time) ==
    [row EXCEPT !.failed = failed, !.locked = IF failed + 1 >= MaxFailed THEN time + LockTtl ELSE None]

\* update_login_state as handle_password_failure calls it.
Counted(row, failed, time) ==
    [row EXCEPT !.failed = failed, !.locked = IF failed >= MaxFailed THEN time + LockTtl ELSE None]

\* The clock is read a second time, some time before the statement.
CountFailure(r) ==
    LET j == job[r] IN
    /\ pc[r] = "count"
    /\ \E time \in j.time..now :
          users' = [users EXCEPT ![j.user] = Counted(@, j.row.failed + 1, time)]
    /\ Goto(r, "failed")
    /\ UNCHANGED <<now, limiter, tickets, sso, job, history>>

ResetCount(r) ==
    LET j == job[r] IN
    /\ pc[r] = "uncount"
    /\ users' = [users EXCEPT ![j.user].failed = 0, ![j.user].locked = None]
    /\ streak' = [streak EXCEPT ![j.user] = 0]
    /\ Goto(r, Proceed(j.kind, j.row))
    /\ UNCHANGED <<now, limiter, tickets, sso, job, wrong, disturbed, bare>>

\* has_any_permission(idp.tenant.admin, idp.system.admin) says yes or no; see
\* TenantAccess for when.
CheckPermission(r) ==
    LET j == job[r] IN
    /\ pc[r] = "permission"
    /\ \/ Goto(r, "failed")
       \/ Goto(r, IF j.kind = "admin_change" THEN "newpwd"
                  ELSE IF j.row.mustChange THEN "ok" ELSE Uncounted(j.kind, j.row))
    /\ UNCHANGED <<now, users, limiter, tickets, sso, job, history>>

\* A weak new password is refused; update_password clears must_change_password.
UpdatePassword(r) ==
    LET j == job[r] IN
    /\ pc[r] = "newpwd"
    /\ \/ Goto(r, "failed") /\ UNCHANGED users
       \/ /\ users' = [users EXCEPT ![j.user].mustChange = FALSE]
          /\ Goto(r, IF j.kind = "account" THEN "ok" ELSE Uncounted(j.kind, j.row))
    /\ UNCHANGED <<now, limiter, tickets, sso, job, history>>

\* The portal looks for a confirmed TOTP secret: a first step hands out a
\* ticket if there is one, the second step compares the code with it.
CheckTotp(r) ==
    LET j == job[r]
        totp == users[j.user].totp
    IN
    /\ pc[r] = "totp"
    /\ IF j.kind = "portal_mfa"
       THEN /\ \E right \in BOOLEAN : /\ job' = [job EXCEPT ![r].right = right]
                                      /\ Goto(r, IF totp /\ right THEN "sso" ELSE "failed")
            /\ UNCHANGED tickets
       ELSE /\ Goto(r, IF totp THEN "ok" ELSE "sso")
            /\ tickets' = [tickets EXCEPT ![r] = IF totp THEN j.time + TicketTtl ELSE None]
            /\ UNCHANGED job
    /\ UNCHANGED <<now, users, limiter, sso, history>>

\* INSERT of the SSO session.
IssueSso(r) ==
    /\ pc[r] = "sso"
    /\ sso' = [sso EXCEPT ![r] = job[r].user]
    /\ Goto(r, "ok")
    /\ UNCHANGED <<now, users, limiter, tickets, job, history>>

\* The session of the cookie is looked up; it may have ended (see AuthFlow).
FindSession(r) ==
    /\ pc[r] = "session"
    /\ Goto(r, "find") \/ Goto(r, "failed")
    /\ UNCHANGED <<now, users, limiter, tickets, sso, job, history>>

CallFails(r) ==
    /\ Faults /\ pc[r] \notin Ended \cup {"new"}
    /\ Goto(r, "failed")
    /\ disturbed' = disturbed \cup {job[r].user}
    /\ UNCHANGED <<now, users, limiter, tickets, sso, job, wrong, streak, bare>>
-----------------------------------------------------------------------------
Step(r) == \/ FindAuthSession(r) \/ AskLimiter(r) \/ FindSession(r) \/ FindUser(r) \/ CountFailure(r) \/ ResetCount(r)
           \/ CheckPermission(r) \/ UpdatePassword(r) \/ CheckTotp(r) \/ IssueSso(r)

Next ==
    \/ Tick \/ Restart
    \/ \E u \in Users : \/ ResetPasswordFor(u) \/ SetStatus(u) \/ MarkEmailVerified(u)
                        \/ ChangeTotp(u)
    \/ \E r \in Requests, ip \in Ips :
          \/ \E u \in Users : PresentPasswordInFlow(r, u, ip)
          \/ \E k \in Kinds, u \in Users : PresentPassword(r, k, u, ip)
          \/ \E x \in Requests, t \in Tenants : PresentTicket(r, x, t, ip)
    \/ \E r, x \in Requests : ChangeOwnPassword(r, x)
    \/ \E r \in Requests : Step(r) \/ CallFails(r)

Spec == Init /\ [][Next]_vars
-----------------------------------------------------------------------------
(* What the code guarantees.                                                *)

\* Whatever the doors, one process lets at most MaxAttempts calls of an address
\* through the limiter in any window, although calls ask it in another order than
\* they read the clock, and a later time makes it forget.  Only a call that was
\* overtaken so, with a call of its own window forgotten, does not count.
LimiterBound ==
    LET seeing == admitted \ blind IN
    \A r \in seeing :
        Cardinality({s \in seeing : /\ job[s].ip = job[r].ip
                                    /\ job[r].time - Window < job[s].time
                                    /\ job[s].time <= job[r].time}) <= MaxAttempts

\* Nobody is locked out by fewer than MaxFailed wrong passwords, although
\* concurrent logins write counters computed from rows that are out of date.
LockNeedsMaxFailures ==
    \A u \in Users : users[u].locked # None => wrong[u] >= MaxFailed

\* The lockout policy, for an account whose logins never overlapped: after
\* MaxFailed wrong passwords in a row the account is locked.
SequentialFailuresLock ==
    \A u \in Users : u \notin disturbed /\ InFlight(u) = {} /\ streak[u] >= MaxFailed =>
        users[u].locked # None

\* And a lock in force stays until its time, neither lifted nor prolonged.
LockRunsItsTime ==
    [][\A u \in Users \ disturbed' :
          users[u].locked # None /\ users[u].locked > now => users'[u].locked = users[u].locked]_vars

\* The portal gives a session without a TOTP code only to an account that had
\* no confirmed secret at some time during the call, also right after a forced
\* change of the password.
SecondFactorHonoured ==
    \A r \in Requests : sso[r] # None /\ job[r].kind \in {"portal", "portal_change"} => r \in bare

\* A session given for a TOTP code rests on a right password of the same
\* account, presented at the same tenant within the lifetime of the ticket.
TicketGenuine ==
    \A r \in Requests : sso[r] # None /\ job[r].kind = "portal_mfa" =>
        LET j == job[job[r].from] IN
        /\ j.right = TRUE /\ j.user = sso[r] /\ j.tenant = job[r].tenant
        /\ j.time <= job[r].time /\ job[r].time <= j.time + TicketTtl
=============================================================================
