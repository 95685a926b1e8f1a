--------------------------- MODULE TokenEndpoint ---------------------------
(***************************************************************************)
(* The token endpoint and the two tables behind it (authorization_codes,   *)
(* refresh_tokens), with everything that writes to them: code issuance,    *)
(* both grants of POST /token, POST /revoke, and the account operations    *)
(* that withdraw a user's credentials (disable, password reset, logout,    *)
(* delete).                                                                *)
(*                                                                         *)
(* The service runs no transaction: every repository call is one SQL       *)
(* statement, and requests interleave at every `.await`.  So a request is  *)
(* a process with a program counter, and an action is one statement with   *)
(* the local computation up to the next one.  Each member of Requests is   *)
(* one POST /token call; it also names the refresh token that the call     *)
(* produces, since a call produces at most one and it is a fresh random    *)
(* value.                                                                  *)
(***************************************************************************)
EXTENDS Integers

CONSTANTS
    Users, Tenants, Clients,  \* accounts, tenants, client_ids
    Registered,    \* the <<tenant, client_id>> pairs of the clients table
    Codes,         \* the authorization codes that may be issued (bound)
    Requests,      \* the token requests that may arrive (bound)
    Ops,           \* the account operations that may be started (bound)
    CodeTtl,       \* AUTHORIZATION_CODE_TTL, in ticks
    RefreshTtl,    \* REFRESH_TOKEN_TTL_SECS, in ticks
    MaxNow,        \* the clock stops here (bound)
    Faults,        \* TRUE: a statement may fail, a handler may be dropped
    None           \* SQL NULL / Option::None

ASSUME TtlAssumption ==
    /\ CodeTtl \in Nat \ {0} /\ RefreshTtl \in Nat \ {0}
    /\ MaxNow \in Nat
ASSUME FaultsAssumption == Faults \in BOOLEAN
ASSUME RegisteredAssumption == Registered \subseteq Tenants \X Clients
ASSUME NoneAssumption == None \notin Requests

VARIABLES
    now,         \* the Clock port
    users,       \* users.status, or "DELETED"
    active,      \* the registered clients whose status is ACTIVE
    codes,       \* authorization_codes, by code
    tokens,      \* refresh_tokens, by the request that inserted the row
    pc,          \* where each token request stands
    arg,         \* what each token request presented
    at,          \* the clock value each token request read
    snap,        \* the row each token request fetched, as it was then
    op,          \* the account operations: kind, user, next statement
    redeemedBy,  \* history: the request whose UPDATE consumed each code
    reused,      \* history: refresh tokens on which reuse was detected
    dead         \* history: requests whose code or token was spent when they arrived

tables  == <<users, active, codes, tokens>>
request == <<pc, arg, at, snap>>
history == <<redeemedBy, reused, dead>>
vars == <<now, tables, request, op, history>>
-----------------------------------------------------------------------------
(* Rows.  `st` folds used_at / revoked_at being NULL or not with the row's  *)
(* existence: "none" before the INSERT, "gone" after ON DELETE CASCADE.     *)

Scopes == {"openid", "offline"}   \* without / with offline_access

Code == [st : {"open", "used"}, user : Users, tenant : Tenants,
         client : Clients, scope : Scopes, expires : Int]

\* `root` is a history field: the code whose redemption started the chain.
RefreshToken == [st : {"live", "revoked"}, parent : Requests \cup {None},
                 user : Users, tenant : Tenants, client : Clients,
                 scope : Scopes, expires : Int, root : Codes]

Absent == {[st |-> "none"], [st |-> "gone"]}

CodeArg == [kind : {"code"}, tenant : Tenants, client : Clients,
            cred : Codes, proof : BOOLEAN]
RefreshArg == [kind : {"refresh"}, tenant : Tenants, client : Clients, cred : Requests]
Arg == CodeArg \cup RefreshArg

Row(x) == x.st \notin {"none", "gone"}

\* Mutant of IsValidAt: expires_at is not compared.
IsValidUntilRevoked(t, time) == t.st = "live"

\* Mutant of IsValidAt: revoked_at is not looked at.
IsValidUnexpired(t, time) == t.expires > time

\* RefreshToken::is_valid_at
IsValidAt(t, time) == t.st = "live" /\ t.expires > time

Outcomes == {"ok", "failed"}
Pcs == {"new", "consume", "fetch", "find", "reuse", "burn", "user", "rotate", "issue"}
       \cup Outcomes

TypeOK ==
    /\ now \in 0..MaxNow
    /\ users \in [Users -> {"ACTIVE", "DISABLED", "DELETED"}]
    /\ active \subseteq Registered
    /\ codes \in [Codes -> Code \cup Absent]
    /\ tokens \in [Requests -> RefreshToken \cup Absent]
    /\ pc \in [Requests -> Pcs]
    /\ arg \in [Requests -> Arg \cup {None}]
    /\ at \in [Requests -> Int]
    /\ snap \in [Requests -> Code \cup RefreshToken \cup {None}]
    /\ op \in [Ops -> [kind : {"reset", "disable", "logout", "none"}, user : Users \cup {None},
                       next : {"refresh", "codes", "done"}, at : Int]]
    /\ redeemedBy \in [Codes -> Requests \cup {None}]
    /\ reused \subseteq Requests
    /\ dead \subseteq Requests

Init ==
    /\ now = 0
    /\ users = [u \in Users |-> "ACTIVE"]
    /\ active = Registered
    /\ codes = [c \in Codes |-> [st |-> "none"]]
    /\ tokens = [r \in Requests |-> [st |-> "none"]]
    /\ pc = [r \in Requests |-> "new"]
    /\ arg = [r \in Requests |-> None]
    /\ at = [r \in Requests |-> 0]
    /\ snap = [r \in Requests |-> None]
    /\ op = [o \in Ops |-> [kind |-> "none", user |-> None, next |-> "done", at |-> 0]]
    /\ redeemedBy = [c \in Codes |-> None]
    /\ reused = {} /\ dead = {}
-----------------------------------------------------------------------------
(* The environment of a request: time passes, codes are issued by the       *)
(* interactive flows, administrators switch clients and accounts.           *)

Tick == /\ now < MaxNow
        /\ now' = now + 1
        /\ UNCHANGED <<tables, request, op, history>>

\* CodeIssuanceService::issue, called by every interactive flow.  Only the
\* foreign keys of the table constrain it; none of the flows re-reads the
\* account or the client between its own checks and this INSERT.
IssueCode(c, u, t, cl, s) ==
    /\ codes[c].st = "none"
    /\ users[u] # "DELETED" /\ <<t, cl>> \in Registered
    /\ codes' = [codes EXCEPT ![c] =
           [st |-> "open", user |-> u, tenant |-> t, client |-> cl,
            scope |-> s, expires |-> now + CodeTtl]]
    /\ UNCHANGED <<now, users, active, tokens, request, op, history>>

\* ClientManagementService::update, as far as the token endpoint sees it.
UpdateClient(t, cl) ==
    /\ <<t, cl>> \in Registered
    /\ active' = IF <<t, cl>> \in active THEN active \ {<<t, cl>>}
                                         ELSE active \cup {<<t, cl>>}
    /\ UNCHANGED <<now, users, codes, tokens, request, op, history>>

\* UserLifecycleService::set_status(ACTIVE)
EnableUser(u) ==
    /\ users[u] = "DISABLED"
    /\ users' = [users EXCEPT ![u] = "ACTIVE"]
    /\ UNCHANGED <<now, active, codes, tokens, request, op, history>>

\* UserLifecycleService::delete_user: one DELETE, the rows follow by cascade.
DeleteUser(u) ==
    /\ users[u] # "DELETED"
    /\ users' = [users EXCEPT ![u] = "DELETED"]
    /\ codes' = [c \in Codes |-> IF Row(codes[c]) /\ codes[c].user = u
                                 THEN [st |-> "gone"] ELSE codes[c]]
    /\ tokens' = [r \in Requests |-> IF Row(tokens[r]) /\ tokens[r].user = u
                                     THEN [st |-> "gone"] ELSE tokens[r]]
    /\ UNCHANGED <<now, active, request, op, history>>
-----------------------------------------------------------------------------
(* POST /token, grant_type=authorization_code (exchange_code).              *)

Goto(r, l) == pc' = [pc EXCEPT ![r] = l]

\* load_active_client and authenticate_client: the secret is right, or the
\* client is public.
LoadActiveClient(t, cl) == <<t, cl>> \in active

\* The client is let in and the parameter checks succeed; the clock is read for
\* the UPDATE that follows.  A request refused here touches nothing and is not
\* represented.
ExchangeCode(r, t, cl, c, proof) ==
    /\ pc[r] = "new"
    /\ LoadActiveClient(t, cl)
    /\ codes[c].st # "none"
    /\ arg' = [arg EXCEPT ![r] = [kind |-> "code", tenant |-> t, client |-> cl,
                                  cred |-> c, proof |-> proof]]
    /\ at' = [at EXCEPT ![r] = now]
    /\ dead' = IF codes[c].st = "open" /\ codes[c].expires > now THEN dead ELSE dead \cup {r}
    /\ Goto(r, "consume")
    /\ UNCHANGED <<now, tables, snap, op, redeemedBy, reused>>

\* Mutant of Redeemable: without `used_at IS NULL`.
RedeemableAgain(row, tenant, time) ==
    Row(row) /\ row.tenant = tenant /\ row.expires > time

\* The WHERE clause of AuthorizationCodeRepository::consume.
Redeemable(row, tenant, time) ==
    row.st = "open" /\ row.tenant = tenant /\ row.expires > time

\* The atomic UPDATE of consume; no row affected means invalid_grant.
ConsumeCode(r) ==
    LET c == arg[r].cred IN
    /\ pc[r] = "consume"
    /\ IF Redeemable(codes[c], arg[r].tenant, at[r])
       THEN /\ codes' = [codes EXCEPT ![c].st = "used"]
            /\ redeemedBy' = [redeemedBy EXCEPT ![c] = r]
            /\ Goto(r, "fetch")
       ELSE /\ Goto(r, "failed")
            /\ UNCHANGED <<codes, redeemedBy>>
    /\ UNCHANGED <<now, users, active, tokens, arg, at, snap, op,
                   reused, dead>>

\* The SELECT after the UPDATE, then the checks on the row it returns:
\* client_id, redirect_uri and PKCE (`proof`).  The code is spent already.
Fetched(row, a) == Row(row) /\ row.client = a.client /\ a.proof

FetchConsumed(r) ==
    LET row == codes[arg[r].cred] IN
    /\ pc[r] = "fetch"
    /\ IF Fetched(row, arg[r])
       THEN Goto(r, "user") /\ snap' = [snap EXCEPT ![r] = row]
       ELSE Goto(r, "failed") /\ UNCHANGED snap
    /\ UNCHANGED <<now, tables, arg, at, op, history>>
-----------------------------------------------------------------------------
(* POST /token, grant_type=refresh_token (exchange_refresh_token).          *)

\* The caller holds the refresh token of request x: its response arrived.
ExchangeRefreshToken(r, t, cl, x) ==
    /\ pc[r] = "new"
    /\ LoadActiveClient(t, cl)
    /\ pc[x] = "ok" /\ tokens[x].st # "none"
    /\ arg' = [arg EXCEPT ![r] = [kind |-> "refresh", tenant |-> t, client |-> cl,
                                  cred |-> x]]
    /\ at' = [at EXCEPT ![r] = now]
    /\ dead' = IF tokens[x].st = "live" /\ tokens[x].expires > now THEN dead ELSE dead \cup {r}
    /\ Goto(r, "find")
    /\ UNCHANGED <<now, tables, snap, op, redeemedBy, reused>>

\* find_by_hash(tenant, hash), then the client check.
Presentable(row, a) == Row(row) /\ row.tenant = a.tenant /\ row.client = a.client

FindByHash(r) ==
    LET row == tokens[arg[r].cred] IN
    /\ pc[r] = "find"
    /\ IF Presentable(row, arg[r])
       THEN Goto(r, "reuse") /\ snap' = [snap EXCEPT ![r] = row]
       ELSE Goto(r, "failed") /\ UNCHANGED snap
    /\ UNCHANGED <<now, tables, arg, at, op, history>>

Children(x) == {y \in Requests : Row(tokens[y]) /\ tokens[y].parent = x}

\* exists_by_parent_hash, then is_valid_at on the row fetched earlier.
ExistsByParentHash(r) ==
    LET x == arg[r].cred IN
    /\ pc[r] = "reuse"
    /\ IF Children(x) # {}
       THEN Goto(r, "burn") /\ reused' = reused \cup {x}
       ELSE /\ Goto(r, IF IsValidAt(snap[r], at[r]) THEN "user" ELSE "failed")
            /\ UNCHANGED reused
    /\ UNCHANGED <<now, tables, arg, at, snap, op, redeemedBy, dead>>

\* RefreshTokenRepository::revoke: sets revoked_at where it is NULL.
Revoke(x) == [tokens EXCEPT ![x] = IF Row(@) THEN [@ EXCEPT !.st = "revoked"] ELSE @]

\* Reuse: the presented token is revoked (best effort), the request refused.
RevokeReused(r) ==
    /\ pc[r] = "burn"
    /\ tokens' = Revoke(arg[r].cred)
    /\ Goto(r, "failed")
    /\ UNCHANGED <<now, users, active, codes, arg, at, snap, op, history>>

\* Mutant of RevokePresented: the predecessor is left as it is.
KeepPresented(r) ==
    /\ pc[r] = "rotate"
    /\ Goto(r, "issue")
    /\ UNCHANGED <<now, tables, arg, at, snap, op, history>>

\* Rotation: the presented token is revoked; how many rows that touched is
\* not looked at.
RevokePresented(r) ==
    /\ pc[r] = "rotate"
    /\ tokens' = Revoke(arg[r].cred)
    /\ Goto(r, "issue")
    /\ UNCHANGED <<now, users, active, codes, arg, at, snap, op, history>>
-----------------------------------------------------------------------------
(* Both grants: the account check, then signing and the new refresh token.  *)

LoadActiveUser(r) ==
    /\ pc[r] = "user"
    /\ Goto(r, IF users[snap[r].user] # "ACTIVE" THEN "failed"
               ELSE IF arg[r].kind = "code" THEN "issue" ELSE "rotate")
    /\ UNCHANGED <<now, tables, arg, at, snap, op, history>>

\* Mutant of NewRefreshToken: every rotation starts a new lifetime.
SlidingRefreshToken(r) ==
    LET first == arg[r].kind = "code" IN
    [st |-> "live", parent |-> IF first THEN None ELSE arg[r].cred,
     user |-> snap[r].user, tenant |-> arg[r].tenant, client |-> arg[r].client,
     scope |-> snap[r].scope, expires |-> at[r] + RefreshTtl,
     root |-> IF first THEN arg[r].cred ELSE snap[r].root]

\* The row to insert: a first token expires RefreshTtl after the redemption,
\* a rotated one when its predecessor would have.
NewRefreshToken(r) ==
    LET first == arg[r].kind = "code" IN
    [st |-> "live", parent |-> IF first THEN None ELSE arg[r].cred,
     user |-> snap[r].user, tenant |-> arg[r].tenant, client |-> arg[r].client,
     scope |-> snap[r].scope,
     expires |-> IF first THEN at[r] + RefreshTtl ELSE snap[r].expires,
     root |-> IF first THEN arg[r].cred ELSE snap[r].root]

\* The INSERT fails on the foreign key when the account is gone.  With Faults
\* the response may be lost after the INSERT.
IssueTokens(r) ==
    /\ pc[r] = "issue"
    /\ IF arg[r].kind = "code" /\ snap[r].scope # "offline"
       THEN Goto(r, "ok") /\ UNCHANGED tokens
       ELSE IF users[snap[r].user] = "DELETED"
       THEN Goto(r, "failed") /\ UNCHANGED tokens
       ELSE /\ tokens' = [tokens EXCEPT ![r] = NewRefreshToken(r)]
            /\ \E l \in Outcomes : (l = "ok" \/ Faults) /\ Goto(r, l)
    /\ UNCHANGED <<now, users, active, codes, arg, at, snap, op, history>>

\* A statement or the signing key fails, or the caller disconnects and the
\* handler's future is dropped at an await.
RequestFails(r) ==
    /\ Faults
    /\ pc[r] \notin Outcomes \cup {"new"}
    /\ Goto(r, "failed")
    /\ UNCHANGED <<now, tables, arg, at, snap, op, history>>

TokenStep(r) ==
    \/ ConsumeCode(r) \/ FetchConsumed(r)
    \/ FindByHash(r) \/ ExistsByParentHash(r) \/ RevokeReused(r) \/ RevokePresented(r)
    \/ LoadActiveUser(r) \/ IssueTokens(r)
-----------------------------------------------------------------------------
(* POST /revoke (RevocationService::revoke), of a refresh token.  Access    *)
(* tokens are signed and not stored, and are left out.                      *)

\* load_client has conditions of its own, which come to the same.
LoadClient(t, cl) == <<t, cl>> \in active

\* The caller authenticates as a client of tenant t and presents a token it was
\* given.  A refresh token is not a JWT, so whatever the hint the only write is
\* RefreshTokenRepository::revoke, which looks rows up by hash alone.
RevokeRefreshToken(t, cl, x) ==
    /\ LoadClient(t, cl)
    /\ pc[x] = "ok" /\ tokens[x].st # "none"
    /\ \/ tokens' = Revoke(x)
       \/ Faults /\ UNCHANGED tokens
    /\ UNCHANGED <<now, users, active, codes, request, op, history>>
-----------------------------------------------------------------------------
(* Account operations that withdraw credentials.  Each is a sequence of     *)
(* statements whose failures are only logged; the first one, deleting the   *)
(* SSO sessions, concerns no variable of this module.                       *)

\* RP-initiated logout withdraws codes only.
FirstWithdrawn(k) == IF k = "logout" THEN "codes" ELSE "refresh"

\* set_status(DISABLED); a password reset (by an administrator or through the
\* mailed link), which leaves the status alone; a logout.
StartOp(o, u, k) ==
    /\ op[o].kind = "none"
    /\ users[u] # "DELETED"
    /\ op' = [op EXCEPT ![o] = [kind |-> k, user |-> u, at |-> now,
                                next |-> FirstWithdrawn(k)]]
    /\ users' = IF k = "disable" THEN [users EXCEPT ![u] = "DISABLED"] ELSE users
    /\ UNCHANGED <<now, active, codes, tokens, request, history>>

\* RefreshTokenRepository::revoke_all_for_user
RevokeAllForUser(u) ==
    [r \in Requests |-> IF tokens[r].st = "live" /\ tokens[r].user = u
                        THEN [tokens[r] EXCEPT !.st = "revoked"] ELSE tokens[r]]

OpRevokeTokens(o) ==
    /\ op[o].next = "refresh"
    /\ \/ tokens' = RevokeAllForUser(op[o].user)
       \/ Faults /\ UNCHANGED tokens
    /\ op' = [op EXCEPT ![o].next = "codes"]
    /\ UNCHANGED <<now, users, active, codes, request, history>>

\* AuthorizationCodeRepository::revoke_all_active_for_user
RevokeAllActiveForUser(u, time) ==
    [c \in Codes |-> IF codes[c].st = "open" /\ codes[c].user = u /\ codes[c].expires > time
                     THEN [codes[c] EXCEPT !.st = "used"] ELSE codes[c]]

OpRevokeCodes(o) ==
    /\ op[o].next = "codes"
    /\ \/ codes' = RevokeAllActiveForUser(op[o].user, op[o].at)
       \/ Faults /\ UNCHANGED codes
    /\ op' = [op EXCEPT ![o].next = "done"]
    /\ UNCHANGED <<now, users, active, tokens, request, history>>

\* The administrator disconnects, or the process stops, between statements.
OpDropped(o) ==
    /\ Faults
    /\ op[o].next # "done"
    /\ op' = [op EXCEPT ![o].next = "done"]
    /\ UNCHANGED <<now, tables, request, history>>

OpStep(o) == OpRevokeTokens(o) \/ OpRevokeCodes(o)
-----------------------------------------------------------------------------
Environment ==
    \/ Tick
    \/ \E c \in Codes, u \in Users, t \in Tenants, cl \in Clients, s \in Scopes :
          IssueCode(c, u, t, cl, s)
    \/ \E t \in Tenants, cl \in Clients : UpdateClient(t, cl)
    \/ \E u \in Users : EnableUser(u) \/ DeleteUser(u)

Arrivals ==
    \E r \in Requests, t \in Tenants, cl \in Clients :
        \/ \E c \in Codes, proof \in BOOLEAN : ExchangeCode(r, t, cl, c, proof)
        \/ \E x \in Requests : ExchangeRefreshToken(r, t, cl, x)

Revocations ==
    \E t \in Tenants, cl \in Clients, x \in Requests : RevokeRefreshToken(t, cl, x)

Operations ==
    \E o \in Ops :
        \/ \E u \in Users, k \in {"reset", "disable", "logout"} : StartOp(o, u, k)
        \/ OpStep(o) \/ OpDropped(o)

Next == \/ Environment \/ Arrivals \/ Revocations \/ Operations
        \/ \E r \in Requests : TokenStep(r) \/ RequestFails(r)

Spec == Init /\ [][Next]_vars
-----------------------------------------------------------------------------
(* What the code guarantees.                                                *)

\* The request r has taken the code it presented and may still answer, or has
\* answered, with tokens.
Holds(r) == pc[r] \in {"fetch", "user", "issue", "ok"} /\ arg[r].kind = "code"

\* No authorization code is redeemed by two requests, however the requests,
\* logouts, resets and deletions interleave: the UPDATE of `consume` is the
\* only arbiter, since the handler reads nothing before it.
CodeRedeemedOnce ==
    \A r, s \in Requests :
        Holds(r) /\ Holds(s) /\ arg[r].cred = arg[s].cred => r = s

\* Every refresh token, after any number of rotations, still belongs to the
\* user, client and tenant of the code its chain began with, that code asked
\* for offline_access and is spent, and the expiry is the one fixed when the
\* code was redeemed: rotation neither crosses an owner nor slides the expiry.
GrantLineage ==
    \A r \in Requests : Row(tokens[r]) =>
        LET x == tokens[r]
            c == codes[x.root]
        IN /\ c.st = "used" /\ c.scope = "offline" /\ x.scope = "offline"
           /\ <<x.user, x.tenant, x.client>> = <<c.user, c.tenant, c.client>>
           /\ redeemedBy[x.root] \in Requests
           /\ x.expires = at[redeemedBy[x.root]] + RefreshTtl

\* A refresh token with a successor is revoked, in every state that another
\* request can observe: the predecessor dies before the successor exists, so
\* a crash between the two statements never leaves two usable tokens.
RotatedParentRevoked ==
    \A r \in Requests : Row(tokens[r]) /\ tokens[r].parent # None =>
        tokens[tokens[r].parent].st = "revoked"

\* A successor is the answer to a request that arrived after its predecessor
\* was issued and before the chain expired, by the clock that request read.
RotationWithinLifetime ==
    \A r \in Requests : Row(tokens[r]) /\ tokens[r].parent # None =>
        /\ at[tokens[r].parent] <= at[r]
        /\ at[r] < tokens[r].expires

\* Seen through its status alone the code table is a one-time grant store:
\* expiry, the two-statement consume and the account operations are details.
CodePhase(c) == CASE codes[c].st = "none" -> "unissued"
                  [] codes[c].st = "open" -> "open"
                  [] OTHER -> "closed"

Grant == INSTANCE OneTimeGrant WITH
            Grants <- Codes, Redeemers <- Requests, Nobody <- None,
            phase <- [c \in Codes |-> CodePhase(c)], redeemer <- redeemedBy

ImplementsOneTimeGrant == Grant!Spec

\* A code that was used, withdrawn or expired when a request arrived with it, and
\* a refresh token that was rotated, revoked or expired, buys nothing: whatever
\* account operations, revocations and other requests do while that request
\* runs, and however often the account is enabled again, what `consume` and
\* `is_valid_at` find later is no better than what was there at the start.
DeadCredentialRefused ==
    \A r \in dead : pc[r] # "ok" /\ ~Row(tokens[r])
-----------------------------------------------------------------------------
(* What comments of the repository claim and the code does not do.          *)

\* exchange_refresh_token, step 5: a token from which a new one was already
\* issued has its whole chain revoked when it is presented again.
ReuseRevokesChain ==
    \A x \in reused : (\A r \in Requests : pc[r] # "burn" \/ arg[r].cred # x) =>
        \A y \in Children(x) : tokens[y].st # "live"
=============================================================================
