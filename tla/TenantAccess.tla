---------------------------- MODULE TenantAccess ----------------------------
(***************************************************************************)
(* Who may act in a tenant: memberships and the invitation of guests,      *)
(* permissions scoped to a tenant, the in-memory cache of the decisions,   *)
(* and the check RequirePerms makes before every handler of the admin API. *)
(*                                                                         *)
(* A member of Requests is one call of a handler; an action is one SQL     *)
(* statement of it, or one access to the cache.  It also names the token   *)
(* of the invitation the call creates.  A row is a point of Key:           *)
(* <<tenant, account, permission code>>.                                   *)
(***************************************************************************)
EXTENDS Integers, FiniteSets

CONSTANTS
    Users, Tenants, Root,
    Home,        \* users.tenant_id
    Existing,    \* the accounts there are at the start
    Guests,      \* where there may be guests at the start, <<tenant, account>>
    Seeded,      \* the permissions of the members at the start
    Hosts,       \* the tenants whose admin API is called (bound)
    Requests,    \* the handler calls that may happen (bound)
    Kinds,       \* the handlers that are called
    CacheTtl,    \* permission_cache_ttl
    InviteTtl,   \* invitation_ttl
    MaxNow,      \* the clock stops here (bound)
    Faults,      \* TRUE: a statement may fail, a handler may be dropped, the process restart
    None         \* SQL NULL / Option::None

Codes == {"tenant.admin", "system.admin"}
Places == Tenants \X Users
Key == Tenants \X Users \X Codes

\* user_permissions_system_admin_scope_chk
ScopeAllowed(k) == k[3] = "system.admin" => k[1] = Root

ASSUME AccessAssumption ==
    /\ Root \in Tenants /\ Home \in [Users -> Tenants] /\ Existing \subseteq Users
    /\ Guests \subseteq {p \in Places : p[2] \in Existing /\ p[1] # Home[p[2]]}
    /\ Seeded \subseteq {k \in Key : ScopeAllowed(k)} /\ Hosts \subseteq Tenants
    /\ Kinds \subseteq {"check", "settings", "grant", "revoke", "invite", "accept", "expel", "create", "delete"}
    /\ CacheTtl \in Nat \ {0} /\ InviteTtl \in Nat \ {0} /\ MaxNow \in Nat /\ Faults \in BOOLEAN
    /\ None \notin Users \cup Tenants \cup Requests \cup Int \cup Guests /\ Requests \cap Guests = {}

VARIABLES
    now,
    users,      \* users
    members,    \* tenant_memberships
    perms,      \* user_permissions
    cache,      \* InMemoryTtlCache<PermissionKey, bool>
    pc, job,    \* where each call stands, and its locals
    raced,      \* history: keys whose row changed where the cache could not know
    stale,      \* history: when the cached decision of a key last went wrong
    joined,     \* history: the guests of the start
    overtaken,  \* history: places where a grant and an expulsion overlapped
    sysadmins   \* history: the accounts that ever held system.admin

rows == <<users, members, perms>>
history == <<raced, stale, joined, overtaken, sysadmins>>
vars == <<now, rows, cache, pc, job, history>>
-----------------------------------------------------------------------------
Member == [type : {"HOME", "GUEST"}, status : {"INVITED", "ACTIVE"},
           token : Requests \cup Guests \cup {None}, expires : Int \cup {None}]
Entry == [held : BOOLEAN, expires : Int]
Job == [kind : Kinds, actor : Users, tenant : Tenants, target : Users \cup {None},
        code : Codes \cup {None}, link : Requests \cup Guests \cup {None}, time : Int \cup {None},
        ask : Codes, system : BOOLEAN, held : BOOLEAN, touched : SUBSET Codes]

ASSUME NoneIsNoRecord == None \notin Member /\ None \notin Job

Pcs == {"new", "user", "get", "select", "put", "member", "find", "write", "invalidate", "wipe",
        "insert", "home", "activate", "remove", "delete", "ok", "failed"}
Ended == {"ok", "failed"}

\* With the constraints of the schema, and what activate promises of a row: an
\* invitation token exists only while the guest is INVITED.
TypeOK ==
    /\ now \in 0..MaxNow
    /\ users \in [Users -> {"none", "live", "deleted"}]
    /\ members \in [Places -> Member \cup {None}]
    /\ perms \subseteq Key /\ \A k \in perms : ScopeAllowed(k)
    /\ \A k \in perms : users[k[2]] = "live"
    /\ \A p \in Places : members[p] # None =>
          /\ users[p[2]] = "live"
          /\ members[p].status = "INVITED" <=> members[p].token # None
          /\ members[p].token # None <=> members[p].expires # None
    /\ DOMAIN cache \subseteq Key /\ \A k \in DOMAIN cache : cache[k] \in Entry
    /\ pc \in [Requests -> Pcs]
    /\ job \in [Requests -> Job \cup {None}]
    /\ raced \subseteq Key /\ DOMAIN stale \subseteq Key /\ \A k \in DOMAIN stale : stale[k] \in Int
    /\ joined \subseteq Guests /\ overtaken \subseteq Places /\ sysadmins \subseteq Users

\* An invitation with its token, which is named after the call that sent it, or
\* after its place if it was there from the start.
Invitation(x, time) == [type |-> "GUEST", status |-> "INVITED", token |-> x, expires |-> time + InviteTtl]

\* TenantMembership::new_home, new_active_guest
Active(type) == [type |-> type, status |-> "ACTIVE", token |-> None, expires |-> None]

Init ==
    /\ now = 0
    /\ users = [u \in Users |-> IF u \in Existing THEN "live" ELSE "none"]
    /\ joined \in SUBSET Guests
    /\ \E invited \in SUBSET (Guests \ joined) :
          members = [p \in Places |-> IF p[2] \in Existing /\ p[1] = Home[p[2]] THEN Active("HOME")
                                      ELSE IF p \in joined THEN Active("GUEST")
                                      ELSE IF p \in invited THEN Invitation(p, 0) ELSE None]
    /\ perms = {k \in Seeded : members[<<k[1], k[2]>>] \in {Active("HOME"), Active("GUEST")}}
    /\ cache = [k \in {} |-> None]
    /\ pc = [r \in Requests |-> "new"]
    /\ job = [r \in Requests |-> None]
    /\ raced = {} /\ stale = [k \in {} |-> None] /\ overtaken = {}
    /\ sysadmins = {u \in Users : <<Root, u, "system.admin">> \in perms}
-----------------------------------------------------------------------------
(* Calls begin.                                                             *)

\* Call r goes on at l with locals j.  Of a call that ended nothing is left to
\* know, but for invitations that were sent and accepted.
Become(r, l, j) ==
    /\ pc' = [pc EXCEPT ![r] = l]
    /\ job' = [job EXCEPT ![r] = IF l \notin Ended \/ (l = "ok" /\ j.kind \in {"invite", "accept"})
                                 THEN j ELSE None]

Goto(r, l) == Become(r, l, job[r])

Tick == now < MaxNow /\ now' = now + 1 /\ UNCHANGED <<rows, cache, pc, job, history>>

\* Account a calls handler k of tenant t: about account u and code c, or with
\* the token x.
Begin(r, k, a, t, u, c, x) ==
    /\ k \in Kinds /\ users[a] # "none"
    /\ Become(r, "user",
              [kind |-> k, actor |-> a, tenant |-> t, target |-> u, code |-> c, link |-> x,
               time |-> None, ask |-> IF k = "settings" THEN "system.admin" ELSE "tenant.admin",
               system |-> FALSE, held |-> FALSE, touched |-> {}])
    /\ UNCHANGED <<now, rows, cache, history>>

\* A handler behind RequirePerms<IdpAdmin> (or IdpSystemAdmin) that does not
\* touch this state, and the check of the console login.
CallProtected(r, a, t) == \E k \in {"check", "settings"} : Begin(r, k, a, t, None, None, None)

\* Handlers on an account of the tenant.
CallPermission(r, a, t, u) == \E k \in {"grant", "revoke"}, c \in Codes : Begin(r, k, a, t, u, c, None)
CallInvite(r, a, t, u) == Begin(r, "invite", a, t, u, None, None)
CallExpel(r, a, t, u) == Begin(r, "expel", a, t, u, None, None)
CallCreate(r, a, t, u) == users[u] = "none" /\ t = Home[u] /\ Begin(r, "create", a, t, u, None, None)
CallDelete(r, a, t, u) == Begin(r, "delete", a, t, u, None, None)

CallOnAccount(r, a, t, u) ==
    \/ CallPermission(r, a, t, u) \/ CallInvite(r, a, t, u) \/ CallExpel(r, a, t, u)
    \/ CallCreate(r, a, t, u) \/ CallDelete(r, a, t, u)

\* The invitations that went out: for which place, and when.
Sent == Guests \cup {x \in Requests : pc[x] = "ok" /\ job[x] # None /\ job[x].kind = "invite"}
SentFor(x) == IF x \in Guests THEN x ELSE <<job[x].tenant, job[x].target>>
SentAt(x) == IF x \in Guests THEN 0 ELSE job[x].time

\* Account a presents the token x at tenant t.
CallAccept(r, a, t, x) == Begin(r, "accept", a, t, None, None, x)

\* resolve_session_user: the session may have ended and the account may be
\* disabled (see AuthFlow, PasswordLogin); it must exist.
ResolveSessionUser(r) ==
    /\ pc[r] = "user"
    /\ \/ Goto(r, "failed")
       \/ /\ users[job[r].actor] = "live"
          /\ Goto(r, IF job[r].kind = "accept" THEN "find" ELSE "get")
    /\ UNCHANGED <<now, rows, cache, history>>
-----------------------------------------------------------------------------
(* has_permission, through the cache, for the account of the session.       *)

\* A HashMap after the insertion of v under the keys K, and after their removal.
With(f, K, v) == [k \in DOMAIN f \cup K |-> IF k \in K THEN v ELSE f[k]]
Without(f, K) == [k \in DOMAIN f \ K |-> f[k]]

Asked(r) == <<job[r].tenant, job[r].actor, job[r].ask>>

\* Mutant of Live: an entry never expires.
LiveForever(k) == k \in DOMAIN cache

\* InMemoryTtlCache::get finds the entry.
Live(k) == k \in DOMAIN cache /\ cache[k].expires > now

FirstStep(k) ==
    CASE k \in {"grant", "revoke"} -> "member"
      [] k \in {"invite", "expel"} -> "find"
      [] k = "create" -> "insert"
      [] k = "delete" -> "delete"
      [] OTHER -> "ok"

\* What follows an answer: has_any_permission asks for system.admin next, the
\* handler begins, or a grant or revocation of system.admin may be written.
Answer(r, j, held) ==
    LET again == ~held /\ ~j.system /\ j.ask = "tenant.admin" IN
    Become(r, IF again THEN "get" ELSE IF ~held THEN "failed"
              ELSE IF j.system THEN "write" ELSE FirstStep(j.kind),
           [j EXCEPT !.ask = IF again THEN "system.admin" ELSE @, !.held = FALSE])

CacheGet(r) ==
    LET k == Asked(r) IN
    /\ pc[r] = "get"
    /\ IF Live(k) THEN Answer(r, job[r], cache[k].held) /\ UNCHANGED cache
       ELSE Goto(r, "select") /\ cache' = Without(cache, {k})
    /\ UNCHANGED <<now, rows, history>>

SelectPermission(r) ==
    /\ pc[r] = "select"
    /\ Become(r, "put", [job[r] EXCEPT !.held = Asked(r) \in perms])
    /\ UNCHANGED <<now, rows, cache, history>>

CachePut(r) ==
    LET k == Asked(r) IN
    /\ pc[r] = "put"
    /\ cache' = With(cache, {k}, [held |-> job[r].held, expires |-> now + CacheTtl])
    /\ stale' = IF job[r].held = (k \in perms) THEN Without(stale, {k}) ELSE With(stale, {k}, now)
    /\ Answer(r, job[r], job[r].held)
    /\ UNCHANGED <<now, rows, raced, joined, overtaken, sysadmins>>
-----------------------------------------------------------------------------
(* Permissions.                                                             *)

\* The rows of user_permissions become P; the history notes which cached
\* decisions that makes wrong, and which of these `blind` to the cache.
SetPerms(P, blind) ==
    LET changed == (perms \ P) \cup (P \ perms) IN
    /\ perms' = P
    /\ stale' = With(stale, {k \in changed : Live(k)}, now)
    /\ raced' = raced \cup {k \in changed : blind \/ \E q \in Requests : pc[q] = "put" /\ Asked(q) = k}
    /\ sysadmins' = sysadmins \cup {u \in Users : <<Root, u, "system.admin">> \in P}

Place(r) == <<job[r].tenant, job[r].target>>

\* Calls that have found an active member and have yet to insert the permission,
\* and calls that have found a guest and have yet to remove it.
Granting(p) == {q \in Requests : /\ pc[q] \in {"get", "select", "put", "write"}
                                 /\ job[q].kind = "grant" /\ Place(q) = p
                                 /\ pc[q] = "write" \/ job[q].system}
Expelling(p) == {q \in Requests : /\ pc[q] \in {"wipe", "invalidate", "remove"}
                                  /\ job[q].kind = "expel" /\ Place(q) = p}

\* Mutant of MayChange: who may change tenant.admin may change system.admin.
MayChangeAny(j) == TRUE

\* ensure_system_admin_change_allowed has nothing to ask.
MayChange(j) == j.code # "system.admin"

\* ensure_user_in_tenant (an active membership implies the account).
CheckMember(r) ==
    LET j == job[r]
        p == Place(r)
    IN
    /\ pc[r] = "member"
    /\ IF members[p] # None /\ members[p].status = "ACTIVE"
       THEN /\ IF MayChange(j) THEN Goto(r, "write")
               ELSE Become(r, "get", [j EXCEPT !.system = TRUE, !.ask = "system.admin"])
            /\ overtaken' = IF j.kind = "grant" /\ Expelling(p) # {} THEN overtaken \cup {p} ELSE overtaken
       ELSE Goto(r, "failed") /\ UNCHANGED overtaken
    /\ UNCHANGED <<now, rows, cache, raced, stale, joined, sysadmins>>

\* INSERT, unless a foreign key or the scope constraint forbids it; or DELETE.
WritePermission(r) ==
    LET j == job[r]
        k == <<j.tenant, j.target, j.code>>
    IN
    /\ pc[r] = "write"
    /\ \/ /\ j.kind = "grant" /\ users[j.target] = "live" /\ ScopeAllowed(k)
          /\ SetPerms(perms \cup {k}, FALSE)
          /\ Become(r, "invalidate", [j EXCEPT !.touched = {j.code}])
       \/ /\ j.kind = "grant" /\ ~(users[j.target] = "live" /\ ScopeAllowed(k))
          /\ Goto(r, "failed") /\ UNCHANGED <<perms, stale, raced, sysadmins>>
       \/ /\ j.kind = "revoke"
          /\ SetPerms(perms \ {k}, FALSE)
          /\ Become(r, "invalidate", [j EXCEPT !.touched = {j.code}])
    /\ UNCHANGED <<now, users, members, cache, joined, overtaken>>

\* Mutant of Written: the cache is not told.
WrittenUnnoticed(r) == {}

\* The keys whose rows the call wrote.
Written(r) == {<<job[r].tenant, job[r].target, c>> : c \in job[r].touched}

\* Cache::invalidate of each.
Invalidate(r) ==
    /\ pc[r] = "invalidate"
    /\ cache' = Without(cache, Written(r))
    /\ Goto(r, IF job[r].kind = "expel" THEN "remove" ELSE "ok")
    /\ UNCHANGED <<now, rows, history>>
-----------------------------------------------------------------------------
(* Memberships.                                                             *)

\* create_invitation: there is the account, and no membership of any kind.
FindInvitee(r) ==
    LET p == Place(r) IN
    /\ pc[r] = "find" /\ job[r].kind = "invite"
    /\ IF users[p[2]] = "live" /\ members[p] = None
       THEN Become(r, "insert", [job[r] EXCEPT !.time = now])
       ELSE Goto(r, "failed")
    /\ UNCHANGED <<now, rows, cache, history>>

\* The INSERT fails on the primary key or on the foreign key.  The token goes
\* out by mail, or by hand when that fails.
InsertInvitation(r) ==
    LET p == Place(r) IN
    /\ pc[r] = "insert" /\ job[r].kind = "invite"
    /\ IF users[p[2]] = "live" /\ members[p] = None
       THEN /\ members' = [members EXCEPT ![p] = Invitation(r, job[r].time)]
            /\ Goto(r, "ok")
       ELSE Goto(r, "failed") /\ UNCHANGED members
    /\ UNCHANGED <<now, users, perms, cache, history>>

\* Mutant of Acceptable: the expiry is not compared.
AcceptableForever(j, p) == p[1] = j.tenant /\ p[2] = j.actor

\* The invitation is of this tenant and account, and has not expired.
Acceptable(j, p) == p[1] = j.tenant /\ p[2] = j.actor /\ members[p].expires > now

FindInvitation(r) ==
    LET j == job[r]
        found == {p \in Places : members[p] # None /\ members[p].token = j.link}
    IN
    /\ pc[r] = "find" /\ j.kind = "accept"
    /\ Become(r, IF \E p \in found : Acceptable(j, p) THEN "activate" ELSE "failed", [j EXCEPT !.time = now])
    /\ UNCHANGED <<now, rows, cache, history>>

Activated(row) == [row EXCEPT !.status = "ACTIVE", !.token = None, !.expires = None]

\* The UPDATE selects by tenant and account, not by token.
Activate(r) ==
    LET p == <<job[r].tenant, job[r].actor>> IN
    /\ pc[r] = "activate"
    /\ members' = IF members[p] = None THEN members ELSE [members EXCEPT ![p] = Activated(@)]
    /\ Goto(r, "ok")
    /\ UNCHANGED <<now, users, perms, cache, history>>

\* Mutant of AfterFind: the membership is removed first, the permissions stay.
AfterFindRemove == "remove"

\* revoke_membership withdraws the permissions before the membership.
AfterFind == "wipe"

FindGuest(r) ==
    LET p == Place(r) IN
    /\ pc[r] = "find" /\ job[r].kind = "expel"
    /\ IF members[p] # None /\ members[p].type # "HOME"
       THEN /\ Goto(r, AfterFind)
            /\ overtaken' = IF Granting(p) # {} THEN overtaken \cup {p} ELSE overtaken
       ELSE Goto(r, "failed") /\ UNCHANGED overtaken
    /\ UNCHANGED <<now, rows, cache, raced, stale, joined, sysadmins>>

\* revoke_all_for_user_in_tenant, one transaction.
RevokeAll(r) ==
    LET mine == {k \in perms : <<k[1], k[2]>> = Place(r)} IN
    /\ pc[r] = "wipe"
    /\ SetPerms(perms \ mine, FALSE)
    /\ Become(r, "invalidate", [job[r] EXCEPT !.touched = {k[3] : k \in mine}])
    /\ UNCHANGED <<now, users, members, cache, joined, overtaken>>

RemoveMember(r) ==
    /\ pc[r] = "remove"
    /\ members' = [members EXCEPT ![Place(r)] = None]
    /\ Goto(r, "ok")
    /\ UNCHANGED <<now, users, perms, cache, history>>
-----------------------------------------------------------------------------
(* Accounts.                                                                *)

\* create_user inserts the account ...
InsertUser(r) ==
    LET u == job[r].target IN
    /\ pc[r] = "insert" /\ job[r].kind = "create"
    /\ IF users[u] = "none" THEN Goto(r, "home") /\ users' = [users EXCEPT ![u] = "live"]
       ELSE Goto(r, "failed") /\ UNCHANGED users
    /\ UNCHANGED <<now, members, perms, cache, history>>

\* ... and then its HOME membership, if nothing is in its place.
InsertHome(r) ==
    LET p == Place(r) IN
    /\ pc[r] = "home"
    /\ IF users[p[2]] = "live" /\ members[p] = None
       THEN members' = [members EXCEPT ![p] = Active("HOME")] /\ Goto(r, "ok")
       ELSE Goto(r, "failed") /\ UNCHANGED members
    /\ UNCHANGED <<now, users, perms, cache, history>>

\* delete_user, of one's own tenant and not of oneself; the cascade takes rows
\* of which the cache hears nothing.
DeleteUser(r) ==
    LET j == job[r]
        u == j.target
    IN
    /\ pc[r] = "delete"
    /\ IF users[u] = "live" /\ Home[u] = j.tenant /\ u # j.actor
       THEN /\ users' = [users EXCEPT ![u] = "deleted"]
            /\ members' = [p \in Places |-> IF p[2] = u THEN None ELSE members[p]]
            /\ SetPerms({k \in perms : k[2] # u}, TRUE)
            /\ Goto(r, "ok")
       ELSE Goto(r, "failed") /\ UNCHANGED <<rows, raced, stale, sysadmins>>
    /\ UNCHANGED <<now, cache, joined, overtaken>>
-----------------------------------------------------------------------------
\* A statement fails or the connection closes.  A call that has written rows
\* then leaves the cache as it was.
CallFails(r) ==
    /\ Faults /\ pc[r] \notin Ended \cup {"new"}
    /\ Goto(r, "failed")
    /\ raced' = IF pc[r] = "invalidate" THEN raced \cup Written(r) ELSE raced
    /\ UNCHANGED <<now, rows, cache, stale, joined, overtaken, sysadmins>>

\* The process restarts with an empty cache.
Restart ==
    /\ Faults
    /\ cache' = [k \in {} |-> None]
    /\ pc' = [r \in Requests |-> IF pc[r] \in {"new", "ok"} THEN pc[r] ELSE "failed"]
    /\ job' = [r \in Requests |-> IF pc[r] = "ok" THEN job[r] ELSE None]
    /\ UNCHANGED <<now, rows, history>>

Step(r) ==
    \/ ResolveSessionUser(r) \/ CacheGet(r) \/ SelectPermission(r) \/ CachePut(r)
    \/ CheckMember(r) \/ WritePermission(r) \/ Invalidate(r)
    \/ FindInvitee(r) \/ InsertInvitation(r) \/ FindInvitation(r) \/ Activate(r)
    \/ FindGuest(r) \/ RevokeAll(r) \/ RemoveMember(r)
    \/ InsertUser(r) \/ InsertHome(r) \/ DeleteUser(r)

NewCall(r) ==
    /\ pc[r] = "new"
    /\ \E a \in Users, t \in Hosts :
          \/ CallProtected(r, a, t)
          \/ \E u \in Users : CallOnAccount(r, a, t, u)
          \/ \E x \in Sent : CallAccept(r, a, t, x)

Next ==
    \/ Tick \/ Restart
    \/ \E r \in Requests : NewCall(r) \/ Step(r) \/ CallFails(r)

Spec == Init /\ [][Next]_vars
-----------------------------------------------------------------------------
(* What the code guarantees.                                                *)

\* No stale allow or deny where the change and the check did not overlap: once
\* grant, revoke or the expulsion has come to its end, a decision in the cache
\* is that of the database.
CacheCoherent ==
    \A k \in DOMAIN cache \ raced :
        /\ Live(k)
        /\ \A q \in Requests : ~(pc[q] = "invalidate" /\ k \in Written(q))
        => cache[k].held = (k \in perms)

\* And where they did overlap, where a call was dropped between the row and the
\* cache, or the row went with its account: a wrong decision is not served for
\* longer than CacheTtl after the change, or after the end of the check that
\* had selected before it.
StaleDecisionExpires ==
    \A k \in DOMAIN cache : Live(k) /\ cache[k].held # (k \in perms) =>
        k \in DOMAIN stale /\ now < stale[k] + CacheTtl

\* system.admin comes only from accounts that have held it, however the checks
\* of several calls and the cache interleave.
SystemAdminFromSystemAdmin ==
    [][\A u \in Users : <<Root, u, "system.admin">> \in perms' \ perms =>
          \E r \in Requests : pc[r] = "write" /\ pc'[r] = "invalidate" /\ job[r].actor \in sysadmins]_vars

\* A guest takes part only after that account itself presented, at that tenant
\* and in time, the token of an invitation of this tenant for this account.
GuestHasAccepted ==
    \A p \in Places \ joined : members[p] # None /\ members[p].type = "GUEST" /\ members[p].status = "ACTIVE" =>
        \E r \in Requests :
            /\ pc[r] = "ok" /\ job[r] # None /\ job[r].kind = "accept" /\ <<job[r].tenant, job[r].actor>> = p
            /\ SentFor(job[r].link) = p /\ job[r].time < SentAt(job[r].link) + InviteTtl

\* An expulsion leaves no permissions behind, also if it stops half way, unless
\* a grant overlapped it.
PermissionNeedsMembership ==
    \A k \in perms : <<k[1], k[2]>> \notin overtaken =>
        members[<<k[1], k[2]>>] # None /\ members[<<k[1], k[2]>>].status = "ACTIVE"
=============================================================================
