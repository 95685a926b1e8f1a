--------------------------- MODULE TenantRegistry ---------------------------
(***************************************************************************)
(* Tenants: the table, which the root's administrators and each tenant's   *)
(* own settings page change, and the cache through which every call at a   *)
(* tenant finds out whether the tenant may be served.                      *)
(*                                                                         *)
(* The root itself is not in the table of the model: it is nobody's child, *)
(* so no call disables or deletes it, and its calls are always served.     *)
(***************************************************************************)
EXTENDS ConsoleCalls

CONSTANTS
    Child,     \* a tenant that exists at the start
    MaxNow     \* the clock stops here (bound)

VARIABLES
    now,
    tenants,   \* tenants
    cache,     \* InMemoryTtlCache<TenantId, Tenant>
    ttl,       \* TENANT_CACHE_TTL_SECS of the running process
    stale      \* history: since when a tenant may be served that should not be

tenantVars == <<now, tenants, cache, ttl, stale>>

Children == {Child} \cup Requests
-----------------------------------------------------------------------------
Tenant == [status : {"ACTIVE", "DISABLED"}, open : BOOLEAN]

\* create_tenant: self registration is off.
NewTenant == [status |-> "ACTIVE", open |-> FALSE]

TenantInit ==
    /\ now = 0 /\ ttl = 1
    /\ tenants = [x \in Children |-> IF x = Child THEN NewTenant ELSE None]
    /\ cache = [x \in Children |-> None]
    /\ stale = [x \in Children |-> 0]

Tick == now < MaxNow /\ now' = now + 1 /\ UNCHANGED <<callVars, tenants, cache, ttl, stale>>

\* Mutant of Live: an entry is served in the instant it expires.
LiveStill(x) == cache[x] # None /\ cache[x].expires >= now

\* InMemoryTtlCache::get
Live(x) == cache[x] # None /\ cache[x].expires > now

\* What the handlers of the API do once the tenant is resolved.
FirstStep(k) ==
    CASE k = "settings" -> "get_current"
      [] k = "client_new" -> "insert_client"
      [] k \in {"client_edit", "client_rotate"} -> "load_client"
      [] k = "sp_new" -> "insert_sp"
      [] k = "sp_edit" -> "find_sp"
      [] k = "sp_delete" -> "delete_sp"

Admit(r, row) == IF row.status = "ACTIVE" THEN Keep(r, FirstStep(job[r].kind), None) ELSE Finish(r, "failed")

\* resolve_tenant: the middleware of every route below /{tenant_id}.
Resolve(r) ==
    LET x == job[r].at IN
    /\ pc[r] = "resolve"
    /\ IF Live(x) THEN Admit(r, cache[x].row) ELSE Goto(r, "find_tenant")
    /\ UNCHANGED tenantVars

\* A tenant that does not exist is not remembered.
FindTenant(r) ==
    LET row == tenants[job[r].at] IN
    /\ pc[r] = "find_tenant"
    /\ IF row = None THEN Finish(r, "failed") ELSE Keep(r, "cache_tenant", row)
    /\ UNCHANGED tenantVars

IsServable(row) == row # None /\ row.status = "ACTIVE"

\* The row may have changed since it was read.
CacheTenant(r) ==
    LET x == job[r].at
        row == job[r].row
    IN
    /\ pc[r] = "cache_tenant"
    /\ cache' = [cache EXCEPT ![x] = [row |-> row, expires |-> now + ttl]]
    /\ stale' = IF IsServable(tenants[x]) THEN stale ELSE [stale EXCEPT ![x] = now]
    /\ Admit(r, row)
    /\ UNCHANGED <<now, tenants, ttl>>
-----------------------------------------------------------------------------
\* The tenants that the console shows.
Shown == {x \in Children : tenants[x] # None}

\* The forms.
CreateTenantForm(r) == Send(r, "tenant_new", None, r, None, "provision") /\ UNCHANGED tenantVars
UpdateTenantForm(r) ==
    /\ \E x \in Shown, s \in {"ACTIVE", "DISABLED"} : Send(r, "tenant_edit", None, x, s, "load_child")
    /\ UNCHANGED tenantVars
DeleteTenantForm(r) ==
    /\ \E x \in Shown : Send(r, "tenant_delete", None, x, None, "load_child")
    /\ UNCHANGED tenantVars
SettingsForm(r) ==
    /\ \E x \in Shown, o \in {"open", "closed"} : Send(r, "settings", x, x, o, "resolve")
    /\ UNCHANGED tenantVars

\* provision: the tenant, the membership and the permission of its creator, in
\* one transaction.
Provision(r) ==
    /\ pc[r] = "provision"
    /\ tenants' = [tenants EXCEPT ![r] = NewTenant]
    /\ Finish(r, "ok")
    /\ UNCHANGED <<now, cache, ttl, stale>>

\* load_child
LoadChild(r) ==
    LET row == tenants[job[r].arg] IN
    /\ pc[r] = "load_child"
    /\ IF row = None THEN Finish(r, "failed")
       ELSE Keep(r, IF job[r].kind = "tenant_edit" THEN "update_tenant" ELSE "list_children", row)
    /\ UNCHANGED tenantVars

\* Only the root has children: its administrators alone may create tenants.
ListChildren(r) == pc[r] = "list_children" /\ Goto(r, "delete_tenant") /\ UNCHANGED tenantVars

\* get_current
GetCurrent(r) ==
    LET row == tenants[job[r].arg] IN
    /\ pc[r] = "get_current"
    /\ IF row = None THEN Finish(r, "failed") ELSE Keep(r, "update_tenant", row)
    /\ UNCHANGED tenantVars

\* update_tenant changes the status, update_current_settings the self registration.
ChangedTenant(row, j) ==
    IF j.kind = "tenant_edit" THEN [row EXCEPT !.status = j.want] ELSE [row EXCEPT !.open = (j.want = "open")]

\* Every column of the row is written, and nobody looks at the number of rows.
\* The cache keeps what it has.
UpdateTenant(r) ==
    LET x == job[r].arg
        row == ChangedTenant(job[r].row, job[r])
    IN
    /\ pc[r] = "update_tenant"
    /\ IF tenants[x] = None THEN UNCHANGED <<tenants, stale>>
       ELSE /\ tenants' = [tenants EXCEPT ![x] = row]
            /\ stale' = IF IsServable(tenants[x]) /\ ~IsServable(row) THEN [stale EXCEPT ![x] = now] ELSE stale
    /\ Finish(r, "ok")
    /\ UNCHANGED <<now, cache, ttl>>

TenantStep(r) ==
    \/ Resolve(r) \/ FindTenant(r) \/ CacheTenant(r)
    \/ CreateTenantForm(r) \/ UpdateTenantForm(r) \/ DeleteTenantForm(r) \/ SettingsForm(r)
    \/ Provision(r) \/ LoadChild(r) \/ ListChildren(r) \/ GetCurrent(r) \/ UpdateTenant(r)
=============================================================================
