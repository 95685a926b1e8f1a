------------------------- MODULE AdminConsoleProofs -------------------------
(***************************************************************************)
(* Proofs about AdminConsole: for any number of calls, any mix of forms,   *)
(* any environment the process starts with, and with failing statements    *)
(* and restarts.                                                           *)
(***************************************************************************)
EXTENDS AdminConsole, TLAPS

\* The forms that go through resolve_tenant.
AtTenant == {"settings", "client_new", "client_edit", "client_rotate", "sp_new", "sp_edit", "sp_delete"}

SmtpPlaces == {"host", "port", "username", "from_address", "use_tls", "password"}

\* The locals of a call.
Shaped(j) == j = [kind |-> j.kind, at |-> j.at, arg |-> j.arg, want |-> j.want, row |-> j.row]

\* What a call at place l has in its locals.
Local(l, j) ==
    /\ l \notin {"new", "ok", "failed"} => Shaped(j)
    /\ l \in {"resolve", "find_tenant", "cache_tenant"} => j.kind \in AtTenant
    /\ l \in {"load_child", "list_children", "delete_tenant"} => j.kind \in {"tenant_edit", "tenant_delete"}
    /\ l = "get_current" => j.kind = "settings"
    /\ l = "peek" => j.kind = "client_edit"
    /\ l = "load_client" => j.kind \in {"client_edit", "client_rotate"}
    /\ l \notin {"new", "ok", "failed"} =>
          /\ j.kind \in {"tenant_new", "tenant_edit", "tenant_delete", "settings"} => j.arg \in Children
          /\ j.kind \in {"client_new", "client_edit", "client_rotate"} => j.arg \in ClientIds
    /\ l = "upsert" => j.arg \in Keys /\ j.want \in Texts /\ Valid(j.arg, j.want)

TInv ==
    /\ pc = [r \in Requests |-> pc[r]] /\ job = [r \in Requests |-> job[r]]
    /\ \A r \in Requests : Local(pc[r], job[r])
    /\ tenants = [x \in Children |-> tenants[x]]
    /\ cache = [x \in Children |-> cache[x]]
    /\ clients = [c \in ClientIds |-> clients[c]]
    /\ smtp = [k \in SmtpPlaces |-> smtp[k]]
    /\ settings \in [Keys -> Texts]
    /\ now \in Nat /\ ttl \in Nat /\ stale \in [Children -> Nat]

\* An override is one that Config can parse, whatever the order of the saves.
SettingsInv ==
    /\ up = TRUE
    /\ \A k \in DbManaged : settings[k] = "" \/ settings[k] \in Parsed(k)

\* The cache was written now or earlier; what it holds of a tenant that must no
\* longer be served was written before that, or when it was noticed.
ExpiryInv ==
    \A x \in Children : cache[x] # None =>
        /\ cache[x].expires \in Nat /\ cache[x].expires <= now + ttl
        /\ IsServable(cache[x].row) /\ ~IsServable(tenants[x]) => cache[x].expires <= stale[x] + ttl

\* The SMTP keys that a save at place l has written.
Written(l) == CASE l = "host" -> {}
                [] l = "port" -> {"host"}
                [] l = "username" -> {"host", "port"}
                [] l = "from_address" -> {"host", "port", "username"}
                [] l = "use_tls" -> {"host", "port", "username", "from_address"}
                [] l = "password" -> {"host", "port", "username", "from_address", "use_tls"}
                [] OTHER -> {}

PlainKeys == {"host", "port", "username", "from_address", "use_tls"}

WrittenAt(l, w) == IF l = "ok" THEN PlainKeys \cup (IF w = "keep" THEN {} ELSE {"password"}) ELSE Written(l)

\* A save is under way or was answered: those before it were over and stay so,
\* and what it has written is its own or of a save that was not over then.
Saved(r) ==
    /\ saves[r].before \subseteq Requests
    /\ \A q \in saves[r].before : pc[q] \in {"ok", "failed"}
    /\ \A k \in WrittenAt(pc[r], saves[r].want) : smtp[k] # None /\ smtp[k] \notin saves[r].before

SmtpInv ==
    /\ saves = [r \in Requests |-> saves[r]]
    /\ \A r \in Requests : saves[r] # None => pc[r] \in SmtpPlaces \cup {"ok", "failed"}
    /\ \A r \in Requests : pc[r] \in SmtpPlaces => saves[r].want = job[r].want
    /\ \A r \in Requests : pc[r] \in SmtpPlaces \/ (pc[r] = "ok" /\ saves[r] # None) => Saved(r)
-----------------------------------------------------------------------------
(* How a call moves.                                                        *)

\* Call r goes to l with locals j.
Moves(r, l, j) == pc' = [pc EXCEPT ![r] = l] /\ job' = [job EXCEPT ![r] = j]

LEMMA MovesDoes ==
    ASSUME TInv, NEW r \in Requests, NEW l, NEW j, Moves(r, l, j)
    PROVE  /\ pc'[r] = l /\ job'[r] = j
           /\ \A q \in Requests : q # r => pc'[q] = pc[q] /\ job'[q] = job[q]
           /\ pc' = [q \in Requests |-> pc'[q]] /\ job' = [q \in Requests |-> job'[q]]
  <1>1. DOMAIN pc = Requests /\ DOMAIN job = Requests  BY DEF TInv
  <1>2. QED  BY <1>1 DEF Moves

LEMMA SendMoves ==
    ASSUME NEW r \in Requests, NEW k, NEW t, NEW x, NEW w, NEW l, Send(r, k, t, x, w, l)
    PROVE  LET j == [kind |-> k, at |-> t, arg |-> x, want |-> w, row |-> None] IN
           /\ pc[r] = "new" /\ Moves(r, l, j) /\ Shaped(j)
  BY DEF Send, Moves, Shaped

LEMMA GotoMoves ==
    ASSUME TInv, NEW r \in Requests, NEW l, Goto(r, l)
    PROVE  Moves(r, l, job[r])
  <1>1. job = [q \in Requests |-> job[q]]  BY DEF TInv
  <1>2. [job EXCEPT ![r] = job[r]] = job  BY <1>1
  <1>3. QED  BY <1>2 DEF Goto, Moves

LEMMA FinishMoves ==
    ASSUME NEW r \in Requests, NEW l, Finish(r, l)
    PROVE  Moves(r, l, None)
  BY DEF Finish, Moves

LEMMA KeepMoves ==
    ASSUME TInv, NEW r \in Requests, NEW l, NEW row, Keep(r, l, row), Running(r)
    PROVE  LET j == [job[r] EXCEPT !.row = row] IN
           /\ Moves(r, l, j) /\ Shaped(j) /\ j.row = row
           /\ j.kind = job[r].kind /\ j.at = job[r].at /\ j.arg = job[r].arg /\ j.want = job[r].want
  <1>1. job = [q \in Requests |-> job[q]] /\ Shaped(job[r])  BY DEF TInv, Local, Running
  <1> DEFINE j == [job[r] EXCEPT !.row = row]
  <1>2. j = [kind |-> job[r].kind, at |-> job[r].at, arg |-> job[r].arg, want |-> job[r].want, row |-> row]
    BY <1>1 DEF Shaped
  <1>3. Shaped(j) /\ j.row = row /\ j.kind = job[r].kind /\ j.at = job[r].at
        /\ j.arg = job[r].arg /\ j.want = job[r].want
    BY <1>2 DEF Shaped
  <1>4. job' = [job EXCEPT ![r] = j]
    <2>1. job' = [job EXCEPT ![r].row = row]  BY DEF Keep
    <2>2. QED  BY <1>1, <2>1
  <1>5. QED  BY <1>3, <1>4 DEF Keep, Moves
-----------------------------------------------------------------------------
(* The steps of a call, without those of the SMTP form.                     *)

Goes(r, l, j) ==
    /\ Moves(r, l, j) /\ Local(l, j)
    /\ l \notin SmtpPlaces \cup {"new"} /\ pc[r] \notin SmtpPlaces \cup {"ok", "failed"}

\* It goes anywhere.
Passes(r) == \E l, j : Goes(r, l, j)

LEMMA Answered ==
    ASSUME TInv, NEW r \in Requests, pc[r] \notin SmtpPlaces \cup {"ok", "failed"},
           NEW l \in {"ok", "failed"}, Finish(r, l)
    PROVE  Passes(r)
  <1>1. Moves(r, l, None)  BY FinishMoves
  <1>2. Local(l, None)  BY DEF Local
  <1>3. l \notin SmtpPlaces \cup {"new"}  BY DEF SmtpPlaces
  <1>4. Goes(r, l, None)  BY <1>1, <1>2, <1>3 DEF Goes
  <1>5. QED  BY <1>4 DEF Passes

\* A form is sent.
LEMMA Sends ==
    ASSUME NEW r \in Requests, NEW k, NEW t, NEW x, NEW w, NEW l, Send(r, k, t, x, w, l),
           l \notin SmtpPlaces \cup {"new"},
           Local(l, [kind |-> k, at |-> t, arg |-> x, want |-> w, row |-> None])
    PROVE  Passes(r)
  <1> DEFINE j == [kind |-> k, at |-> t, arg |-> x, want |-> w, row |-> None]
  <1>1. pc[r] = "new" /\ Moves(r, l, j)  BY SendMoves
  <1>2. pc[r] \notin SmtpPlaces \cup {"ok", "failed"}  BY <1>1 DEF SmtpPlaces
  <1>3. Goes(r, l, j)  BY <1>1, <1>2 DEF Goes
  <1> HIDE DEF j
  <1>4. QED  BY <1>3 DEF Passes

\* resolve_tenant lets the call through to its handler, or not.
LEMMA Admits ==
    ASSUME TInv, NEW r \in Requests, pc[r] \in {"resolve", "cache_tenant"}, NEW row, Admit(r, row)
    PROVE  Passes(r)
  <1>1. /\ Local(pc[r], job[r]) /\ Running(r) /\ pc[r] \notin SmtpPlaces \cup {"ok", "failed"}
    BY DEF TInv, Running, SmtpPlaces
  <1>2. CASE Finish(r, "failed")  BY <1>1, <1>2, Answered
  <1>3. CASE Keep(r, FirstStep(job[r].kind), None)
    <2> DEFINE l == FirstStep(job[r].kind)
               j == [job[r] EXCEPT !.row = None]
    <2>1. /\ Moves(r, l, j) /\ Shaped(j) /\ j.kind = job[r].kind /\ j.arg = job[r].arg
      BY <1>1, <1>3, KeepMoves
    <2>2. job[r].kind \in AtTenant  BY <1>1 DEF Local
    <2>3. /\ l \in {"get_current", "insert_client", "load_client", "insert_sp", "find_sp", "delete_sp"}
          /\ l = "get_current" => job[r].kind = "settings"
          /\ l = "load_client" => job[r].kind \in {"client_edit", "client_rotate"}
      BY <2>2 DEF AtTenant, FirstStep
    <2> HIDE DEF l, j
    <2>4. Local(l, j)  BY <1>1, <2>1, <2>3 DEF Local
    <2>5. Goes(r, l, j)  BY <1>1, <2>1, <2>3, <2>4 DEF Goes, SmtpPlaces
    <2>6. QED  BY <2>5 DEF Passes
  <1>4. QED  BY <1>2, <1>3 DEF Admit

\* The call goes on, with its locals as they are or with a row.
LEMMA PassesOn ==
    ASSUME TInv, NEW r \in Requests, Running(r), pc[r] \notin SmtpPlaces,
           NEW l \in {"find_tenant", "cache_tenant", "list_children", "delete_tenant", "resolve",
                      "update_tenant", "update_client", "update_sp", "show"},
           l \in {"resolve", "find_tenant", "cache_tenant"} => job[r].kind \in AtTenant,
           l \in {"list_children", "delete_tenant"} => job[r].kind \in {"tenant_edit", "tenant_delete"},
           NEW row, Goto(r, l) \/ Keep(r, l, row)
    PROVE  Passes(r)
  <1>1. /\ Local(pc[r], job[r]) /\ pc[r] \notin {"new", "ok", "failed"}  BY DEF TInv, Running
  <1>2. /\ l \notin SmtpPlaces \cup {"new"}
        /\ l \notin {"new", "ok", "failed", "load_child", "get_current", "load_client", "upsert"}
    BY DEF SmtpPlaces
  <1>3. CASE Keep(r, l, row)
    <2> DEFINE j == [job[r] EXCEPT !.row = row]
    <2>1. /\ Moves(r, l, j) /\ Shaped(j) /\ j.kind = job[r].kind /\ j.arg = job[r].arg /\ j.row = row
      BY <1>3, KeepMoves
    <2> HIDE DEF j
    <2>2. Local(l, j)  BY <1>1, <1>2, <2>1 DEF Local
    <2>3. Goes(r, l, j)  BY <1>1, <1>2, <2>1, <2>2 DEF Goes
    <2>4. QED  BY <2>3 DEF Passes
  <1>4. CASE Goto(r, l) /\ ~Keep(r, l, row)
    <2>1. Moves(r, l, job[r])  BY <1>4, GotoMoves
    <2>2. Local(l, job[r])  BY <1>1, <1>2 DEF Local
    <2>3. Goes(r, l, job[r])  BY <1>1, <1>2, <1>4, <2>1, <2>2 DEF Goes
    <2>4. QED  BY <2>3 DEF Passes
  <1>5. QED  BY <1>3, <1>4
-----------------------------------------------------------------------------
(* What each step does.                                                     *)

\* Nothing but the call itself, a service provider or the import changes.
Quiet == UNCHANGED <<tenantVars, clients, settingVars>>

\* It goes somewhere, and only that.
Turns(r) == Passes(r) /\ Quiet

\* The middleware.
LEMMA ResolveDoes ==
    ASSUME TInv, NEW r \in Requests, Resolve(r) PROVE Passes(r)
  <1>1. /\ pc[r] = "resolve" /\ Running(r) /\ pc[r] \notin SmtpPlaces  BY DEF Resolve, Running, SmtpPlaces
  <1>2. job[r].kind \in AtTenant  BY <1>1 DEF TInv, Local
  <1>3. CASE Admit(r, cache[job[r].at].row)  BY <1>1, <1>3, Admits
  <1>4. CASE Goto(r, "find_tenant")  BY <1>1, <1>2, <1>4, PassesOn
  <1>5. QED  BY <1>3, <1>4 DEF Resolve

LEMMA FindTenantDoes ==
    ASSUME TInv, NEW r \in Requests, FindTenant(r) PROVE Passes(r)
  <1>1. /\ pc[r] = "find_tenant" /\ Running(r) /\ pc[r] \notin SmtpPlaces \cup {"ok", "failed"}
    BY DEF FindTenant, Running, SmtpPlaces
  <1>2. job[r].kind \in AtTenant  BY <1>1 DEF TInv, Local
  <1>3. CASE Finish(r, "failed")  BY <1>1, <1>3, Answered
  <1>4. CASE Keep(r, "cache_tenant", tenants[job[r].at])  BY <1>1, <1>2, <1>4, PassesOn
  <1>5. QED  BY <1>3, <1>4 DEF FindTenant

LEMMA CacheTenantDoes ==
    ASSUME TInv, NEW r \in Requests, CacheTenant(r) PROVE Passes(r)
  BY Admits DEF CacheTenant

\* The forms of the tenants.
LEMMA TenantFormDoes ==
    ASSUME TInv, NEW r \in Requests,
           CreateTenantForm(r) \/ UpdateTenantForm(r) \/ DeleteTenantForm(r) \/ SettingsForm(r)
    PROVE  Passes(r)
  <1>1. CASE CreateTenantForm(r)
    <2>1. Send(r, "tenant_new", None, r, None, "provision")  BY <1>1 DEF CreateTenantForm
    <2>2. Local("provision", [kind |-> "tenant_new", at |-> None, arg |-> r, want |-> None, row |-> None])
      BY DEF Local, Shaped, Children
    <2>3. "provision" \notin SmtpPlaces \cup {"new"}  BY DEF SmtpPlaces
    <2>4. QED  BY <2>1, <2>2, <2>3, Sends
  <1>2. CASE UpdateTenantForm(r)
    <2>1. PICK x \in Shown, s \in {"ACTIVE", "DISABLED"} : Send(r, "tenant_edit", None, x, s, "load_child")
      BY <1>2 DEF UpdateTenantForm
    <2>2. Local("load_child", [kind |-> "tenant_edit", at |-> None, arg |-> x, want |-> s, row |-> None])
      BY DEF Local, Shaped, Shown
    <2>3. "load_child" \notin SmtpPlaces \cup {"new"}  BY DEF SmtpPlaces
    <2>4. QED  BY <2>1, <2>2, <2>3, Sends
  <1>3. CASE DeleteTenantForm(r)
    <2>1. PICK x \in Shown : Send(r, "tenant_delete", None, x, None, "load_child")  BY <1>3 DEF DeleteTenantForm
    <2>2. Local("load_child", [kind |-> "tenant_delete", at |-> None, arg |-> x, want |-> None, row |-> None])
      BY DEF Local, Shaped, Shown
    <2>3. "load_child" \notin SmtpPlaces \cup {"new"}  BY DEF SmtpPlaces
    <2>4. QED  BY <2>1, <2>2, <2>3, Sends
  <1>4. CASE SettingsForm(r)
    <2>1. PICK x \in Shown, o \in {"open", "closed"} : Send(r, "settings", x, x, o, "resolve")  BY <1>4 DEF SettingsForm
    <2>2. Local("resolve", [kind |-> "settings", at |-> x, arg |-> x, want |-> o, row |-> None])
      BY DEF Local, Shaped, Shown, AtTenant
    <2>3. "resolve" \notin SmtpPlaces \cup {"new"}  BY DEF SmtpPlaces
    <2>4. QED  BY <2>1, <2>2, <2>3, Sends
  <1>5. QED  BY <1>1, <1>2, <1>3, <1>4

LEMMA LoadChildDoes ==
    ASSUME TInv, NEW r \in Requests, LoadChild(r) PROVE Passes(r)
  <1>1. /\ pc[r] = "load_child" /\ Running(r) /\ pc[r] \notin SmtpPlaces \cup {"ok", "failed"}
    BY DEF LoadChild, Running, SmtpPlaces
  <1>2. job[r].kind \in {"tenant_edit", "tenant_delete"}  BY <1>1 DEF TInv, Local
  <1>3. CASE Finish(r, "failed")  BY <1>1, <1>3, Answered
  <1>4. CASE Keep(r, "list_children", tenants[job[r].arg])  BY <1>1, <1>2, <1>4, PassesOn
  <1>5. CASE Keep(r, "update_tenant", tenants[job[r].arg])  BY <1>1, <1>5, PassesOn
  <1>6. QED  BY <1>3, <1>4, <1>5 DEF LoadChild

LEMMA GetCurrentDoes ==
    ASSUME TInv, NEW r \in Requests, GetCurrent(r) PROVE Passes(r)
  <1>1. /\ pc[r] = "get_current" /\ Running(r) /\ pc[r] \notin SmtpPlaces \cup {"ok", "failed"}
    BY DEF GetCurrent, Running, SmtpPlaces
  <1>2. CASE Finish(r, "failed")  BY <1>1, <1>2, Answered
  <1>3. CASE Keep(r, "update_tenant", tenants[job[r].arg])  BY <1>1, <1>3, PassesOn
  <1>4. QED  BY <1>2, <1>3 DEF GetCurrent

LEMMA ListChildrenDoes ==
    ASSUME TInv, NEW r \in Requests, ListChildren(r) PROVE Passes(r)
  <1>1. /\ pc[r] = "list_children" /\ Running(r) /\ pc[r] \notin SmtpPlaces /\ Goto(r, "delete_tenant")
    BY DEF ListChildren, Running, SmtpPlaces
  <1>2. job[r].kind \in {"tenant_edit", "tenant_delete"}  BY <1>1 DEF TInv, Local
  <1>3. QED  BY <1>1, <1>2, PassesOn

\* The forms of the clients.
LEMMA ClientFormDoes ==
    ASSUME TInv, NEW r \in Requests, CreateClientForm(r) \/ EditClientForm(r) \/ RotateSecretForm(r)
    PROVE  Passes(r)
  <1>1. CASE CreateClientForm(r)
    <2>1. PICK x \in Shown, p \in {"public", "pkce", "plain"} : Send(r, "client_new", x, r, p, "resolve")
      BY <1>1 DEF CreateClientForm
    <2>2. Local("resolve", [kind |-> "client_new", at |-> x, arg |-> r, want |-> p, row |-> None])
      BY DEF Local, Shaped, ClientIds, AtTenant
    <2>3. "resolve" \notin SmtpPlaces \cup {"new"}  BY DEF SmtpPlaces
    <2>4. QED  BY <2>1, <2>2, <2>3, Sends
  <1>2. CASE EditClientForm(r)
    <2>1. PICK c \in ShownClients, s \in {"ACTIVE", "DISABLED"} :
             Send(r, "client_edit", clients[c].tenant, c, s, "peek")
      BY <1>2 DEF EditClientForm
    <2>2. Local("peek", [kind |-> "client_edit", at |-> clients[c].tenant, arg |-> c, want |-> s, row |-> None])
      BY DEF Local, Shaped, ShownClients
    <2>3. "peek" \notin SmtpPlaces \cup {"new"}  BY DEF SmtpPlaces
    <2>4. QED  BY <2>1, <2>2, <2>3, Sends
  <1>3. CASE RotateSecretForm(r)
    <2>1. PICK c \in ShownClients : Send(r, "client_rotate", clients[c].tenant, c, None, "resolve")
      BY <1>3 DEF RotateSecretForm
    <2>2. Local("resolve", [kind |-> "client_rotate", at |-> clients[c].tenant, arg |-> c, want |-> None, row |-> None])
      BY DEF Local, Shaped, ShownClients, AtTenant
    <2>3. "resolve" \notin SmtpPlaces \cup {"new"}  BY DEF SmtpPlaces
    <2>4. QED  BY <2>1, <2>2, <2>3, Sends
  <1>4. QED  BY <1>1, <1>2, <1>3

\* The forms of the service providers, and what they come to.
LEMMA SpDoes ==
    ASSUME TInv, NEW r \in Requests, SpStep(r) PROVE Passes(r)
  <1> DEFINE Out == SmtpPlaces \cup {"new"}
  <1>0. "resolve" \notin Out  BY DEF SmtpPlaces
  <1>1. CASE RegisterSpForm(r)
    <2>1. PICK x \in Shown, e \in Entities : Send(r, "sp_new", x, r, e, "resolve")  BY <1>1 DEF RegisterSpForm
    <2>2. Local("resolve", [kind |-> "sp_new", at |-> x, arg |-> r, want |-> e, row |-> None])
      BY DEF Local, Shaped, AtTenant
    <2>3. QED  BY <1>0, <2>1, <2>2, Sends
  <1>2. CASE EditSpForm(r)
    <2>1. PICK p \in ShownSps, e \in Entities : Send(r, "sp_edit", sps[p].tenant, p, e, "resolve")
      BY <1>2 DEF EditSpForm
    <2>2. Local("resolve", [kind |-> "sp_edit", at |-> sps[p].tenant, arg |-> p, want |-> e, row |-> None])
      BY DEF Local, Shaped, AtTenant
    <2>3. QED  BY <1>0, <2>1, <2>2, Sends
  <1>3. CASE DeleteSpForm(r)
    <2>1. PICK p \in ShownSps : Send(r, "sp_delete", sps[p].tenant, p, None, "resolve")  BY <1>3 DEF DeleteSpForm
    <2>2. Local("resolve", [kind |-> "sp_delete", at |-> sps[p].tenant, arg |-> p, want |-> None, row |-> None])
      BY DEF Local, Shaped, AtTenant
    <2>3. QED  BY <1>0, <2>1, <2>2, Sends
  <1>4. CASE /\ pc[r] \in {"insert_sp", "find_sp", "update_sp", "delete_sp"}
             /\ Finish(r, "ok") \/ Finish(r, "failed")
    BY <1>4, Answered DEF SmtpPlaces
  <1>5. CASE pc[r] = "find_sp" /\ Keep(r, "update_sp", sps[job[r].arg])
    <2>1. Running(r) /\ pc[r] \notin SmtpPlaces  BY <1>5 DEF Running, SmtpPlaces
    <2>2. QED  BY <1>5, <2>1, PassesOn
  <1>6. InsertSp(r) \/ UpdateSp(r) \/ DeleteSp(r) => Passes(r)
    BY <1>4 DEF InsertSp, UpdateSp, DeleteSp
  <1>7. FindSp(r) => Passes(r)  BY <1>4, <1>5 DEF FindSp
  <1>8. QED  BY <1>1, <1>2, <1>3, <1>6, <1>7 DEF SpStep

LEMMA PeekDoes ==
    ASSUME TInv, NEW r \in Requests, Peek(r) PROVE Passes(r)
  <1>1. /\ pc[r] = "peek" /\ Running(r) /\ pc[r] \notin SmtpPlaces /\ pc[r] \notin SmtpPlaces \cup {"ok", "failed"}
    BY DEF Peek, Running, SmtpPlaces
  <1>2. CASE Finish(r, "failed")  BY <1>1, <1>2, Answered
  <1>3. CASE Goto(r, "resolve")
    <2>1. job[r].kind \in AtTenant  BY <1>1 DEF TInv, Local, AtTenant
    <2>2. QED  BY <1>1, <1>3, <2>1, PassesOn
  <1>4. QED  BY <1>2, <1>3 DEF Peek

LEMMA LoadClientDoes ==
    ASSUME TInv, NEW r \in Requests, LoadClient(r) PROVE Passes(r)
  <1>1. /\ pc[r] = "load_client" /\ Running(r) /\ pc[r] \notin SmtpPlaces \cup {"ok", "failed"}
    BY DEF LoadClient, Running, SmtpPlaces
  <1>2. CASE Finish(r, "failed")  BY <1>1, <1>2, Answered
  <1>3. CASE Keep(r, "update_client", Selected(job[r].arg, job[r].at))  BY <1>1, <1>3, PassesOn
  <1>4. QED  BY <1>2, <1>3 DEF LoadClient

LEMMA ShowSecretDoes ==
    ASSUME TInv, NEW r \in Requests, ShowSecret(r) PROVE Passes(r)
  BY Answered DEF ShowSecret, SmtpPlaces

LEMMA RuntimeFormDoes ==
    ASSUME TInv, NEW r \in Requests, RuntimeForm(r) PROVE Passes(r)
  <1>1. PICK k \in Keys, v \in Texts : Send(r, "runtime", None, k, v, IF Valid(k, v) THEN "upsert" ELSE "failed")
    BY DEF RuntimeForm
  <1> DEFINE j == [kind |-> "runtime", at |-> None, arg |-> k, want |-> v, row |-> None]
  <1>2. Valid(k, v) => Local("upsert", j)  BY DEF Local, Shaped
  <1>3. Local("failed", j)  BY DEF Local
  <1>4. "upsert" \notin SmtpPlaces \cup {"new"}
        /\ "failed" \notin SmtpPlaces \cup {"new"}
    BY DEF SmtpPlaces
  <1>5. CASE Valid(k, v)
    <2>1. Send(r, "runtime", None, k, v, "upsert")  BY <1>1, <1>5
    <2>2. QED  BY <1>2, <1>4, <1>5, <2>1, Sends
  <1>6. CASE ~Valid(k, v)
    <2>1. Send(r, "runtime", None, k, v, "failed")  BY <1>1, <1>6
    <2>2. QED  BY <1>3, <1>4, <2>1, Sends
  <1>7. QED  BY <1>5, <1>6

\* The statements that write.
LEMMA WriteDoes ==
    ASSUME TInv, NEW r \in Requests,
           Provision(r) \/ UpdateTenant(r) \/ InsertClient(r) \/ UpdateClient(r) \/ DeleteTenant(r) \/ UpsertSetting(r)
    PROVE  Passes(r)
  <1>1. pc[r] \in {"provision", "update_tenant", "insert_client", "update_client", "delete_tenant", "upsert"}
    BY DEF Provision, UpdateTenant, InsertClient, UpdateClient, DeleteTenant, UpsertSetting
  <1>2. Running(r) /\ pc[r] \notin SmtpPlaces /\ pc[r] \notin SmtpPlaces \cup {"ok", "failed"}  BY <1>1 DEF Running, SmtpPlaces
  <1>3. CASE Finish(r, "ok") \/ Finish(r, "failed")  BY <1>2, <1>3, Answered
  <1>4. CASE Goto(r, "show")  BY <1>2, <1>4, PassesOn
  <1>5. QED  BY <1>3, <1>4 DEF Provision, UpdateTenant, InsertClient, UpdateClient, DeleteTenant, UpsertSetting

\* The steps of a call by what they do to the rows, the cache and the settings.
Writes(r) ==
    \/ CacheTenant(r) /\ UNCHANGED <<clients, settingVars>>
    \/ Provision(r) /\ UNCHANGED <<clients, settingVars>>
    \/ UpdateTenant(r) /\ UNCHANGED <<clients, settingVars>>
    \/ InsertClient(r) /\ UNCHANGED settingVars
    \/ UpdateClient(r) /\ UNCHANGED settingVars
    \/ DeleteTenant(r)
    \/ UpsertSetting(r) /\ UNCHANGED <<tenantVars, clients>>

Saves(r) == (SmtpForm(r) \/ UpsertKey(r) \/ UpsertPassword(r)) /\ UNCHANGED <<tenantVars, clients>>

LEMMA WritesDoes ==
    ASSUME TInv, NEW r \in Requests, Writes(r) PROVE Passes(r)
  BY WriteDoes, CacheTenantDoes DEF Writes

LEMMA NextSteps ==
    ASSUME TInv, [Next]_vars
    PROVE  \/ \E r \in Requests : Turns(r) \/ Writes(r) \/ Saves(r) \/ CallFails(r)
           \/ Restart
           \/ Tick /\ UNCHANGED <<clients, settingVars>>
           \/ UNCHANGED callVars /\ Quiet
  <1>1. ASSUME NEW r \in Requests, TenantStep(r), UNCHANGED <<clients, settingVars>>
        PROVE  Turns(r) \/ Writes(r)
    <2>1. CASE Resolve(r)
      <3>1. Quiet  BY <1>1, <2>1 DEF Resolve, Quiet
      <3>2. QED  BY <2>1, <3>1, ResolveDoes DEF Turns
    <2>2. CASE FindTenant(r)
      <3>1. Quiet  BY <1>1, <2>2 DEF FindTenant, Quiet
      <3>2. QED  BY <2>2, <3>1, FindTenantDoes DEF Turns
    <2>3. CASE CreateTenantForm(r) \/ UpdateTenantForm(r) \/ DeleteTenantForm(r) \/ SettingsForm(r)
      <3>1. Quiet
        BY <1>1, <2>3 DEF CreateTenantForm, UpdateTenantForm, DeleteTenantForm, SettingsForm, Quiet
      <3>2. QED  BY <2>3, <3>1, TenantFormDoes DEF Turns
    <2>4. CASE LoadChild(r)
      <3>1. Quiet  BY <1>1, <2>4 DEF LoadChild, Quiet
      <3>2. QED  BY <2>4, <3>1, LoadChildDoes DEF Turns
    <2>5. CASE GetCurrent(r)
      <3>1. Quiet  BY <1>1, <2>5 DEF GetCurrent, Quiet
      <3>2. QED  BY <2>5, <3>1, GetCurrentDoes DEF Turns
    <2>6. CASE ListChildren(r)
      <3>1. Quiet  BY <1>1, <2>6 DEF ListChildren, Quiet
      <3>2. QED  BY <2>6, <3>1, ListChildrenDoes DEF Turns
    <2>7. CASE CacheTenant(r) \/ Provision(r) \/ UpdateTenant(r)  BY <1>1, <2>7 DEF Writes
    <2>8. QED  BY <1>1, <2>1, <2>2, <2>3, <2>4, <2>5, <2>6, <2>7 DEF TenantStep
  <1>2. ASSUME NEW r \in Requests, ClientStep(r), UNCHANGED settingVars
        PROVE  Turns(r) \/ Writes(r)
    <2>1. CASE CreateClientForm(r) \/ EditClientForm(r) \/ RotateSecretForm(r)
      <3>1. Quiet  BY <1>2, <2>1 DEF CreateClientForm, EditClientForm, RotateSecretForm, Quiet
      <3>2. QED  BY <2>1, <3>1, ClientFormDoes DEF Turns
    <2>2. CASE Peek(r)
      <3>1. Quiet  BY <1>2, <2>2 DEF Peek, Quiet
      <3>2. QED  BY <2>2, <3>1, PeekDoes DEF Turns
    <2>3. CASE LoadClient(r)
      <3>1. Quiet  BY <1>2, <2>3 DEF LoadClient, Quiet
      <3>2. QED  BY <2>3, <3>1, LoadClientDoes DEF Turns
    <2>4. CASE ShowSecret(r)
      <3>1. Quiet  BY <1>2, <2>4 DEF ShowSecret, Quiet
      <3>2. QED  BY <2>4, <3>1, ShowSecretDoes DEF Turns
    <2>5. CASE InsertClient(r) \/ UpdateClient(r)  BY <1>2, <2>5 DEF Writes
    <2>6. QED  BY <1>2, <2>1, <2>2, <2>3, <2>4, <2>5 DEF ClientStep
  <1>3. ASSUME NEW r \in Requests, SpStep(r), UNCHANGED <<clients, settingVars>>
        PROVE  Turns(r)
    <2>1. UNCHANGED tenantVars
      BY <1>3 DEF SpStep, RegisterSpForm, EditSpForm, DeleteSpForm, InsertSp, FindSp, UpdateSp, DeleteSp
    <2>2. QED  BY <1>3, <2>1, SpDoes DEF Turns, Quiet
  <1>4. ASSUME NEW r \in Requests, SettingsStep(r), UNCHANGED <<tenantVars, clients>>
        PROVE  Turns(r) \/ Writes(r) \/ Saves(r)
    <2>1. CASE RuntimeForm(r)
      <3>1. Quiet  BY <1>4, <2>1 DEF RuntimeForm, Quiet
      <3>2. QED  BY <2>1, <3>1, RuntimeFormDoes DEF Turns
    <2>2. CASE UpsertSetting(r)  BY <1>4, <2>2 DEF Writes
    <2>3. CASE SmtpForm(r) \/ UpsertKey(r) \/ UpsertPassword(r)  BY <1>4, <2>3 DEF Saves
    <2>4. QED  BY <1>4, <2>1, <2>2, <2>3 DEF SettingsStep
  <1>5. ASSUME NEW r \in Requests, DeleteTenant(r) PROVE Writes(r)  BY <1>5 DEF Writes
  <1>6. ImportMetadata => UNCHANGED callVars /\ Quiet  BY DEF ImportMetadata, Quiet
  <1>7. UNCHANGED vars => UNCHANGED callVars /\ Quiet  BY DEF vars, Quiet
  <1>8. QED  BY <1>1, <1>2, <1>3, <1>4, <1>5, <1>6, <1>7 DEF Next
-----------------------------------------------------------------------------
(* The shapes.                                                              *)

CallShape ==
    /\ pc = [r \in Requests |-> pc[r]] /\ job = [r \in Requests |-> job[r]]
    /\ \A r \in Requests : Local(pc[r], job[r])

RowShape ==
    /\ tenants = [x \in Children |-> tenants[x]]
    /\ cache = [x \in Children |-> cache[x]]
    /\ clients = [c \in ClientIds |-> clients[c]]
    /\ now \in Nat /\ ttl \in Nat /\ stale \in [Children -> Nat]

SettingShape ==
    /\ smtp = [k \in SmtpPlaces |-> smtp[k]]
    /\ settings \in [Keys -> Texts]

LEMMA TInvParts == TInv <=> CallShape /\ RowShape /\ SettingShape
  BY DEF TInv, CallShape, RowShape, SettingShape

LEMMA MovesShape ==
    ASSUME TInv, NEW r \in Requests, NEW l, NEW j, Moves(r, l, j), Local(l, j)
    PROVE  CallShape'
  <1>1. /\ pc'[r] = l /\ job'[r] = j
        /\ \A q \in Requests : q # r => pc'[q] = pc[q] /\ job'[q] = job[q]
        /\ pc' = [q \in Requests |-> pc'[q]] /\ job' = [q \in Requests |-> job'[q]]
    BY MovesDoes
  <1>2. \A q \in Requests : Local(pc[q], job[q])  BY DEF TInv
  <1>3. ASSUME NEW q \in Requests PROVE Local(pc'[q], job'[q])
    <2>1. CASE q = r  BY <1>1, <2>1
    <2>2. CASE q # r
      <3>1. Local(pc[q], job[q]) /\ pc'[q] = pc[q] /\ job'[q] = job[q]  BY <1>1, <1>2, <2>2
      <3>2. QED  BY <3>1
    <2>3. QED  BY <2>1, <2>2
  <1>4. QED  BY <1>1, <1>3 DEF CallShape

LEMMA PassesShape ==
    ASSUME TInv, NEW r \in Requests, Passes(r) PROVE CallShape'
  <1>1. PICK l, j : Goes(r, l, j)  BY DEF Passes
  <1>2. QED  BY <1>1, MovesShape DEF Goes

\* A step of an SMTP save, from key to key.
NextKey(l) == CASE l = "host" -> "port" [] l = "port" -> "username" [] l = "username" -> "from_address"
                [] l = "from_address" -> "use_tls"

LEMMA UpsertKeyDoes ==
    ASSUME TInv, NEW r \in Requests, UpsertKey(r)
    PROVE  /\ pc[r] \in PlainKeys /\ smtp' = [smtp EXCEPT ![pc[r]] = r]
           /\ \/ pc[r] # "use_tls" /\ Moves(r, NextKey(pc[r]), job[r])
              \/ pc[r] = "use_tls" /\ job[r].want # "keep" /\ Moves(r, "password", job[r])
              \/ pc[r] = "use_tls" /\ job[r].want = "keep" /\ Moves(r, "ok", None)
  <1>1. PICK i \in DOMAIN SmtpKeys :
          LET l == AfterKey(i, job[r].want) IN
          /\ pc[r] = SmtpKeys[i]
          /\ smtp' = [smtp EXCEPT ![SmtpKeys[i]] = r]
          /\ IF l = "ok" THEN Finish(r, l) ELSE Goto(r, l)
    BY DEF UpsertKey
  <1>2. /\ DOMAIN SmtpKeys = {1, 2, 3, 4, 5} /\ Len(SmtpKeys) = 5
        /\ SmtpKeys[1] = "host" /\ SmtpKeys[2] = "port" /\ SmtpKeys[3] = "username"
        /\ SmtpKeys[4] = "from_address" /\ SmtpKeys[5] = "use_tls"
    BY DEF SmtpKeys
  <1>3. i \in {1, 2, 3, 4, 5}  BY <1>2
  <1>4. ASSUME NEW l, Goto(r, l) PROVE Moves(r, l, job[r])  BY <1>4, GotoMoves
  <1>5. ASSUME NEW l, Finish(r, l) PROVE Moves(r, l, None)  BY <1>5, FinishMoves
  <1>6. CASE i # 5
    <2>1. /\ AfterKey(i, job[r].want) = NextKey(pc[r]) /\ AfterKey(i, job[r].want) # "ok"
          /\ pc[r] \in PlainKeys /\ pc[r] # "use_tls"
      BY <1>1, <1>2, <1>3, <1>6 DEF AfterKey, NextKey, PlainKeys
    <2>2. QED  BY <1>1, <1>4, <2>1
  <1>7. CASE i = 5
    <2>1. /\ AfterKey(i, job[r].want) = IF job[r].want = "keep" THEN "ok" ELSE "password"
          /\ pc[r] \in PlainKeys /\ pc[r] = "use_tls"
      BY <1>1, <1>2, <1>7 DEF AfterKey, PlainKeys
    <2>2. CASE job[r].want = "keep"  BY <1>1, <1>5, <2>1, <2>2
    <2>3. CASE job[r].want # "keep"  BY <1>1, <1>4, <2>1, <2>3
    <2>4. QED  BY <2>2, <2>3
  <1>8. QED  BY <1>6, <1>7

LEMMA SmtpFormDoes ==
    ASSUME TInv, NEW r \in Requests, SmtpForm(r)
    PROVE  \E j : /\ pc[r] = "new" /\ Moves(r, "host", j) /\ Local("host", j)
                  /\ UNCHANGED <<settings, smtp, up>>
                  /\ saves' = [saves EXCEPT ![r] = [want |-> j.want, before |-> {q \in Requests : pc[q] \in {"ok", "failed"}}]]
  <1>1. SmtpKeys[1] = "host"  BY DEF SmtpKeys
  <1>2. PICK w : /\ Send(r, "smtp", None, None, w, "host")
                 /\ saves' = [saves EXCEPT ![r] = [want |-> w, before |-> {q \in Requests : pc[q] \in {"ok", "failed"}}]]
    BY <1>1 DEF SmtpForm
  <1> DEFINE j == [kind |-> "smtp", at |-> None, arg |-> None, want |-> w, row |-> None]
  <1>3. pc[r] = "new" /\ Moves(r, "host", j)  BY <1>2, SendMoves
  <1>4. Local("host", j) /\ j.want = w  BY DEF Local, Shaped
  <1> HIDE DEF j
  <1>5. QED  BY <1>2, <1>3, <1>4 DEF SmtpForm

LEMMA SavesShape ==
    ASSUME TInv, NEW r \in Requests, Saves(r) PROVE CallShape' /\ SettingShape'
  <1>1. /\ Local(pc[r], job[r]) /\ smtp = [k \in SmtpPlaces |-> smtp[k]] /\ settings \in [Keys -> Texts]
    BY DEF TInv
  <1>2. ASSUME NEW l \in SmtpPlaces, pc[r] \in SmtpPlaces PROVE Local(l, job[r])
    BY <1>1, <1>2 DEF Local, SmtpPlaces
  <1>3. Local("ok", None)  BY DEF Local
  <1>4. CASE SmtpForm(r)
    <2>1. PICK j : /\ Moves(r, "host", j) /\ Local("host", j) /\ UNCHANGED <<settings, smtp>>
      BY <1>4, SmtpFormDoes
    <2>2. SettingShape'  BY <1>1, <2>1 DEF SettingShape
    <2>3. QED  BY <2>1, <2>2, MovesShape
  <1>5. CASE UpsertKey(r)
    <2>1. settings' = settings /\ smtp' = [smtp EXCEPT ![pc[r]] = r] /\ pc[r] \in PlainKeys
      BY <1>5, UpsertKeyDoes DEF UpsertKey
    <2>2. SettingShape'  BY <1>1, <2>1 DEF SettingShape
    <2>3. pc[r] \in SmtpPlaces /\ (pc[r] # "use_tls" => NextKey(pc[r]) \in SmtpPlaces) /\ "password" \in SmtpPlaces
      BY <2>1 DEF PlainKeys, SmtpPlaces, NextKey
    <2>4. CASE pc[r] # "use_tls" /\ Moves(r, NextKey(pc[r]), job[r])  BY <1>2, <2>2, <2>3, <2>4, MovesShape
    <2>5. CASE Moves(r, "password", job[r])  BY <1>2, <2>2, <2>3, <2>5, MovesShape
    <2>6. CASE Moves(r, "ok", None)  BY <1>3, <2>2, <2>6, MovesShape
    <2>7. QED  BY <1>5, <2>4, <2>5, <2>6, UpsertKeyDoes
  <1>6. CASE UpsertPassword(r)
    <2>1. PICK p : settings' = settings /\ smtp' = [smtp EXCEPT !["password"] = p] /\ Finish(r, "ok")
      BY <1>6 DEF UpsertPassword
    <2>2. SettingShape'  BY <1>1, <2>1 DEF SettingShape
    <2>3. QED  BY <1>3, <2>1, <2>2, MovesShape, FinishMoves
  <1>7. QED  BY <1>4, <1>5, <1>6 DEF Saves

\* A write to one row keeps the shape of the tables.
LEMMA WritesShape ==
    ASSUME TInv, NEW r \in Requests, Writes(r) PROVE RowShape' /\ SettingShape'
  <1>1. RowShape /\ SettingShape  BY TInvParts
  <1>2. CASE CacheTenant(r) /\ UNCHANGED <<clients, settingVars>>
    <2>1. PICK x, e : cache' = [cache EXCEPT ![x] = e]  BY <1>2 DEF CacheTenant
    <2>2. PICK y : stale' = stale \/ stale' = [stale EXCEPT ![y] = now]  BY <1>2 DEF CacheTenant
    <2>3. stale' \in [Children -> Nat]  BY <1>1, <2>2 DEF RowShape
    <2>4. cache' = [z \in Children |-> cache'[z]]  BY <1>1, <2>1 DEF RowShape
    <2>5. UNCHANGED <<now, tenants, ttl, clients, smtp, settings>>
      BY <1>2 DEF CacheTenant, settingVars
    <2>6. QED  BY <1>1, <2>3, <2>4, <2>5 DEF RowShape, SettingShape
  <1>3. CASE Provision(r) /\ UNCHANGED <<clients, settingVars>>
    <2>1. tenants' = [tenants EXCEPT ![r] = NewTenant]
      BY <1>3 DEF Provision
    <2>2. tenants' = [x \in Children |-> tenants'[x]]  BY <1>1, <2>1 DEF RowShape
    <2>4. UNCHANGED <<now, cache, ttl, stale, clients, smtp, settings>>  BY <1>3 DEF Provision, settingVars
    <2>5. QED  BY <1>1, <2>2, <2>4 DEF RowShape, SettingShape
  <1>4. CASE UpdateTenant(r) /\ UNCHANGED <<clients, settingVars>>
    <2>1. PICK x, row : tenants' = tenants \/ tenants' = [tenants EXCEPT ![x] = row]
      BY <1>4 DEF UpdateTenant
    <2>2. PICK y : stale' = stale \/ stale' = [stale EXCEPT ![y] = now]  BY <1>4 DEF UpdateTenant
    <2>3. stale' \in [Children -> Nat]  BY <1>1, <2>2 DEF RowShape
    <2>4. tenants' = [z \in Children |-> tenants'[z]]  BY <1>1, <2>1 DEF RowShape
    <2>6. UNCHANGED <<now, cache, ttl, clients, smtp, settings>>  BY <1>4 DEF UpdateTenant, settingVars
    <2>7. QED  BY <1>1, <2>3, <2>4, <2>6 DEF RowShape, SettingShape
  <1>5. CASE (InsertClient(r) \/ UpdateClient(r)) /\ UNCHANGED settingVars
    <2>1. PICK c, row : clients' = clients \/ clients' = [clients EXCEPT ![c] = row]
      <3>1. CASE InsertClient(r)  BY <3>1 DEF InsertClient
      <3>2. CASE UpdateClient(r)  BY <3>2 DEF UpdateClient
      <3>3. QED  BY <1>5, <3>1, <3>2
    <2>2. clients' = [z \in ClientIds |-> clients'[z]]  BY <1>1, <2>1 DEF RowShape
    <2>4. UNCHANGED <<now, tenants, cache, ttl, stale, smtp, settings>>
      BY <1>5 DEF InsertClient, UpdateClient, tenantVars, settingVars
    <2>5. QED  BY <1>1, <2>2, <2>4 DEF RowShape, SettingShape
  <1>6. CASE DeleteTenant(r)
    <2>1. PICK x : tenants' = tenants \/ tenants' = [tenants EXCEPT ![x] = None]  BY <1>6 DEF DeleteTenant
    <2>2. PICK y : stale' = stale \/ stale' = [stale EXCEPT ![y] = now]  BY <1>6 DEF DeleteTenant
    <2>3. stale' \in [Children -> Nat]  BY <1>1, <2>2 DEF RowShape
    <2>4. tenants' = [z \in Children |-> tenants'[z]]  BY <1>1, <2>1 DEF RowShape
    <2>5. UNCHANGED <<now, cache, ttl, clients, smtp, settings>>  BY <1>6 DEF DeleteTenant, settingVars
    <2>6. QED  BY <1>1, <2>3, <2>4, <2>5 DEF RowShape, SettingShape
  <1>7. CASE UpsertSetting(r) /\ UNCHANGED <<tenantVars, clients>>
    <2>1. pc[r] = "upsert" /\ settings' = [settings EXCEPT ![job[r].arg] = job[r].want] /\ smtp' = smtp
      BY <1>7 DEF UpsertSetting
    <2>2. job[r].arg \in Keys /\ job[r].want \in Texts  BY <2>1 DEF TInv, Local
    <2>3. SettingShape'  BY <1>1, <2>1, <2>2 DEF SettingShape
    <2>4. RowShape'  BY <1>1, <1>7 DEF RowShape, tenantVars
    <2>5. QED  BY <2>3, <2>4
  <1>8. QED  BY <1>2, <1>3, <1>4, <1>5, <1>6, <1>7 DEF Writes

LEMMA InitTInv == Init => TInv
  <1> SUFFICES ASSUME Init PROVE TInv
    OBVIOUS
  <1>1. CallShape  BY DEF Init, CallInit, CallShape, Local
  <1>2. PICK row : clients = [c \in ClientIds |-> IF c = Client THEN row ELSE None]  BY DEF Init, ClientInit
  <1>3. RowShape
    <2>1. clients = [c \in ClientIds |-> clients[c]]  BY <1>2
    <2>2. QED  BY <2>1 DEF Init, TenantInit, RowShape
  <1>4. SettingShape  BY DEF Init, SettingsInit, SettingShape, SmtpPlaces, Texts
  <1>5. QED  BY <1>1, <1>3, <1>4, TInvParts

LEMMA NextTInv == TInv /\ [Next]_vars => TInv'
  <1> SUFFICES ASSUME TInv, [Next]_vars PROVE TInv'
    OBVIOUS
  <1>1. CallShape /\ RowShape /\ SettingShape  BY TInvParts
  <1>2. Quiet => RowShape' /\ SettingShape'
    BY <1>1 DEF Quiet, RowShape, SettingShape, tenantVars, settingVars
  <1>3. ASSUME NEW r \in Requests, Turns(r) PROVE TInv'
    <2>1. CallShape'  BY <1>3, PassesShape DEF Turns
    <2>2. Quiet  BY <1>3 DEF Turns
    <2>3. QED  BY <1>2, <2>1, <2>2 DEF TInv, CallShape, RowShape, SettingShape
  <1>4. ASSUME NEW r \in Requests, Writes(r) PROVE TInv'
    <2>1. CallShape'  BY <1>4, WritesDoes, PassesShape
    <2>2. RowShape' /\ SettingShape'  BY <1>4, WritesShape
    <2>3. QED  BY <2>1, <2>2 DEF TInv, CallShape, RowShape, SettingShape
  <1>5. ASSUME NEW r \in Requests, Saves(r) PROVE TInv'
    <2>1. CallShape' /\ SettingShape'  BY <1>5, SavesShape
    <2>2. RowShape'  BY <1>1, <1>5 DEF Saves, RowShape, tenantVars
    <2>3. QED  BY <2>1, <2>2 DEF TInv, CallShape, RowShape, SettingShape
  <1>6. ASSUME NEW r \in Requests, CallFails(r) PROVE TInv'
    <2>1. Moves(r, "failed", None) /\ Local("failed", None)
      BY <1>6, FinishMoves DEF CallFails, Local
    <2>2. CallShape'  BY <2>1, MovesShape
    <2>3. RowShape' /\ SettingShape'  BY <1>1, <1>6 DEF CallFails, RowShape, SettingShape, tenantVars, settingVars
    <2>4. QED  BY <2>2, <2>3 DEF TInv, CallShape, RowShape, SettingShape
  <1>7. CASE Restart
    <2>1. CallShape'
      <3>1. pc' = [r \in Requests |-> IF Running(r) THEN "failed" ELSE pc[r]] /\ job' = [r \in Requests |-> None]
        BY <1>7 DEF Restart
      <3>2. \A r \in Requests : pc'[r] \in {"new", "ok", "failed"} /\ job'[r] = None  BY <3>1 DEF Running
      <3>3. ASSUME NEW r \in Requests PROVE Local(pc'[r], job'[r])
        <4>1. pc'[r] \in {"new", "ok", "failed"}  BY <3>2
        <4>2. QED  BY <4>1 DEF Local
      <3>4. QED  BY <3>1, <3>3 DEF CallShape
    <2>2. ttl' \in Nat
      <3>1. ttl' = ttl \/ ttl' = 2 \/ ttl' = 1  BY <1>7 DEF Restart
      <3>2. QED  BY <1>1, <3>1 DEF RowShape
    <2>3. RowShape'
      <3>1. cache' = [x \in Children |-> None] /\ UNCHANGED <<now, tenants, stale, clients>>
        BY <1>7 DEF Restart
      <3>2. cache' = [x \in Children |-> cache'[x]]  BY <3>1
      <3>3. QED  BY <1>1, <2>2, <3>1, <3>2 DEF RowShape
    <2>4. SettingShape'  BY <1>1, <1>7 DEF Restart, SettingShape
    <2>5. QED  BY <2>1, <2>3, <2>4 DEF TInv, CallShape, RowShape, SettingShape
  <1>8. CASE Tick /\ UNCHANGED <<clients, settingVars>>
    <2>1. CallShape'  BY <1>1, <1>8 DEF Tick, CallShape, callVars
    <2>2. RowShape' /\ SettingShape'  BY <1>1, <1>8 DEF Tick, RowShape, SettingShape, settingVars
    <2>3. QED  BY <2>1, <2>2 DEF TInv, CallShape, RowShape, SettingShape
  <1>9. CASE UNCHANGED callVars /\ Quiet
    <2>1. CallShape'  BY <1>1, <1>9 DEF CallShape, callVars
    <2>2. QED  BY <1>2, <1>9, <2>1 DEF TInv, CallShape, RowShape, SettingShape
  <1>10. QED  BY <1>3, <1>4, <1>5, <1>6, <1>7, <1>8, <1>9, NextSteps

\* Every call is where its locals let it be, and the tables keep their keys.
THEOREM Shapes == Spec => []TInv
  BY InitTInv, NextTInv, PTL DEF Spec
-----------------------------------------------------------------------------
(* The runtime settings.                                                    *)

\* What update_runtime_setting accepts, Config can parse.
LEMMA ValidIsParsed ==
    ASSUME NEW k \in DbManaged, NEW v \in Texts, Valid(k, v) PROVE v = "" \/ v \in Parsed(k)
  BY DEF Valid, Kind, Parsed, U32, U64, DbManaged, Keys

\* The process can be started with such settings.
LEMMA SettingsStart ==
    ASSUME SettingsInv PROVE Startable
  <1> SUFFICES ASSUME NEW k \in Keys PROVE Resolved(k) = Default[k] \/ Resolved(k) \in Parsed(k)
    BY DEF Startable
  <1>1. Env[k] \in Parsed(k) \cup {""}  BY EnvAssumption
  <1>2. CASE k \in DbManaged /\ settings[k] # ""  BY <1>2 DEF SettingsInv, Resolved
  <1>3. CASE ~(k \in DbManaged /\ settings[k] # "")
    <2>1. Resolved(k) = IF Env[k] # "" THEN Env[k] ELSE Default[k]  BY <1>3 DEF Resolved
    <2>2. QED  BY <1>1, <2>1
  <1>4. QED  BY <1>2, <1>3

LEMMA InitSettings == Init => SettingsInv
  BY DEF Init, SettingsInit, SettingsInv, DbManaged, Keys

LEMMA NextSettings == TInv /\ SettingsInv /\ [Next]_vars => SettingsInv'
  <1> SUFFICES ASSUME TInv, SettingsInv, [Next]_vars PROVE SettingsInv'
    OBVIOUS
  <1>1. UNCHANGED <<settings, up>> => SettingsInv'  BY DEF SettingsInv
  <1>2. Quiet => UNCHANGED <<settings, up>>  BY DEF Quiet, settingVars
  <1>3. ASSUME NEW r \in Requests, Writes(r) PROVE SettingsInv'
    <2>1. CASE UpsertSetting(r)
      <3>1. pc[r] = "upsert" /\ settings' = [settings EXCEPT ![job[r].arg] = job[r].want] /\ up' = up
        BY <2>1 DEF UpsertSetting
      <3>2. /\ job[r].arg \in Keys /\ job[r].want \in Texts /\ Valid(job[r].arg, job[r].want)
            /\ settings \in [Keys -> Texts]
        BY <3>1 DEF TInv, Local
      <3>3. job[r].arg \in DbManaged  BY <3>2 DEF Valid
      <3>4. job[r].want = "" \/ job[r].want \in Parsed(job[r].arg)  BY <3>2, <3>3, ValidIsParsed
      <3>5. ASSUME NEW k \in DbManaged PROVE settings'[k] = "" \/ settings'[k] \in Parsed(k)
        <4>1. CASE k = job[r].arg  BY <3>1, <3>2, <3>4, <4>1
        <4>2. CASE k # job[r].arg
          <5>1. settings'[k] = settings[k]  BY <3>1, <3>2, <4>2 DEF DbManaged
          <5>2. QED  BY <5>1 DEF SettingsInv
        <4>3. QED  BY <4>1, <4>2
      <3>6. QED  BY <3>1, <3>5 DEF SettingsInv
    <2>2. CASE ~UpsertSetting(r)
      <3>1. UNCHANGED <<settings, up>>  BY <1>3, <2>2 DEF Writes, DeleteTenant, settingVars
      <3>2. QED  BY <1>1, <3>1
    <2>3. QED  BY <2>1, <2>2
  <1>4. ASSUME NEW r \in Requests, Saves(r) PROVE UNCHANGED <<settings, up>>
    BY <1>4 DEF Saves, SmtpForm, UpsertKey, UpsertPassword
  <1>5. ASSUME NEW r \in Requests, CallFails(r) PROVE UNCHANGED <<settings, up>>
    BY <1>5 DEF CallFails, settingVars
  <1>6. CASE Restart
    <2>1. up' = TRUE /\ settings' = settings
      <3>1. Startable  BY SettingsStart
      <3>2. Startable = TRUE  BY <3>1 DEF Startable
      <3>3. QED  BY <1>6, <3>2 DEF Restart
    <2>2. QED  BY <2>1 DEF SettingsInv
  <1>7. CASE Tick /\ UNCHANGED <<clients, settingVars>>  BY <1>1, <1>7 DEF settingVars
  <1>8. QED
    BY <1>1, <1>2, <1>3, <1>4, <1>5, <1>6, <1>7, NextSteps DEF Turns

\* No sequence of saved runtime settings, in any order and with any others at
\* the same time, keeps the process from starting again.
THEOREM Restarts == Spec => []RestartSucceeds
  <1>1. TInv /\ SettingsInv /\ [Next]_vars => SettingsInv'  BY NextSettings
  <1>2. SettingsInv => RestartSucceeds  BY DEF SettingsInv, RestartSucceeds
  <1>3. QED  BY <1>1, <1>2, InitSettings, Shapes, PTL DEF Spec
-----------------------------------------------------------------------------
(* The cache.                                                               *)

\* What a step may do to an entry of the cache and to the row behind it.
LEMMA ExpiryKept ==
    ASSUME TInv, ExpiryInv, NEW x \in Children,
           cache'[x] = cache[x], now' \in Nat, now <= now', ttl' = ttl,
           \/ stale'[x] = now
           \/ /\ stale'[x] = stale[x]
              /\ IsServable(tenants'[x]) \/ ~IsServable(tenants[x]) \/ tenants'[x] = tenants[x]
    PROVE  cache'[x] # None =>
             /\ cache'[x].expires \in Nat /\ cache'[x].expires <= now' + ttl'
             /\ IsServable(cache'[x].row) /\ ~IsServable(tenants'[x]) => cache'[x].expires <= stale'[x] + ttl'
  <1> SUFFICES ASSUME cache[x] # None
               PROVE  /\ cache[x].expires \in Nat /\ cache[x].expires <= now' + ttl
                      /\ IsServable(cache[x].row) /\ ~IsServable(tenants'[x]) => cache[x].expires <= stale'[x] + ttl
    OBVIOUS
  <1>1. /\ now \in Nat /\ ttl \in Nat /\ stale[x] \in Nat
        /\ cache[x].expires \in Nat /\ cache[x].expires <= now + ttl
        /\ IsServable(cache[x].row) /\ ~IsServable(tenants[x]) => cache[x].expires <= stale[x] + ttl
    BY DEF TInv, ExpiryInv
  <1>2. cache[x].expires <= now' + ttl  BY <1>1
  <1>3. ASSUME IsServable(cache[x].row), ~IsServable(tenants'[x]) PROVE cache[x].expires <= stale'[x] + ttl
    <2>1. CASE stale'[x] = now  BY <1>1, <2>1
    <2>2. CASE stale'[x] = stale[x] /\ ~IsServable(tenants[x])  BY <1>1, <1>3, <2>2
    <2>3. CASE stale'[x] = stale[x] /\ tenants'[x] = tenants[x]
      <3>1. ~IsServable(tenants[x])  BY <1>3, <2>3
      <3>2. QED  BY <1>1, <1>3, <2>3, <3>1
    <2>4. QED  BY <1>3, <2>1, <2>2, <2>3
  <1>4. QED  BY <1>1, <1>2, <1>3

LEMMA ExpiryUntouched ==
    ASSUME TInv, ExpiryInv, UNCHANGED <<cache, ttl, stale, tenants>>, now' \in Nat, now <= now'
    PROVE  ExpiryInv'
  <1>1. ASSUME NEW x \in Children
        PROVE  cache'[x] # None =>
             /\ cache'[x].expires \in Nat /\ cache'[x].expires <= now' + ttl'
             /\ IsServable(cache'[x].row) /\ ~IsServable(tenants'[x]) => cache'[x].expires <= stale'[x] + ttl'
    <2>1. cache'[x] = cache[x] /\ ttl' = ttl /\ stale'[x] = stale[x] /\ tenants'[x] = tenants[x]
      OBVIOUS
    <2>2. QED  BY <2>1, ExpiryKept
  <1>2. QED  BY <1>1 DEF ExpiryInv

LEMMA CacheTenantExpiry ==
    ASSUME TInv, ExpiryInv, NEW r \in Requests, CacheTenant(r) PROVE ExpiryInv'
  <1> DEFINE y == job[r].at
             e == [row |-> job[r].row, expires |-> now + ttl]
  <1>1. /\ cache' = [cache EXCEPT ![y] = e]
        /\ stale' = IF IsServable(tenants[y]) THEN stale ELSE [stale EXCEPT ![y] = now]
        /\ UNCHANGED <<now, tenants, ttl>>
    BY DEF CacheTenant
  <1>2. /\ cache = [x \in Children |-> cache[x]] /\ stale \in [Children -> Nat] /\ now \in Nat /\ ttl \in Nat
    BY DEF TInv
  <1>3. e.row = job[r].row /\ e.expires = now + ttl  OBVIOUS
  <1> HIDE DEF y, e
  <1>4. ASSUME NEW x \in Children
        PROVE  cache'[x] # None =>
             /\ cache'[x].expires \in Nat /\ cache'[x].expires <= now' + ttl'
             /\ IsServable(cache'[x].row) /\ ~IsServable(tenants'[x]) => cache'[x].expires <= stale'[x] + ttl'
    <2>1. CASE x # y
      <3>1. cache'[x] = cache[x]  BY <1>1, <1>2, <2>1
      <3>2. stale'[x] = stale[x]  BY <1>1, <1>2, <2>1
      <3>3. QED  BY <1>1, <1>2, <3>1, <3>2, ExpiryKept
    <2>2. CASE x = y
      <3>1. cache'[x].expires = now + ttl  BY <1>1, <1>2, <1>3, <2>2
      <3>2. ~IsServable(tenants'[x]) => stale'[x] = now  BY <1>1, <1>2, <2>2
      <3>3. QED  BY <1>1, <1>2, <3>1, <3>2
    <2>3. QED  BY <2>1, <2>2
  <1>5. QED  BY <1>4 DEF ExpiryInv

\* A tenant is made, changed or deleted: the cache keeps what it has.
LEMMA RowExpiry ==
    ASSUME TInv, ExpiryInv, NEW y, NEW row,
           tenants' = [tenants EXCEPT ![y] = row],
           stale' = IF IsServable(tenants[y]) /\ ~IsServable(row) THEN [stale EXCEPT ![y] = now] ELSE stale,
           UNCHANGED <<now, cache, ttl>>
    PROVE  ExpiryInv'
  <1>1. /\ tenants = [x \in Children |-> tenants[x]] /\ stale \in [Children -> Nat] /\ now \in Nat
    BY DEF TInv
  <1>2. ASSUME NEW x \in Children
        PROVE  cache'[x] # None =>
             /\ cache'[x].expires \in Nat /\ cache'[x].expires <= now' + ttl'
             /\ IsServable(cache'[x].row) /\ ~IsServable(tenants'[x]) => cache'[x].expires <= stale'[x] + ttl'
    <2>1. \/ stale'[x] = now
          \/ /\ stale'[x] = stale[x]
             /\ IsServable(tenants'[x]) \/ ~IsServable(tenants[x]) \/ tenants'[x] = tenants[x]
      <3>1. CASE x # y  BY <1>1, <3>1
      <3>2. CASE x = y
        <4>1. tenants'[x] = row  BY <1>1, <3>2
        <4>2. CASE IsServable(tenants[y]) /\ ~IsServable(row)  BY <1>1, <3>2, <4>2
        <4>3. CASE ~(IsServable(tenants[y]) /\ ~IsServable(row))
          <5>1. stale'[x] = stale[x]  BY <4>3
          <5>2. QED  BY <3>2, <4>1, <4>3, <5>1
        <4>4. QED  BY <4>2, <4>3
      <3>3. QED  BY <3>1, <3>2
    <2>2. cache'[x] = cache[x] /\ now' \in Nat /\ now <= now' /\ ttl' = ttl  BY <1>1
    <2>3. QED  BY <2>1, <2>2, ExpiryKept
  <1>3. QED  BY <1>2 DEF ExpiryInv

LEMMA InitExpiry == Init => ExpiryInv
  BY DEF Init, TenantInit, ExpiryInv

LEMMA NextExpiry == TInv /\ ExpiryInv /\ [Next]_vars => ExpiryInv'
  <1> SUFFICES ASSUME TInv, ExpiryInv, [Next]_vars PROVE ExpiryInv'
    OBVIOUS
  <1>0. now \in Nat /\ now <= now  BY DEF TInv
  <1>1. UNCHANGED <<now, cache, ttl, stale, tenants>> => ExpiryInv'  BY <1>0, ExpiryUntouched
  <1>2. Quiet => UNCHANGED <<now, cache, ttl, stale, tenants>>  BY DEF Quiet, tenantVars
  <1>3. ASSUME NEW r \in Requests, Writes(r) PROVE ExpiryInv'
    <2>1. CASE CacheTenant(r)  BY <2>1, CacheTenantExpiry
    <2>2. CASE Provision(r)
      <3>1. IsServable(NewTenant)
        <4>1. NewTenant \in Tenant  BY DEF NewTenant, Tenant
        <4>2. QED  BY <4>1, ConsoleAssumption DEF IsServable, NewTenant
      <3>2. /\ tenants' = [tenants EXCEPT ![r] = NewTenant] /\ UNCHANGED <<now, cache, ttl>>
            /\ stale' = stale
        BY <2>2 DEF Provision
      <3>3. stale' = IF IsServable(tenants[r]) /\ ~IsServable(NewTenant) THEN [stale EXCEPT ![r] = now] ELSE stale
        BY <3>1, <3>2
      <3>4. QED  BY <3>2, <3>3, RowExpiry
    <2>3. CASE UpdateTenant(r)
      <3>1. UNCHANGED <<now, cache, ttl>>  BY <2>3 DEF UpdateTenant
      <3>2. CASE UNCHANGED <<tenants, stale>>  BY <1>1, <3>1, <3>2
      <3>3. CASE /\ tenants' = [tenants EXCEPT ![job[r].arg] = ChangedTenant(job[r].row, job[r])]
                 /\ stale' = IF IsServable(tenants[job[r].arg]) /\ ~IsServable(ChangedTenant(job[r].row, job[r]))
                             THEN [stale EXCEPT ![job[r].arg] = now] ELSE stale
        BY <3>1, <3>3, RowExpiry
      <3>4. QED  BY <2>3, <3>2, <3>3 DEF UpdateTenant
    <2>4. CASE DeleteTenant(r)
      <3>1. UNCHANGED <<now, cache, ttl>>  BY <2>4 DEF DeleteTenant
      <3>2. CASE UNCHANGED <<tenants, stale>>  BY <1>1, <3>1, <3>2
      <3>3. CASE /\ tenants' = [tenants EXCEPT ![job[r].arg] = None]
                 /\ stale' = IF IsServable(tenants[job[r].arg]) THEN [stale EXCEPT ![job[r].arg] = now] ELSE stale
        <4>1. ~IsServable(None)  BY DEF IsServable
        <4>2. stale' = IF IsServable(tenants[job[r].arg]) /\ ~IsServable(None)
                       THEN [stale EXCEPT ![job[r].arg] = now] ELSE stale
          BY <3>3, <4>1
        <4>3. QED  BY <3>1, <3>3, <4>2, RowExpiry
      <3>4. QED  BY <2>4, <3>2, <3>3 DEF DeleteTenant
    <2>5. CASE InsertClient(r) \/ UpdateClient(r)
      <3>1. UNCHANGED <<now, cache, ttl, stale, tenants>>  BY <2>5 DEF InsertClient, UpdateClient, tenantVars
      <3>2. QED  BY <1>1, <3>1
    <2>6. CASE UNCHANGED <<tenantVars, clients>>  BY <1>1, <2>6 DEF tenantVars
    <2>7. QED  BY <1>3, <2>1, <2>2, <2>3, <2>4, <2>5, <2>6 DEF Writes
  <1>4. ASSUME NEW r \in Requests, Saves(r) \/ CallFails(r) PROVE ExpiryInv'
    <2>1. UNCHANGED <<now, cache, ttl, stale, tenants>>  BY <1>4 DEF Saves, CallFails, tenantVars
    <2>2. QED  BY <1>1, <2>1
  <1>5. CASE Restart
    <2>1. cache' = [x \in Children |-> None]  BY <1>5 DEF Restart
    <2>2. \A x \in Children : cache'[x] = None  BY <2>1
    <2>3. QED  BY <2>2 DEF ExpiryInv
  <1>6. CASE Tick
    <2>1. now' = now + 1 /\ UNCHANGED <<cache, ttl, stale, tenants>>  BY <1>6 DEF Tick
    <2>2. now' \in Nat /\ now <= now'  BY <1>0, <2>1
    <2>3. QED  BY <2>1, <2>2, ExpiryUntouched
  <1>7. QED
    BY <1>1, <1>2, <1>3, <1>4, <1>5, <1>6, NextSteps DEF Turns

\* A tenant that was disabled or deleted is served for at most the TTL of the
\* cache, counted from the change or from the end of a resolution that had read
\* the row before it, whatever the TTL the process was started with.
THEOREM DisabledTenantsExpire == Spec => []DisabledTenantExpires
  <1>1. TInv /\ ExpiryInv => DisabledTenantExpires
    <2> SUFFICES ASSUME TInv, ExpiryInv, NEW x \in Children,
                        Live(x), IsServable(cache[x].row), ~IsServable(tenants[x])
                 PROVE  now < stale[x] + ttl
      BY DEF DisabledTenantExpires
    <2>1. cache[x] # None /\ cache[x].expires > now  BY DEF Live
    <2>2. cache[x].expires \in Nat /\ cache[x].expires <= stale[x] + ttl  BY <2>1 DEF ExpiryInv
    <2>3. now \in Nat /\ stale[x] \in Nat /\ ttl \in Nat  BY DEF TInv
    <2>4. QED  BY <2>1, <2>2, <2>3
  <1>2. QED  BY <1>1, InitExpiry, NextExpiry, Shapes, PTL DEF Spec
-----------------------------------------------------------------------------
(* The SMTP settings.                                                       *)

\* What the saves are and what they have written does not change, but where the
\* other calls are may.
LEMMA SmtpKept ==
    ASSUME SmtpInv, UNCHANGED <<smtp, saves>>,
           \A q \in Requests :
               \/ pc'[q] = pc[q] /\ (pc[q] \in SmtpPlaces => job'[q] = job[q])
               \/ pc[q] \notin SmtpPlaces \cup {"ok", "failed"} /\ pc'[q] \notin SmtpPlaces
               \/ pc[q] \in SmtpPlaces /\ pc'[q] = "failed"
    PROVE  SmtpInv'
  <1>1. \A q \in Requests : saves[q] # None => pc[q] \in SmtpPlaces \cup {"ok", "failed"}  BY DEF SmtpInv
  <1>2. \A q \in Requests : pc[q] \in {"ok", "failed"} => pc'[q] = pc[q]  BY DEF SmtpPlaces
  <1>3. \A q \in Requests : saves'[q] # None => pc'[q] \in SmtpPlaces \cup {"ok", "failed"}
    BY <1>1, <1>2
  <1>4. ASSUME NEW r \in Requests, pc'[r] \in SmtpPlaces \/ (pc'[r] = "ok" /\ saves'[r] # None)
        PROVE  /\ pc'[r] = pc[r] /\ Saved(r)' /\ (pc'[r] \in SmtpPlaces => saves'[r].want = job'[r].want)
    <2>1. pc'[r] = pc[r]  BY <1>1, <1>4 DEF SmtpPlaces
    <2>2. Saved(r) /\ (pc'[r] \in SmtpPlaces => saves[r].want = job[r].want /\ job'[r] = job[r])
      BY <1>4, <2>1 DEF SmtpInv, SmtpPlaces
    <2>3. Saved(r)'
      <3>1. \A q \in saves[r].before : pc'[q] \in {"ok", "failed"}  BY <1>2, <2>2 DEF Saved
      <3>2. QED  BY <2>1, <2>2, <3>1 DEF Saved
    <2>4. QED  BY <2>1, <2>2, <2>3
  <1>5. QED  BY <1>3, <1>4 DEF SmtpInv

\* Call r goes on; the others are where they were.
LEMMA SmtpPasses ==
    ASSUME TInv, SmtpInv, NEW r \in Requests, Passes(r), UNCHANGED <<smtp, saves>> PROVE SmtpInv'
  <1>1. PICK l, j : Goes(r, l, j)  BY DEF Passes
  <1>2. /\ pc'[r] = l /\ l \notin SmtpPlaces /\ pc[r] \notin SmtpPlaces \cup {"ok", "failed"}
        /\ \A q \in Requests : q # r => pc'[q] = pc[q] /\ job'[q] = job[q]
    BY <1>1, MovesDoes DEF Goes
  <1>3. ASSUME NEW q \in Requests
        PROVE  \/ pc'[q] = pc[q] /\ (pc[q] \in SmtpPlaces => job'[q] = job[q])
               \/ pc[q] \notin SmtpPlaces \cup {"ok", "failed"} /\ pc'[q] \notin SmtpPlaces
    BY <1>2
  <1>4. QED  BY <1>3, SmtpKept

\* A save begins: whatever call is over has written all that it will write.
LEMMA SmtpFormKeeps ==
    ASSUME TInv, SmtpInv, NEW r \in Requests, SmtpForm(r) PROVE SmtpInv'
  <1>1. PICK j : /\ pc[r] = "new" /\ Moves(r, "host", j) /\ smtp' = smtp
                 /\ saves' = [saves EXCEPT ![r] = [want |-> j.want, before |-> {q \in Requests : pc[q] \in {"ok", "failed"}}]]
    BY SmtpFormDoes
  <1>2. /\ pc'[r] = "host" /\ job'[r] = j
        /\ \A q \in Requests : q # r => pc'[q] = pc[q] /\ job'[q] = job[q]
    BY <1>1, MovesDoes
  <1>3. /\ saves' = [q \in Requests |-> saves'[q]] /\ saves'[r].want = j.want
        /\ saves'[r].before = {q \in Requests : pc[q] \in {"ok", "failed"}}
        /\ \A q \in Requests : q # r => saves'[q] = saves[q]
    BY <1>1 DEF SmtpInv
  <1>4. "host" \in SmtpPlaces /\ WrittenAt("host", j.want) = {}  BY DEF SmtpPlaces, WrittenAt, Written
  <1>5. Saved(r)'
    <2>1. \A q \in saves'[r].before : q \in Requests /\ pc'[q] \in {"ok", "failed"}  BY <1>1, <1>2, <1>3
    <2>2. WrittenAt(pc'[r], saves'[r].want) = {}  BY <1>2, <1>3, <1>4
    <2>3. QED  BY <2>1, <2>2 DEF Saved
  <1>6. ASSUME NEW q \in Requests, q # r, Saved(q) PROVE Saved(q)'
    <2>1. \A p \in saves[q].before : p \in Requests /\ pc'[p] \in {"ok", "failed"}
      BY <1>1, <1>2, <1>6 DEF Saved
    <2>2. QED  BY <1>1, <1>2, <1>3, <1>6, <2>1 DEF Saved
  <1>7. \A q \in Requests : saves'[q] # None => pc'[q] \in SmtpPlaces \cup {"ok", "failed"}
    BY <1>2, <1>3, <1>4 DEF SmtpInv
  <1>8. \A q \in Requests : pc'[q] \in SmtpPlaces => saves'[q].want = job'[q].want
    BY <1>2, <1>3 DEF SmtpInv
  <1>9. \A q \in Requests : pc'[q] \in SmtpPlaces \/ (pc'[q] = "ok" /\ saves'[q] # None) => Saved(q)'
    BY <1>2, <1>3, <1>5, <1>6 DEF SmtpInv
  <1>10. QED  BY <1>3, <1>7, <1>8, <1>9 DEF SmtpInv

\* A save writes key k and goes on to l: no save that began earlier or later
\* found it over, so the key is not older than any of them.
LEMMA KeyKeeps ==
    ASSUME TInv, SmtpInv, NEW r \in Requests, NEW k \in SmtpPlaces, NEW l, NEW j, Moves(r, l, j),
           pc[r] \in SmtpPlaces, l \in SmtpPlaces \cup {"ok"}, l \in SmtpPlaces => j = job[r],
           smtp' = [smtp EXCEPT ![k] = r], saves' = saves,
           WrittenAt(l, saves[r].want) \subseteq WrittenAt(pc[r], saves[r].want) \cup {k}
    PROVE  SmtpInv'
  <1>1. /\ pc'[r] = l /\ job'[r] = j
        /\ \A q \in Requests : q # r => pc'[q] = pc[q] /\ job'[q] = job[q]
    BY MovesDoes
  <1>2. smtp'[k] = r /\ \A i \in SmtpPlaces : i # k => smtp'[i] = smtp[i]  BY DEF TInv
  <1>3. pc[r] \notin {"ok", "failed"} /\ r # None  BY ConsoleAssumption DEF SmtpPlaces
  <1>4. \A i, w : WrittenAt(i, w) \subseteq SmtpPlaces  BY DEF WrittenAt, Written, PlainKeys, SmtpPlaces
  <1>5. ASSUME NEW q \in Requests, Saved(q), WrittenAt(pc'[q], saves[q].want) \subseteq WrittenAt(pc[q], saves[q].want) \cup {k}
        PROVE  Saved(q)'
    <2>1. \A p \in saves[q].before : p \in Requests /\ p # r /\ pc'[p] \in {"ok", "failed"}
      BY <1>1, <1>3, <1>5 DEF Saved
    <2>2. ASSUME NEW i \in WrittenAt(pc'[q], saves[q].want) PROVE smtp'[i] # None /\ smtp'[i] \notin saves[q].before
      <3>1. CASE i = k  BY <1>2, <1>3, <2>1, <3>1
      <3>2. CASE i # k
        <4>1. i \in WrittenAt(pc[q], saves[q].want) /\ i \in SmtpPlaces  BY <1>4, <1>5, <3>2
        <4>2. QED  BY <1>2, <1>5, <3>2, <4>1 DEF Saved
      <3>3. QED  BY <3>1, <3>2
    <2>3. QED  BY <2>1, <2>2 DEF Saved
  <1>6. \A q \in Requests : saves'[q] # None => pc'[q] \in SmtpPlaces \cup {"ok", "failed"}
    BY <1>1 DEF SmtpInv
  <1>7. \A q \in Requests : pc'[q] \in SmtpPlaces => saves'[q].want = job'[q].want
    BY <1>1 DEF SmtpInv
  <1>8. ASSUME NEW q \in Requests, pc'[q] \in SmtpPlaces \/ (pc'[q] = "ok" /\ saves'[q] # None) PROVE Saved(q)'
    <2>1. Saved(q)  BY <1>1, <1>8 DEF SmtpInv
    <2>2. WrittenAt(pc'[q], saves[q].want) \subseteq WrittenAt(pc[q], saves[q].want) \cup {k}
      <3>1. CASE q = r  BY <1>1, <3>1
      <3>2. CASE q # r  BY <1>1, <3>2
      <3>3. QED  BY <3>1, <3>2
    <2>3. QED  BY <1>5, <2>1, <2>2
  <1>9. QED  BY <1>6, <1>7, <1>8 DEF SmtpInv

LEMMA UpsertKeyKeeps ==
    ASSUME TInv, SmtpInv, NEW r \in Requests, UpsertKey(r) PROVE SmtpInv'
  <1>1. pc[r] \in PlainKeys /\ smtp' = [smtp EXCEPT ![pc[r]] = r] /\ saves' = saves
    BY UpsertKeyDoes DEF UpsertKey
  <1>2. pc[r] \in SmtpPlaces  BY <1>1 DEF PlainKeys, SmtpPlaces
  <1>3. saves[r].want = job[r].want  BY <1>2 DEF SmtpInv
  <1>4. CASE pc[r] # "use_tls" /\ Moves(r, NextKey(pc[r]), job[r])
    <2>1. NextKey(pc[r]) \in SmtpPlaces  BY <1>1, <1>4 DEF PlainKeys, SmtpPlaces, NextKey
    <2>2. WrittenAt(NextKey(pc[r]), saves[r].want) \subseteq WrittenAt(pc[r], saves[r].want) \cup {pc[r]}
      BY <1>1, <1>4 DEF PlainKeys, NextKey, WrittenAt, Written
    <2>3. QED  BY <1>1, <1>2, <1>4, <2>1, <2>2, KeyKeeps
  <1>5. CASE pc[r] = "use_tls" /\ Moves(r, "password", job[r])
    <2>1. "password" \in SmtpPlaces  BY DEF SmtpPlaces
    <2>2. WrittenAt("password", saves[r].want) \subseteq WrittenAt(pc[r], saves[r].want) \cup {pc[r]}
      BY <1>5 DEF WrittenAt, Written
    <2>3. QED  BY <1>1, <1>2, <1>5, <2>1, <2>2, KeyKeeps
  <1>6. CASE pc[r] = "use_tls" /\ job[r].want = "keep" /\ Moves(r, "ok", None)
    <2>1. "ok" \notin SmtpPlaces  BY DEF SmtpPlaces
    <2>2. WrittenAt("ok", saves[r].want) \subseteq WrittenAt(pc[r], saves[r].want) \cup {pc[r]}
      BY <1>3, <1>6 DEF WrittenAt, Written, PlainKeys
    <2>3. QED  BY <1>1, <1>2, <1>6, <2>1, <2>2, KeyKeeps
  <1>7. QED  BY <1>4, <1>5, <1>6, UpsertKeyDoes

LEMMA UpsertPasswordKeeps ==
    ASSUME TInv, SmtpInv, NEW r \in Requests, UpsertPassword(r) PROVE SmtpInv'
  <1>1. /\ pc[r] = "password" /\ smtp' = [smtp EXCEPT !["password"] = r] /\ saves' = saves /\ Moves(r, "ok", None)
    BY FinishMoves DEF UpsertPassword
  <1>2. "password" \in SmtpPlaces /\ "ok" \notin SmtpPlaces  BY DEF SmtpPlaces
  <1>3. WrittenAt("ok", saves[r].want) \subseteq WrittenAt(pc[r], saves[r].want) \cup {"password"}
    BY <1>1 DEF WrittenAt, Written, PlainKeys
  <1>4. QED  BY <1>1, <1>2, <1>3, KeyKeeps

LEMMA InitSmtp == Init => SmtpInv
  <1> SUFFICES ASSUME Init PROVE SmtpInv
    OBVIOUS
  <1>1. \A r \in Requests : pc[r] = "new" /\ saves[r] = None  BY DEF Init, CallInit, SettingsInit
  <1>2. saves = [r \in Requests |-> saves[r]]  BY DEF Init, SettingsInit
  <1>3. QED  BY <1>1, <1>2 DEF SmtpInv, SmtpPlaces

LEMMA NextSmtp == TInv /\ SmtpInv /\ [Next]_vars => SmtpInv'
  <1> SUFFICES ASSUME TInv, SmtpInv, [Next]_vars PROVE SmtpInv'
    OBVIOUS
  <1>1. ASSUME NEW r \in Requests, Turns(r) PROVE SmtpInv'
    <2>1. UNCHANGED <<smtp, saves>>  BY <1>1 DEF Turns, Quiet, settingVars
    <2>2. QED  BY <1>1, <2>1, SmtpPasses DEF Turns
  <1>2. ASSUME NEW r \in Requests, Writes(r) PROVE SmtpInv'
    <2>1. UNCHANGED <<smtp, saves>>  BY <1>2 DEF Writes, UpsertSetting, DeleteTenant, settingVars
    <2>2. QED  BY <1>2, <2>1, WritesDoes, SmtpPasses
  <1>3. ASSUME NEW r \in Requests, Saves(r) PROVE SmtpInv'
    BY <1>3, SmtpFormKeeps, UpsertKeyKeeps, UpsertPasswordKeeps DEF Saves
  <1>4. ASSUME NEW r \in Requests, CallFails(r) PROVE SmtpInv'
    <2>1. Moves(r, "failed", None) /\ Running(r) /\ UNCHANGED <<smtp, saves>>
      BY <1>4, FinishMoves DEF CallFails, settingVars
    <2>2. /\ pc'[r] = "failed" /\ \A q \in Requests : q # r => pc'[q] = pc[q] /\ job'[q] = job[q]
      BY <2>1, MovesDoes
    <2>3. pc[r] \notin {"ok", "failed"} /\ "failed" \notin SmtpPlaces  BY <2>1 DEF Running, SmtpPlaces
    <2>4. QED  BY <2>1, <2>2, <2>3, SmtpKept
  <1>5. CASE Restart
    <2>1. /\ pc' = [r \in Requests |-> IF Running(r) THEN "failed" ELSE pc[r]] /\ UNCHANGED <<smtp, saves>>
      BY <1>5 DEF Restart
    <2>2. \A q \in Requests : (pc'[q] = pc[q] /\ pc[q] \in {"new", "ok", "failed"})
                               \/ (pc[q] \notin {"ok", "failed"} /\ pc'[q] = "failed")
      BY <2>1 DEF Running
    <2>3. "new" \notin SmtpPlaces /\ "ok" \notin SmtpPlaces /\ "failed" \notin SmtpPlaces  BY DEF SmtpPlaces
    <2>4. QED  BY <2>1, <2>2, <2>3, SmtpKept
  <1>6. CASE UNCHANGED <<pc, job, smtp, saves>>  BY <1>6, SmtpKept
  <1>7. QED
    BY <1>1, <1>2, <1>3, <1>4, <1>5, <1>6, NextSteps DEF Tick, Quiet, callVars, settingVars

\* However saves of the SMTP server overlap, break off or are lost in a restart:
\* after an answered save no key is left from a save that was over before it
\* began.
THEOREM OlderMailSettingsAreGone == Spec => []NoOlderMailSettings
  <1>1. SmtpInv => NoOlderMailSettings
    <2> SUFFICES ASSUME SmtpInv, NEW r \in Requests, NEW k \in SavedBy(r)
                 PROVE  smtp[k] # None /\ smtp[k] \notin saves[r].before
      BY DEF NoOlderMailSettings
    <2>1. pc[r] = "ok" /\ saves[r] # None  BY DEF SavedBy
    <2>2. Saved(r)  BY <2>1 DEF SmtpInv
    <2>3. k \in WrittenAt("ok", saves[r].want)
      <3>1. {SmtpKeys[i] : i \in DOMAIN SmtpKeys} \subseteq PlainKeys
        <4>1. /\ DOMAIN SmtpKeys = {1, 2, 3, 4, 5}
              /\ SmtpKeys[1] = "host" /\ SmtpKeys[2] = "port" /\ SmtpKeys[3] = "username"
              /\ SmtpKeys[4] = "from_address" /\ SmtpKeys[5] = "use_tls"
          BY DEF SmtpKeys
        <4>2. QED  BY <4>1 DEF PlainKeys
      <3>2. QED  BY <2>1, <3>1 DEF SavedBy, WrittenAt
    <2>4. QED  BY <2>1, <2>2, <2>3 DEF Saved
  <1>2. QED  BY <1>1, InitSmtp, NextSmtp, Shapes, PTL DEF Spec
=============================================================================
