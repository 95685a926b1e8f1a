---------------------------- MODULE AdminConsole ----------------------------
(***************************************************************************)
(* The administration console: tenants, clients, service providers and     *)
(* settings, with what ties them together.  The foreign keys make a tenant *)
(* with clients undeletable and take its service providers with it, every  *)
(* call at a tenant passes the tenant cache, and the settings decide how,  *)
(* and whether, the process starts again.                                  *)
(***************************************************************************)
EXTENDS ClientRegistry, SamlRegistry, SystemSettings, SamlMetadata

CONSTANT Faults    \* TRUE: a statement may fail, a handler may be dropped, the process may crash

ASSUME ConsoleAssumption ==
    /\ None \notin Requests \cup {Child, Client, Sp} /\ Entities # {}
    /\ Child \notin Requests /\ Client \notin Requests /\ Child # Client
    /\ None \notin Tenant
    /\ \A w \in DOMAIN Words : Words[w] \subseteq Events
    /\ MaxNow \in Nat /\ MaxDoc \in Nat /\ Faults \in BOOLEAN

vars == <<callVars, tenantVars, clients, sps, settingVars, metaVars>>

Init ==
    CallInit /\ TenantInit /\ ClientInit /\ SpInit /\ SettingsInit /\ MetaInit
-----------------------------------------------------------------------------
Clients(x) == {c \in ClientIds : clients[c] # None /\ clients[c].tenant = x}

\* DELETE FROM tenants: refused while the tenant has clients or accounts (which
\* are not part of this model: it may have some or not); the service providers
\* go with it.  A tenant that is gone already is no error.
DeleteTenant(r) ==
    LET x == job[r].arg IN
    /\ pc[r] = "delete_tenant"
    /\ \E users \in BOOLEAN :
       IF Clients(x) # {} \/ (users /\ tenants[x] # None) THEN Finish(r, "failed") /\ UNCHANGED <<tenants, sps, stale>>
       ELSE /\ tenants' = [tenants EXCEPT ![x] = None]
            /\ sps' = [p \in SpIds |-> IF sps[p] # None /\ sps[p].tenant = x THEN None ELSE sps[p]]
            /\ stale' = IF IsServable(tenants[x]) THEN [stale EXCEPT ![x] = now] ELSE stale
            /\ Finish(r, "ok")
    /\ UNCHANGED <<now, cache, ttl, clients, settingVars, metaVars>>

\* A statement fails, or the administrator goes away and the handler is dropped.
CallFails(r) ==
    /\ Faults /\ Running(r)
    /\ Finish(r, "failed")
    /\ UNCHANGED <<tenantVars, clients, sps, settingVars, metaVars>>

\* run: the process is started again, without the calls and the cache it had,
\* and with the settings of the database.
Restart ==
    /\ Faults /\ up
    /\ up' = Startable
    /\ ttl' = IF Startable THEN (IF Resolved("TENANT_CACHE_TTL_SECS") = "2" THEN 2 ELSE 1) ELSE ttl
    /\ cache' = [x \in Children |-> None]
    /\ pc' = [r \in Requests |-> IF Running(r) THEN "failed" ELSE pc[r]]
    /\ job' = [r \in Requests |-> None]
    /\ UNCHANGED <<load, now, tenants, stale, clients, sps, settings, smtp, saves, metaVars>>

ImportMetadata ==
    /\ \E w \in load \cap DOMAIN Words : \E e \in Words[w] : ReadEvent(e)
    /\ UNCHANGED <<callVars, tenantVars, clients, sps, settingVars>>

\* Time matters to what passes the cache, which the root's own calls do not.
Clocked == ~(load \subseteq {"smtp"} \cup DOMAIN Words)

Next ==
    \/ \E r \in Requests :
          \/ TenantStep(r) /\ UNCHANGED <<clients, sps, settingVars, metaVars>>
          \/ ClientStep(r) /\ UNCHANGED <<sps, settingVars, metaVars>>
          \/ SpStep(r) /\ UNCHANGED <<clients, settingVars, metaVars>>
          \/ SettingsStep(r) /\ UNCHANGED <<tenantVars, clients, sps, metaVars>>
          \/ DeleteTenant(r) \/ CallFails(r)
    \/ Restart
    \/ Clocked /\ Tick /\ UNCHANGED <<clients, sps, settingVars, metaVars>>
    \/ ImportMetadata

Spec == Init /\ [][Next]_vars
-----------------------------------------------------------------------------
(* What the code guarantees.                                                *)

\* The status of a tenant is honoured late, but it is: although no write to the
\* table reaches the cache, the cache does not admit calls for longer than the
\* TTL after the tenant was disabled or deleted, or after the end of a
\* resolution that had read the row before.
DisabledTenantExpires ==
    \A x \in Children : Live(x) /\ IsServable(cache[x].row) /\ ~IsServable(tenants[x]) => now < stale[x] + ttl

\* TenantResolutionService says that an update of the status invalidates the
\* cache: once every call is answered, the cache admits no calls at a disabled
\* or deleted tenant with an entry older than that change.
DisabledTenantRefused ==
    (\A r \in Requests : ~Running(r)) =>
        \A x \in Children : Live(x) /\ IsServable(cache[x].row) /\ ~IsServable(tenants[x]) => cache[x].expires - ttl >= stale[x]

\* No sequence of accepted runtime settings keeps the process from starting
\* again.
RestartSucceeds == up

\* What update_smtp has saved by its end, key by key.
SavedBy(r) == IF pc[r] = "ok" /\ saves[r] # None
              THEN {SmtpKeys[i] : i \in DOMAIN SmtpKeys} \cup (IF saves[r].want = "keep" THEN {} ELSE {"password"}) ELSE {}

\* The SMTP server is saved key by key, and saves may overlap and break off.
\* Once a save was answered, still no key is left as an earlier save or a call
\* broken off before it began had written it: what mails are sent with may mix
\* this form with those of overlapping or later saves, but with nothing older.
NoOlderMailSettings == \A r \in Requests : \A k \in SavedBy(r) : smtp[k] # None /\ smtp[k] \notin saves[r].before

\* What is filled into the form is what the document says of its first entity:
\* its id, the best of its assertion consumer services and the first names.
\* The certificate is never one for encryption.  It is the first of the keys
\* for signatures, or else the first of the keys without a use; where
\* certificates belong to no key, as in a signature of the descriptor, they
\* count like those of a key without a use, provided that no KeyDescriptor is
\* empty.
ImportFaithful ==
    /\ Imported = NotImported <=> Incomplete
    /\ Imported # NotImported =>
          /\ Imported.entity = First
          /\ Imported.acs = Preferred(AcsOf("post"), Preferred(AcsOf("redirect"), Earliest(SpLeaves("Acs"))))
          /\ Imported.name = Earliest(SpLeaves("NameIdFormat")) /\ Imported.org = Earliest(LeavesOf("Organization"))
          /\ Imported.cert \in {0} \cup (SpLeaves("Cert") \ CertsOf({"encryption"}))
          /\ Loose = {} => Imported.cert = Preferred(CertsOf({"signing"}), Earliest(CertsOf({"none"})))
          /\ Hollow = {} => Imported.cert = Preferred(CertsOf({"signing"}), Earliest(CertsOf({"none"}) \cup Loose))
=============================================================================
