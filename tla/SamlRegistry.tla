---------------------------- MODULE SamlRegistry ----------------------------
(***************************************************************************)
(* The SAML service providers of the tenants.  The contents of a row are   *)
(* named after the call that wrote them, apart from the entity id, which   *)
(* is unique in a tenant.                                                  *)
(***************************************************************************)
EXTENDS TenantRegistry

CONSTANTS
    Sp,         \* a service provider that exists at the start
    Entities    \* entity ids

VARIABLE sps    \* saml_service_providers

SpIds == {Sp} \cup Requests
-----------------------------------------------------------------------------
SpRow == [tenant : Children, entity : Entities, rev : SpIds]

SpInit ==
    \E e \in Entities :
        sps = [p \in SpIds |-> IF p = Sp THEN [tenant |-> Child, entity |-> e, rev |-> Sp] ELSE None]

\* The service providers that the console of their tenant shows.
ShownSps == {p \in SpIds : sps[p] # None}

\* The forms.
RegisterSpForm(r) ==
    /\ \E x \in Shown, e \in Entities : Send(r, "sp_new", x, r, e, "resolve")
    /\ UNCHANGED <<tenantVars, sps>>
EditSpForm(r) ==
    /\ \E p \in ShownSps, e \in Entities : Send(r, "sp_edit", sps[p].tenant, p, e, "resolve")
    /\ UNCHANGED <<tenantVars, sps>>
DeleteSpForm(r) ==
    /\ \E p \in ShownSps : Send(r, "sp_delete", sps[p].tenant, p, None, "resolve")
    /\ UNCHANGED <<tenantVars, sps>>

\* The unique key (tenant_id, entity_id): another row has the entity id.
Taken(p, x, e) == \E q \in SpIds \ {p} : sps[q] # None /\ sps[q].tenant = x /\ sps[q].entity = e

\* create: the foreign key refuses a row of a tenant that is gone.
InsertSp(r) ==
    LET x == job[r].at IN
    /\ pc[r] = "insert_sp"
    /\ IF tenants[x] = None \/ Taken(r, x, job[r].want) THEN Finish(r, "failed") /\ UNCHANGED sps
       ELSE sps' = [sps EXCEPT ![r] = [tenant |-> x, entity |-> job[r].want, rev |-> r]] /\ Finish(r, "ok")
    /\ UNCHANGED tenantVars

Matching(p, x) == sps[p] # None /\ sps[p].tenant = x

\* find_by_id
FindSp(r) ==
    /\ pc[r] = "find_sp"
    /\ IF Matching(job[r].arg, job[r].at) THEN Keep(r, "update_sp", sps[job[r].arg]) ELSE Finish(r, "failed")
    /\ UNCHANGED <<tenantVars, sps>>

\* update and `updated`: rows_affected() > 0.
Updated(p, x) == Matching(p, x)

\* Every column of the form is written, if the row is still there.
UpdateSp(r) ==
    LET p == job[r].arg
        x == job[r].at
    IN
    /\ pc[r] = "update_sp"
    /\ \/ Matching(p, x) /\ Taken(p, x, job[r].want) /\ Finish(r, "failed") /\ UNCHANGED sps
       \/ /\ ~(Matching(p, x) /\ Taken(p, x, job[r].want))
          /\ sps' = IF Matching(p, x) THEN [sps EXCEPT ![p] = [job[r].row EXCEPT !.entity = job[r].want, !.rev = r]]
                    ELSE sps
          /\ Finish(r, IF Updated(p, x) THEN "ok" ELSE "failed")
    /\ UNCHANGED tenantVars

\* delete
DeleteSp(r) ==
    LET p == job[r].arg IN
    /\ pc[r] = "delete_sp"
    /\ IF Matching(p, job[r].at) THEN sps' = [sps EXCEPT ![p] = None] /\ Finish(r, "ok")
       ELSE Finish(r, "failed") /\ UNCHANGED sps
    /\ UNCHANGED tenantVars

SpStep(r) ==
    \/ RegisterSpForm(r) \/ EditSpForm(r) \/ DeleteSpForm(r)
    \/ InsertSp(r) \/ FindSp(r) \/ UpdateSp(r) \/ DeleteSp(r)
=============================================================================
