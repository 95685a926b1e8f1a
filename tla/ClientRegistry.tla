--------------------------- MODULE ClientRegistry ---------------------------
(***************************************************************************)
(* The OIDC clients of the tenants: registration, the edit form and a new  *)
(* secret.  A secret is named after the call that made it.                 *)
(***************************************************************************)
EXTENDS TenantRegistry

CONSTANT Client    \* a client that may exist at the start

VARIABLE clients   \* clients

ClientIds == {Client} \cup Requests
-----------------------------------------------------------------------------
ClientRow == [tenant : Children, public : BOOLEAN, secret : ClientIds \cup {None}, pkce : BOOLEAN,
              status : {"ACTIVE", "DISABLED"}]

\* register: a public client has no secret and must use PKCE.
NewClient(c, x, public, pkce) ==
    [tenant |-> x, public |-> public, secret |-> IF public THEN None ELSE c, pkce |-> public \/ pkce,
     status |-> "ACTIVE"]

ClientInit ==
    \E row \in {None} \cup {NewClient(Client, Child, p, TRUE) : p \in BOOLEAN} :
        clients = [c \in ClientIds |-> IF c = Client THEN row ELSE None]

\* The clients that the console of their tenant shows.
ShownClients == {c \in ClientIds : clients[c] # None}

\* The forms.  The status of the edit form is what the page showed or what the
\* administrator chose.
CreateClientForm(r) ==
    /\ \E x \in Shown, p \in {"public", "pkce", "plain"} : Send(r, "client_new", x, r, p, "resolve")
    /\ UNCHANGED <<tenantVars, clients>>
EditClientForm(r) ==
    /\ \E c \in ShownClients, s \in {"ACTIVE", "DISABLED"} : Send(r, "client_edit", clients[c].tenant, c, s, "peek")
    /\ UNCHANGED <<tenantVars, clients>>
RotateSecretForm(r) ==
    /\ \E c \in ShownClients : Send(r, "client_rotate", clients[c].tenant, c, None, "resolve")
    /\ UNCHANGED <<tenantVars, clients>>

\* find_by_client_id: a client of the tenant.
Selected(c, x) == IF clients[c] # None /\ clients[c].tenant = x THEN clients[c] ELSE None

\* The edit form first gets the client, in case it must be shown again.
Peek(r) ==
    /\ pc[r] = "peek"
    /\ IF Selected(job[r].arg, job[r].at) = None THEN Finish(r, "failed") ELSE Goto(r, "resolve")
    /\ UNCHANGED <<tenantVars, clients>>

\* create: the foreign key refuses a client of a tenant that is gone.
InsertClient(r) ==
    LET x == job[r].at
        row == NewClient(r, x, job[r].want = "public", job[r].want = "pkce")
    IN
    /\ pc[r] = "insert_client"
    /\ IF tenants[x] = None THEN Finish(r, "failed") /\ UNCHANGED clients
       ELSE clients' = [clients EXCEPT ![r] = row] /\ Finish(r, "ok")
    /\ UNCHANGED tenantVars

\* load, and rotate_secret's condition.
LoadClient(r) ==
    LET row == Selected(job[r].arg, job[r].at) IN
    /\ pc[r] = "load_client"
    /\ IF row = None \/ (job[r].kind = "client_rotate" /\ row.public) THEN Finish(r, "failed")
       ELSE Keep(r, "update_client", row)
    /\ UNCHANGED <<tenantVars, clients>>

\* update sets the status of the form, rotate_secret the secret.
ChangedClient(row, r) ==
    IF job[r].kind = "client_edit" THEN [row EXCEPT !.status = job[r].want] ELSE [row EXCEPT !.secret = r]

\* Every column is written.  The page of a new secret gets the client again.
UpdateClient(r) ==
    LET c == job[r].arg IN
    /\ pc[r] = "update_client"
    /\ clients' = [clients EXCEPT ![c] = ChangedClient(job[r].row, r)]
    /\ IF job[r].kind = "client_edit" THEN Finish(r, "ok") ELSE Goto(r, "show")
    /\ UNCHANGED tenantVars

\* get_client, for the page that shows the new secret.
ShowSecret(r) ==
    /\ pc[r] = "show"
    /\ Finish(r, IF Selected(job[r].arg, job[r].at) = None THEN "failed" ELSE "ok")
    /\ UNCHANGED <<tenantVars, clients>>

ClientStep(r) ==
    \/ CreateClientForm(r) \/ EditClientForm(r) \/ RotateSecretForm(r)
    \/ Peek(r) \/ InsertClient(r) \/ LoadClient(r) \/ UpdateClient(r) \/ ShowSecret(r)
=============================================================================
