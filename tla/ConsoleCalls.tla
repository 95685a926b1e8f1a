---------------------------- MODULE ConsoleCalls ----------------------------
(***************************************************************************)
(* The calls of the administration console.  A member of Requests is one   *)
(* form sent to the web front end and the API call it makes; it also names *)
(* the tenant, the client or the service provider which the call creates.  *)
(* An action of the modules that extend this one is one SQL statement, or  *)
(* one access to the cache, with the code up to the next.                  *)
(*                                                                         *)
(* Only calls that got past the session, the CSRF token and the permission *)
(* are here (module TenantAccess has the permissions); a call whose fields *)
(* are not valid ends without a statement and is left out too, except for  *)
(* the runtime settings, whose validation a restart depends on.            *)
(***************************************************************************)
EXTENDS Integers, Sequences

CONSTANTS
    Requests,    \* the forms that may be sent (bound)
    Workloads,   \* sets of kinds of forms; a behaviour has forms of one (bound)
    None

VARIABLES
    load,        \* the workload
    pc, job      \* where each call stands, and its locals

callVars == <<load, pc, job>>

CallInit ==
    /\ load \in Workloads
    /\ pc = [r \in Requests |-> "new"]
    /\ job = [r \in Requests |-> None]

\* A form of kind k: at tenant t (None: at the root), about row x, asking for w.
Send(r, k, t, x, w, l) ==
    /\ pc[r] = "new" /\ k \in load
    /\ pc' = [pc EXCEPT ![r] = l]
    /\ job' = [job EXCEPT ![r] = [kind |-> k, at |-> t, arg |-> x, want |-> w, row |-> None]]
    /\ UNCHANGED load

Goto(r, l) == pc' = [pc EXCEPT ![r] = l] /\ UNCHANGED <<load, job>>

\* The call goes on with the row it has read.
Keep(r, l, row) ==
    /\ pc' = [pc EXCEPT ![r] = l] /\ job' = [job EXCEPT ![r].row = row]
    /\ UNCHANGED load

\* The call is answered.
Finish(r, l) ==
    /\ pc' = [pc EXCEPT ![r] = l] /\ job' = [job EXCEPT ![r] = None]
    /\ UNCHANGED load

Running(r) == pc[r] \notin {"new", "ok", "failed"}
=============================================================================
