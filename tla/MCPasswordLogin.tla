-------------------------- MODULE MCPasswordLogin --------------------------
(* Finite instances of PasswordLogin for TLC.                               *)
EXTENDS PasswordLogin, TLC

VARIABLE load    \* which of two workloads a behaviour runs, chosen at the start

OneTenant == [u \in Users |-> CHOOSE t \in Tenants : TRUE]

Interchangeable == Permutations(Requests)

\* The counter, the lock and the limiter: overlapping calls of one address at
\* the doors that count, restarts and failing statements.
LockoutNext ==
    \/ Tick \/ Restart
    \/ \E u \in Users : MarkEmailVerified(u)
    \/ \E r \in Requests, u \in Users, ip \in Ips :
          \/ PresentPasswordInFlow(r, u, ip)
          \/ \E k \in {"portal", "admin"} : PresentPassword(r, k, u, ip)
    \/ \E r \in Requests : Step(r) \/ CallFails(r)

\* Who gets a session or a ticket: two calls, of no known address, at every
\* other door, to accounts that everything may happen to.
SessionsNext ==
    \/ Tick
    \/ \E u \in Users : ResetPasswordFor(u) \/ SetStatus(u) \/ ChangeTotp(u)
    \/ /\ Cardinality({r \in Requests : pc[r] # "new"}) < 2
       /\ \E r, x \in Requests :
             \/ \E k \in Kinds, u \in Users : PresentPassword(r, k, u, None)
             \/ \E t \in Tenants : PresentTicket(r, x, t, None)
             \/ ChangeOwnPassword(r, x)
    \/ \E r \in Requests : Step(r)

MCInit == Init /\ load \in {"lockout", "sessions"}

MCNext == /\ UNCHANGED load
          /\ \/ load = "lockout" /\ LockoutNext
             \/ load = "sessions" /\ SessionsNext

MCSpec == MCInit /\ [][MCNext]_<<vars, load>>
=============================================================================
