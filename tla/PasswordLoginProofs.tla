------------------------ MODULE PasswordLoginProofs ------------------------
(***************************************************************************)
(* Proofs about PasswordLogin: for any number of accounts, calls and       *)
(* addresses, any limits, and with faults and restarts.                    *)
(***************************************************************************)
EXTENDS PasswordLogin, FiniteSetTheorems, TLAPS

\* The counter of an account never runs ahead of its wrong passwords.
AccountOK(u) ==
    /\ users[u].failed <= wrong[u]
    /\ users[u].locked # None => wrong[u] >= MaxFailed

\* A call about to count has itself added a wrong password since it read.
CountOK(r) == pc[r] = "count" => job[r].row.failed + 1 <= wrong[job[r].user]

\* `bare` knows the present of every call's account.
WatchOK(r) ==
    job[r] # None => /\ job[r].time <= now
                     /\ users[job[r].user].totp \/ r \in bare

\* What a call has behind it at each place.
PlaceOK(r) ==
    /\ pc[r] \in {"auth", "session"} => job[r].kind # "portal_mfa"
    /\ pc[r] = "permission" => job[r].kind \in {"admin", "admin_change"}
    /\ pc[r] = "newpwd" => job[r].kind \in {"portal_change", "admin_change", "account"}
    /\ pc[r] = "uncount" => job[r].kind \in {"login", "portal", "portal_change", "admin", "admin_change"}
    /\ pc[r] = "totp" => job[r].kind \in {"portal", "portal_change", "portal_mfa"}
    /\ pc[r] = "sso" /\ job[r].kind \in {"portal", "portal_change"} => r \in bare
    /\ pc[r] \in Informed \ {"count"} /\ job[r].kind # "portal_mfa" => job[r].right = TRUE

\* A ticket was handed out by a call that ended well after a right password.
TicketOK(r) ==
    tickets[r] # None => /\ pc[r] = "ok" /\ job[r].right = TRUE
                         /\ tickets[r] = job[r].time + TicketTtl

\* The call presented a ticket for its account ...
TicketOf(r) ==
    LET x == job[r].from IN
    /\ x \in Requests /\ tickets[x] # None
    /\ job[x].user = job[r].user /\ job[x].time <= job[r].time

\* ... and did so in time and at the tenant of the ticket.
FromTicket(r) ==
    /\ TicketOf(r)
    /\ job[job[r].from].tenant = job[r].tenant /\ job[r].time <= tickets[job[r].from]

MfaOK(r) ==
    job[r].kind = "portal_mfa" =>
        /\ pc[r] = "limit" => TicketOf(r)
        /\ pc[r] \in {"find", "totp", "sso"} => FromTicket(r)

\* A session stands for what was established when it was created.
SessionOK(r) ==
    sso[r] # None =>
        /\ pc[r] = "ok" /\ sso[r] = job[r].user
        /\ job[r].kind \in {"portal", "portal_change"} => r \in bare
        /\ job[r].kind = "portal_mfa" => FromTicket(r)

CallOK(r) == /\ CountOK(r) /\ WatchOK(r) /\ PlaceOK(r) /\ TicketOK(r) /\ MfaOK(r) /\ SessionOK(r)

IInv == TypeOK /\ (\A u \in Users : AccountOK(u)) /\ (\A r \in Requests : CallOK(r))
-----------------------------------------------------------------------------
(* Rows.                                                                    *)

USE DEF Goto, limiter

\* A column that is rewritten leaves the row an account.
LEMMA RewrittenRows ==
    ASSUME NEW row \in Account, NEW b \in BOOLEAN
    PROVE  /\ \A st \in {"ACTIVE", "DISABLED"} : [row EXCEPT !.status = st] \in Account
           /\ [row EXCEPT !.mustChange = b] \in Account
           /\ [row EXCEPT !.verified = b] \in Account
           /\ [row EXCEPT !.totp = b] \in Account
  BY DEF Account

\* The lockout columns are all that a counted failure writes.
LEMMA CountedRow ==
    ASSUME NEW row \in Account, NEW n \in Nat, NEW t \in Int
    PROVE  /\ Counted(row, n, t) \in Account
           /\ Counted(row, n, t).failed = n
           /\ Counted(row, n, t).locked # None => n >= MaxFailed
           /\ Counted(row, n, t).totp = row.totp
  <1>1. LockTtl \in Nat /\ MaxFailed \in Nat  BY LoginAssumption DEF LoginAssumption
  <1>2. Counted(row, n, t) = [row EXCEPT !.failed = n,
                                         !.locked = IF n >= MaxFailed THEN t + LockTtl ELSE None]
    BY DEF Counted
  <1>3. (IF n >= MaxFailed THEN t + LockTtl ELSE None) \in Int \cup {None}  BY <1>1
  <1>4. QED  BY <1>1, <1>2, <1>3 DEF Account

\* And a reset.
LEMMA ResetRow ==
    ASSUME NEW row \in Account
    PROVE  LET x == [row EXCEPT !.failed = 0, !.locked = None] IN
           x \in Account /\ x.failed = 0 /\ x.locked = None /\ x.totp = row.totp
  BY DEF Account

\* A call's locals after it read the row, after its password, after its code.
LEMMA LocalRows ==
    ASSUME NEW j \in Job, NEW row \in Account, NEW b \in BOOLEAN
    PROVE  /\ [j EXCEPT !.row = row] \in Job
           /\ [j EXCEPT !.right = b] \in Job
           /\ [j EXCEPT !.row = row, !.right = b] \in Job
  BY DEF Job

\* A started call has locals, and its account is known.
LEMMA Started ==
    ASSUME TypeOK, NEW r \in Requests, job[r] # None
    PROVE  job[r] \in Job /\ job[r].user \in Users /\ job[r].tenant \in Tenants
           /\ job[r].kind \in Kinds /\ job[r].time \in Int /\ users[job[r].user] \in Account
  <1>1. job[r] \in Job  BY DEF TypeOK
  <1>2. QED  BY <1>1 DEF Job, TypeOK

\* And a call that has the row really has one.
LEMMA InformedRow ==
    ASSUME TypeOK, NEW r \in Requests, pc[r] \in Informed
    PROVE  job[r] # None /\ job[r] \in Job /\ job[r].row \in Account
  <1>0. \A q \in Requests : /\ pc[q] # "new" => job[q] # None
                            /\ pc[q] \in Informed => job[q].row # None
    BY DEF TypeOK
  <1>1. job[r] # None /\ job[r].row # None  BY <1>0 DEF Informed
  <1>2. job[r] \in Job  BY <1>1, Started
  <1>3. QED  BY <1>1, <1>2 DEF Job
-----------------------------------------------------------------------------
(* Typing.                                                                  *)

\* The locals of a new call.
LEMMA FreshJob ==
    ASSUME TypeOK, NEW k \in Kinds, NEW u \in Users, NEW t \in Tenants, NEW ip \in Ips \cup {None},
           NEW from \in Requests \cup {None}
    PROVE  Fresh(k, u, t, ip, from) \in Job /\ Fresh(k, u, t, ip, from) # None
  <1>1. now \in Int  BY LoginAssumption DEF LoginAssumption, TypeOK
  <1>2. Fresh(k, u, t, ip, from) \in Job  BY <1>1 DEF Fresh, Job
  <1>3. QED  BY <1>2, NoneIsNoRecord DEF NoneIsNoRecord

\* A step that leaves accounts, tickets, sessions and calls alone but for
\* moving call r, with typed locals, to a known place.
LEMMA MoveType ==
    ASSUME TypeOK, NEW r \in Requests, NEW l \in Pcs, pc' = [pc EXCEPT ![r] = l],
           NEW j \in Job, job' = [job EXCEPT ![r] = j], l \in Informed => j.row # None
    PROVE  /\ pc' \in [Requests -> Pcs] /\ job' \in [Requests -> Job \cup {None}]
           /\ \A q \in Requests : /\ pc'[q] # "new" => job'[q] # None
                                  /\ pc'[q] \in Informed => job'[q].row # None
           /\ \A q \in Requests : job[q] # None => job'[q] # None
           /\ \A q \in Requests : q # r => pc'[q] = pc[q] /\ job'[q] = job[q]
           /\ pc'[r] = l /\ job'[r] = j
  <1>1. pc' \in [Requests -> Pcs] /\ job' \in [Requests -> Job \cup {None}]
    BY DEF TypeOK
  <1>2. \A q \in Requests : q # r => pc'[q] = pc[q] /\ job'[q] = job[q]
    BY DEF TypeOK
  <1>3. pc'[r] = l /\ job'[r] = j
    BY DEF TypeOK
  <1>4. j # None
    BY NoneIsNoRecord DEF NoneIsNoRecord
  <1>5. \A q \in Requests : /\ pc[q] # "new" => job[q] # None
                            /\ pc[q] \in Informed => job[q].row # None
    BY DEF TypeOK
  <1>6. \A q \in Requests : /\ pc'[q] # "new" => job'[q] # None
                            /\ pc'[q] \in Informed => job'[q].row # None
    <2>1. SUFFICES ASSUME NEW q \in Requests
                   PROVE  /\ pc'[q] # "new" => job'[q] # None
                          /\ pc'[q] \in Informed => job'[q].row # None
      OBVIOUS
    <2>2. CASE q = r  BY <2>2, <1>3, <1>4
    <2>3. CASE q # r  BY <2>3, <1>2, <1>5
    <2>4. QED  BY <2>2, <2>3
  <1>7. \A q \in Requests : job[q] # None => job'[q] # None
    BY <1>2, <1>3, <1>4
  <1>8. QED  BY <1>1, <1>2, <1>3, <1>6, <1>7
-----------------------------------------------------------------------------
(* What a step of call r leaves to the others.                              *)

\* Time, the history and the accounts move on in the direction the invariant
\* allows, and nothing but call r is touched.
Frame(r) ==
    /\ now \in Int /\ now' \in Int /\ now <= now'
    /\ \A u \in Users : wrong[u] \in Nat /\ wrong'[u] \in Nat /\ wrong[u] <= wrong'[u]
    /\ \A u \in Users : users'[u].totp = users[u].totp
    /\ bare \subseteq bare'
    /\ \A q \in Requests : q # r => /\ pc'[q] = pc[q] /\ job'[q] = job[q]
                                    /\ tickets'[q] = tickets[q] /\ sso'[q] = sso[q]

\* A call that is not at "ok" has neither a ticket nor a session.
LEMMA NothingYet ==
    ASSUME IInv, NEW r \in Requests, pc[r] # "ok"
    PROVE  tickets[r] = None /\ sso[r] = None
  BY DEF IInv, CallOK, TicketOK, SessionOK

\* The ticket a call came with is that of another call, and stays.
LEMMA TicketStays ==
    ASSUME IInv, NEW r \in Requests, pc[r] # "ok", Frame(r),
           NEW q \in Requests, TicketOf(q), job'[q].from = job[q].from,
           job'[q].user = job[q].user, job'[q].tenant = job[q].tenant, job'[q].time = job[q].time
    PROVE  TicketOf(q)' /\ (FromTicket(q) => FromTicket(q)')
  <1> DEFINE x == job[q].from
  <1>1. x \in Requests /\ tickets[x] # None  BY DEF TicketOf
  <1>2. x # r  BY <1>1, NothingYet
  <1>3. tickets'[x] = tickets[x] /\ job'[x] = job[x]  BY <1>1, <1>2 DEF Frame
  <1>4. QED  BY <1>1, <1>3 DEF FromTicket, TicketOf

LEMMA Others ==
    ASSUME IInv, NEW r \in Requests, pc[r] # "ok", Frame(r), NEW q \in Requests, q # r
    PROVE  CallOK(q)'
  <1>1. pc'[q] = pc[q] /\ job'[q] = job[q] /\ tickets'[q] = tickets[q] /\ sso'[q] = sso[q]
    BY DEF Frame
  <1>2. CallOK(q) /\ TypeOK  BY DEF IInv
  <1>3. CountOK(q)'
    <2>1. SUFFICES ASSUME pc[q] = "count"
                   PROVE  job[q].row.failed + 1 <= wrong'[job[q].user]
      BY <1>1 DEF CountOK
    <2>2. job[q].row \in Account /\ job[q] \in Job  BY <2>1, <1>2, InformedRow DEF Informed
    <2>3. job[q].row.failed \in Nat /\ job[q].user \in Users  BY <2>2 DEF Account, Job
    <2>4. job[q].row.failed + 1 <= wrong[job[q].user]  BY <2>1, <1>2 DEF CallOK, CountOK
    <2>5. QED  BY <2>3, <2>4 DEF Frame
  <1>4. WatchOK(q)'
    <2>1. SUFFICES ASSUME job[q] # None
                   PROVE  /\ job[q].time <= now'
                          /\ users'[job[q].user].totp \/ q \in bare'
      BY <1>1 DEF WatchOK
    <2>2. job[q].user \in Users /\ job[q].time \in Int  BY <2>1, <1>2, Started
    <2>3. WatchOK(q)  BY <1>2 DEF CallOK
    <2>4. QED  BY <2>1, <2>2, <2>3 DEF WatchOK, Frame
  <1>5. PlaceOK(q)'  BY <1>1, <1>2 DEF CallOK, PlaceOK, Frame
  <1>6. TicketOK(q)'  BY <1>1, <1>2 DEF CallOK, TicketOK
  <1>7. (TicketOf(q) => TicketOf(q)') /\ (FromTicket(q) => FromTicket(q)')
    BY <1>1, TicketStays DEF FromTicket
  <1>8. MfaOK(q)'  BY <1>1, <1>2, <1>7 DEF CallOK, MfaOK
  <1>9. SessionOK(q)'  BY <1>1, <1>2, <1>7 DEF CallOK, SessionOK, Frame
  <1>10. QED  BY <1>3, <1>4, <1>5, <1>6, <1>8, <1>9 DEF CallOK

\* So a step of call r has to account for itself only.
LEMMA Assemble ==
    ASSUME IInv, NEW r \in Requests, pc[r] # "ok", Frame(r), TypeOK',
           \A u \in Users : AccountOK(u)', CallOK(r)'
    PROVE  IInv'
  BY Others DEF IInv

\* The accounts when neither they nor the history changed.
LEMMA AccountsStay ==
    ASSUME IInv, UNCHANGED <<users, wrong>>
    PROVE  \A u \in Users : AccountOK(u)'
  BY DEF IInv, AccountOK

LEMMA NowType == ASSUME TypeOK PROVE now \in Int /\ now \in 0..MaxNow
  BY LoginAssumption DEF LoginAssumption, TypeOK

\* A step that only moves a call on, or back from the limiter.
LEMMA Moved ==
    ASSUME IInv, NEW r \in Requests, pc[r] \notin {"new", "ok"}, NEW l \in Pcs,
           pc' = [pc EXCEPT ![r] = l],
           UNCHANGED <<now, users, tickets, sso, job, wrong, streak, bare>>,
           disturbed' \subseteq disturbed \cup {job[r].user},
           recorded' \subseteq recorded \cup {r}, admitted' \subseteq admitted \cup {r},
           latest' = latest \/ latest' \in Int, blind' \subseteq blind \cup {r},
           l \in Informed => pc[r] \in Informed,
           CountOK(r)', PlaceOK(r)', MfaOK(r)'
    PROVE  IInv'
  <1>1. TypeOK  BY DEF IInv
  <1>2. job[r] # None /\ job[r] \in Job /\ job[r].user \in Users
    BY <1>1, Started DEF TypeOK
  <1>3. job' = [job EXCEPT ![r] = job[r]]  BY <1>1 DEF TypeOK
  <1>4. l \in Informed => job[r].row # None  BY <1>1 DEF TypeOK
  <1>5. /\ pc' \in [Requests -> Pcs] /\ job' \in [Requests -> Job \cup {None}]
        /\ \A q \in Requests : /\ pc'[q] # "new" => job'[q] # None
                               /\ pc'[q] \in Informed => job'[q].row # None
        /\ \A q \in Requests : q # r => pc'[q] = pc[q] /\ job'[q] = job[q]
        /\ pc'[r] = l
    BY <1>1, <1>2, <1>3, <1>4, MoveType
  <1>6. recorded' \subseteq {q \in Requests : job'[q] # None} /\ admitted' \subseteq Requests
        /\ disturbed' \subseteq Users /\ blind' \subseteq Requests
    BY <1>1, <1>2 DEF TypeOK
  <1>7. TypeOK'  BY <1>1, <1>5, <1>6 DEF TypeOK
  <1>8. Frame(r)  BY <1>1, <1>5, NowType DEF Frame, TypeOK
  <1>9. \A u \in Users : AccountOK(u)'  BY AccountsStay
  <1>10. WatchOK(r)'  BY DEF IInv, CallOK, WatchOK
  <1>11. tickets[r] = None /\ sso[r] = None  BY NothingYet
  <1>12. TicketOK(r)' /\ SessionOK(r)'  BY <1>11 DEF TicketOK, SessionOK
  <1>13. CallOK(r)'  BY <1>10, <1>12 DEF CallOK
  <1>14. QED  BY <1>7, <1>8, <1>9, <1>13, Assemble

\* A call that ends without a ticket or a session has nothing to show.
LEMMA EndedOK ==
    ASSUME NEW r \in Requests, pc'[r] \in Ended
    PROVE  CountOK(r)' /\ PlaceOK(r)' /\ MfaOK(r)'
  BY DEF Ended, CountOK, PlaceOK, MfaOK, Informed

\* What the limiter does to its memory, and where it sends a call.
LEMMA LimiterStep ==
    ASSUME TypeOK, NEW r \in Requests, NEW ip, NEW time \in Int, NEW l, CheckAndRecord(r, ip, time, l)
    PROVE  /\ recorded' \subseteq recorded \cup {r} /\ admitted' \subseteq admitted \cup {r}
           /\ latest' \in Int /\ blind' \subseteq blind \cup {r}
           /\ pc' = [pc EXCEPT ![r] = l] \/ pc' = [pc EXCEPT ![r] = "failed"]
  <1>1. latest \in Int  BY DEF TypeOK
  <1>2. QED  BY <1>1 DEF CheckAndRecord, Kept
-----------------------------------------------------------------------------
(* Calls begin.                                                             *)

LEMMA Begun ==
    ASSUME IInv, NEW r \in Requests, NEW k \in Kinds, NEW u \in Users, NEW t \in Tenants,
           NEW ip \in Ips \cup {None}, NEW from \in Requests \cup {None},
           NEW l \in {"auth", "session", "limit"}, Begin(r, Fresh(k, u, t, ip, from), l),
           l \in {"auth", "session"} => k # "portal_mfa",
           k = "portal_mfa" => /\ from \in Requests /\ tickets[from] # None
                               /\ job[from].user = u /\ job[from].time <= now
    PROVE  IInv'
  <1> DEFINE j == Fresh(k, u, t, ip, from)
  <1>1. TypeOK /\ pc[r] = "new"  BY DEF IInv, Begin
  <1>2. j \in Job /\ j # None  BY <1>1, FreshJob
  <1>3. /\ j.user = u /\ j.kind = k /\ j.time = now /\ j.from = from /\ j.tenant = t
    BY DEF Fresh
  <1>4. /\ job' = [job EXCEPT ![r] = j] /\ pc' = [pc EXCEPT ![r] = l]
        /\ UNCHANGED <<now, users, limiter, tickets, sso, wrong, streak>>
    BY DEF Begin
  <1>5. l \in Pcs /\ l \notin Informed  BY DEF Pcs, Informed
  <1>6. /\ pc' \in [Requests -> Pcs] /\ job' \in [Requests -> Job \cup {None}]
        /\ \A q \in Requests : /\ pc'[q] # "new" => job'[q] # None
                               /\ pc'[q] \in Informed => job'[q].row # None
        /\ \A q \in Requests : job[q] # None => job'[q] # None
        /\ \A q \in Requests : q # r => pc'[q] = pc[q] /\ job'[q] = job[q]
        /\ pc'[r] = l /\ job'[r] = j
    BY <1>1, <1>2, <1>4, <1>5, MoveType
  <1>7. recorded' \subseteq {q \in Requests : job'[q] # None}
    BY <1>1, <1>4, <1>6 DEF TypeOK
  <1>8. /\ bare \subseteq bare' /\ bare' \subseteq Requests
        /\ disturbed' \subseteq Users
    BY <1>1, <1>3 DEF Begin, TypeOK
  <1>9. TypeOK'  BY <1>1, <1>4, <1>6, <1>7, <1>8 DEF TypeOK
  <1>10. Frame(r)  BY <1>1, <1>4, <1>6, <1>8, NowType DEF Frame, TypeOK
  <1>11. \A v \in Users : AccountOK(v)'  BY <1>4, AccountsStay
  <1>12. WatchOK(r)'
    <2>1. users[u].totp \/ r \in bare'  BY <1>3 DEF Begin
    <2>2. QED  BY <2>1, <1>1, <1>3, <1>4, <1>6, NowType DEF WatchOK
  <1>13. CountOK(r)' /\ PlaceOK(r)'  BY <1>3, <1>5, <1>6 DEF CountOK, PlaceOK, Informed
  <1>14. tickets[r] = None /\ sso[r] = None  BY <1>1, NothingYet
  <1>15. TicketOK(r)' /\ SessionOK(r)'  BY <1>4, <1>14 DEF TicketOK, SessionOK
  <1>16. MfaOK(r)'
    <2>1. SUFFICES ASSUME k = "portal_mfa"  PROVE TicketOf(r)'
      BY <1>3, <1>6 DEF MfaOK
    <2>2. from # r  BY <2>1, <1>14
    <2>3. QED  BY <2>1, <2>2, <1>3, <1>4, <1>6 DEF TicketOf
  <1>17. CallOK(r)'  BY <1>12, <1>13, <1>15, <1>16 DEF CallOK
  <1>18. QED  BY <1>1, <1>9, <1>10, <1>11, <1>17, Assemble

LEMMA BeginSteps ==
    ASSUME IInv, NEW r \in Requests
    PROVE  /\ \A k \in Kinds, u \in Users, ip \in Ips : PresentPassword(r, k, u, ip) => IInv'
           /\ \A u \in Users, ip \in Ips : PresentPasswordInFlow(r, u, ip) => IInv'
           /\ \A x \in Requests, t \in Tenants, ip \in Ips : PresentTicket(r, x, t, ip) => IInv'
           /\ \A x \in Requests : ChangeOwnPassword(r, x) => IInv'
  <1>0. TypeOK /\ \A v \in Users : Home[v] \in Tenants
    BY LoginAssumption DEF LoginAssumption, IInv
  <1>1. ASSUME NEW k \in Kinds, NEW u \in Users, NEW ip \in Ips, PresentPassword(r, k, u, ip)
        PROVE  IInv'
    <2>1. k # "portal_mfa" /\ Begin(r, Fresh(k, u, Home[u], ip, None), "limit")
      BY <1>1 DEF PresentPassword
    <2>2. Home[u] \in Tenants  BY <1>0
    <2>3. QED  BY <2>1, <2>2, Begun
  <1>2. ASSUME NEW u \in Users, NEW ip \in Ips, PresentPasswordInFlow(r, u, ip)
        PROVE  IInv'
    <2>1. Begin(r, Fresh("login", u, Home[u], ip, None), "auth")
      BY <1>2 DEF PresentPasswordInFlow
    <2>2. "login" \in Kinds  BY <2>1 DEF Begin, Fresh
    <2>3. Home[u] \in Tenants  BY <1>0
    <2>4. QED  BY <2>1, <2>2, <2>3, Begun
  <1>3. ASSUME NEW x \in Requests, NEW t \in Tenants, NEW ip \in Ips, PresentTicket(r, x, t, ip)
        PROVE  IInv'
    <2>1. /\ pc[x] = "ok" /\ tickets[x] # None
          /\ Begin(r, Fresh("portal_mfa", job[x].user, t, ip, x), "limit")
      BY <1>3 DEF PresentTicket
    <2>2. "portal_mfa" \in Kinds  BY <2>1 DEF Begin, Fresh
    <2>3. job[x] # None /\ job[x].user \in Users  BY <1>0, <2>1, Started DEF TypeOK
    <2>4. job[x].time <= now  BY <2>3 DEF IInv, CallOK, WatchOK
    <2>5. QED  BY <2>1, <2>2, <2>3, <2>4, Begun
  <1>4. ASSUME NEW x \in Requests, ChangeOwnPassword(r, x)
        PROVE  IInv'
    <2>1. sso[x] # None /\ Begin(r, Fresh("account", sso[x], Home[sso[x]], None, x), "session")
      BY <1>4 DEF ChangeOwnPassword
    <2>2. "account" \in Kinds  BY <2>1 DEF Begin, Fresh
    <2>3. sso[x] \in Users /\ Home[sso[x]] \in Tenants  BY <2>1, <1>0 DEF TypeOK
    <2>4. QED  BY <2>1, <2>2, <2>3, Begun
  <1>5. QED  BY <1>1, <1>2, <1>3, <1>4
-----------------------------------------------------------------------------
(* Calls go on.                                                             *)

LEMMA FindAuthSessionStep ==
    ASSUME IInv, NEW r \in Requests, FindAuthSession(r)
    PROVE  IInv'
  <1>1. TypeOK /\ pc[r] = "auth" /\ latest \in Int  BY DEF IInv, FindAuthSession, TypeOK
  <1>2. UNCHANGED <<now, users, limiter, tickets, sso, job, wrong, streak, disturbed, bare>>
    BY DEF FindAuthSession, history
  <1>3. job[r].kind # "portal_mfa"  BY <1>1 DEF IInv, CallOK, PlaceOK
  <1>4. PICK l \in {"limit", "failed"} : pc' = [pc EXCEPT ![r] = l]  BY DEF FindAuthSession
  <1>5. pc'[r] = l /\ job'[r].kind # "portal_mfa"  BY <1>1, <1>2, <1>3, <1>4 DEF TypeOK
  <1>6. CountOK(r)' /\ PlaceOK(r)' /\ MfaOK(r)'
    BY <1>5 DEF CountOK, PlaceOK, MfaOK, Informed
  <1>7. QED  BY <1>1, <1>2, <1>4, <1>6, Moved DEF Pcs, Informed

LEMMA AskLimiterStep ==
    ASSUME IInv, NEW r \in Requests, AskLimiter(r)
    PROVE  IInv'
  <1>1. TypeOK /\ pc[r] = "limit"  BY DEF IInv, AskLimiter
  <1>2. UNCHANGED <<now, users, tickets, sso, job, wrong, streak, disturbed, bare>>
    BY DEF AskLimiter, history
  <1>3. PICK found \in BOOLEAN :
            /\ job[r].kind = "portal_mfa" => found = TicketValid(job[r].from, job[r].tenant, job[r].time)
            /\ CheckAndRecord(r, job[r].ip, job[r].time, IF found THEN "find" ELSE "failed")
    BY DEF AskLimiter
  <1>4. job[r].time \in Int  BY <1>1, Started DEF TypeOK
  <1>5. PICK l : /\ (l = "failed" \/ (l = "find" /\ found)) /\ pc' = [pc EXCEPT ![r] = l]
                 /\ recorded' \subseteq recorded \cup {r} /\ admitted' \subseteq admitted \cup {r}
                 /\ latest' \in Int /\ blind' \subseteq blind \cup {r}
    <2>1. CASE found  BY <1>1, <1>3, <1>4, <2>1, LimiterStep
    <2>2. CASE ~found  BY <1>1, <1>3, <1>4, <2>2, LimiterStep
    <2>3. QED  BY <2>1, <2>2
  <1>6. pc'[r] = l  BY <1>1, <1>5 DEF TypeOK
  <1>7. CASE l = "find"
    <2>1. job[r].kind = "portal_mfa" => FromTicket(r)'
      <3>1. SUFFICES ASSUME job[r].kind = "portal_mfa"  PROVE FromTicket(r)'
        OBVIOUS
      <3>2. TicketOf(r)  BY <1>1, <3>1 DEF IInv, CallOK, MfaOK
      <3>3. TicketValid(job[r].from, job[r].tenant, job[r].time)  BY <1>3, <1>5, <1>7, <3>1
      <3>4. QED  BY <1>2, <3>2, <3>3 DEF FromTicket, TicketOf, TicketValid
    <2>2. CountOK(r)' /\ PlaceOK(r)' /\ MfaOK(r)'
      BY <1>2, <1>6, <1>7, <2>1 DEF CountOK, PlaceOK, MfaOK, Informed
    <2>3. l \in Pcs /\ l \notin Informed  BY <1>7 DEF Pcs, Informed
    <2>4. QED  BY <1>1, <1>2, <1>5, <2>2, <2>3, Moved
  <1>8. CASE l = "failed"
    <2>1. CountOK(r)' /\ PlaceOK(r)' /\ MfaOK(r)'  BY <1>6, <1>8, EndedOK DEF Ended
    <2>2. l \in Pcs /\ l \notin Informed  BY <1>8 DEF Pcs, Informed
    <2>3. QED  BY <1>1, <1>2, <1>5, <2>1, <2>2, Moved
  <1>9. QED  BY <1>5, <1>7, <1>8

LEMMA FindSessionStep ==
    ASSUME IInv, NEW r \in Requests, FindSession(r)
    PROVE  IInv'
  <1>1. TypeOK /\ pc[r] = "session"  BY DEF IInv, FindSession
  <1>2. UNCHANGED <<now, users, limiter, tickets, sso, job, wrong, streak, disturbed, bare>>
    BY DEF FindSession, history
  <1>3. pc' = [pc EXCEPT ![r] = "find"] \/ pc' = [pc EXCEPT ![r] = "failed"]
    BY DEF FindSession
  <1>4. job[r].kind # "portal_mfa"
    BY <1>1 DEF IInv, CallOK, PlaceOK
  <1>5. PICK l \in {"find", "failed"} : pc' = [pc EXCEPT ![r] = l]  BY <1>3
  <1>6. pc'[r] = l /\ job'[r].kind # "portal_mfa"  BY <1>1, <1>2, <1>4, <1>5 DEF TypeOK
  <1>7. CountOK(r)' /\ PlaceOK(r)' /\ MfaOK(r)'
    BY <1>6 DEF CountOK, PlaceOK, MfaOK, Informed
  <1>8. QED  BY <1>1, <1>2, <1>5, <1>7, Moved DEF Pcs, Informed

LEMMA CallFailsStep ==
    ASSUME IInv, NEW r \in Requests, CallFails(r)
    PROVE  IInv'
  <1>1. /\ TypeOK /\ pc[r] \notin {"new", "ok"} /\ pc' = [pc EXCEPT ![r] = "failed"]
        /\ disturbed' = disturbed \cup {job[r].user}
        /\ UNCHANGED <<now, users, limiter, tickets, sso, job, wrong, streak, bare>>
    BY DEF IInv, CallFails, Ended
  <1>2. pc'[r] = "failed"  BY <1>1 DEF TypeOK
  <1>3. CountOK(r)' /\ PlaceOK(r)' /\ MfaOK(r)'  BY <1>2, EndedOK DEF Ended
  <1>4. QED  BY <1>1, <1>3, Moved DEF Pcs, Informed

\* The step of a call that writes: an account's row, a ticket, a session, or
\* its own locals.
LEMMA Stepped ==
    ASSUME IInv, NEW r \in Requests, pc[r] \notin {"new", "ok"}, NEW l \in Pcs,
           pc' = [pc EXCEPT ![r] = l], NEW j \in Job, job' = [job EXCEPT ![r] = j],
           j.user = job[r].user, j.time = job[r].time, l \in Informed => j.row # None,
           UNCHANGED <<now, limiter, disturbed, bare>>,
           users' \in [Users -> Account],
           \A u \in Users : users'[u].totp = users[u].totp,
           wrong' \in [Users -> Nat], streak' \in [Users -> Nat],
           \A u \in Users : wrong[u] <= wrong'[u],
           tickets' \in [Requests -> Int \cup {None}], sso' \in [Requests -> Users \cup {None}],
           \A q \in Requests : q # r => tickets'[q] = tickets[q] /\ sso'[q] = sso[q],
           \A u \in Users : AccountOK(u)',
           CountOK(r)', PlaceOK(r)', TicketOK(r)', MfaOK(r)', SessionOK(r)'
    PROVE  IInv'
  <1>1. TypeOK  BY DEF IInv
  <1>2. job[r] # None /\ job[r].user \in Users  BY <1>1, Started DEF TypeOK
  <1>3. /\ pc' \in [Requests -> Pcs] /\ job' \in [Requests -> Job \cup {None}]
        /\ \A q \in Requests : /\ pc'[q] # "new" => job'[q] # None
                               /\ pc'[q] \in Informed => job'[q].row # None
        /\ \A q \in Requests : job[q] # None => job'[q] # None
        /\ \A q \in Requests : q # r => pc'[q] = pc[q] /\ job'[q] = job[q]
        /\ pc'[r] = l /\ job'[r] = j
    BY <1>1, MoveType
  <1>4. recorded' \subseteq {q \in Requests : job'[q] # None}  BY <1>1, <1>3 DEF TypeOK
  <1>5. TypeOK'  BY <1>1, <1>3, <1>4 DEF TypeOK
  <1>6. Frame(r)  BY <1>1, <1>3, NowType DEF Frame, TypeOK
  <1>7. WatchOK(r)'
    <2>1. WatchOK(r)  BY DEF IInv, CallOK
    <2>2. QED  BY <2>1, <1>2, <1>3 DEF WatchOK
  <1>8. CallOK(r)'  BY <1>7 DEF CallOK
  <1>9. QED  BY <1>5, <1>6, <1>8, Assemble

\* As long as a call moves only among the places without a result, it has
\* neither ticket nor session, and keeps the ticket it came with.
LEMMA NoResult ==
    ASSUME IInv, NEW r \in Requests, pc[r] \notin {"new", "ok"}, UNCHANGED <<tickets, sso>>
    PROVE  /\ TicketOK(r)' /\ SessionOK(r)'
           /\ tickets' \in [Requests -> Int \cup {None}] /\ sso' \in [Requests -> Users \cup {None}]
           /\ \A q \in Requests : q # r => tickets'[q] = tickets[q] /\ sso'[q] = sso[q]
  BY NothingYet DEF TicketOK, SessionOK, IInv, TypeOK

LEMMA CountFailureStep ==
    ASSUME IInv, NEW r \in Requests, CountFailure(r)
    PROVE  IInv'
  <1> DEFINE j == job[r]
  <1>1. /\ TypeOK /\ pc[r] = "count" /\ pc' = [pc EXCEPT ![r] = "failed"]
        /\ UNCHANGED <<now, limiter, tickets, sso, job, wrong, streak, disturbed, bare>>
    BY DEF IInv, CountFailure, history
  <1>2. j # None /\ j \in Job /\ j.row \in Account  BY <1>1, InformedRow DEF Informed
  <1>3. j.user \in Users /\ j.row.failed \in Nat /\ j.time \in Int  BY <1>2 DEF Job, Account
  <1>4. j.row.failed + 1 <= wrong[j.user] /\ j.row.failed + 1 \in Nat
    BY <1>1, <1>3 DEF IInv, CallOK, CountOK
  <1>5. PICK time \in j.time..now :
            users' = [users EXCEPT ![j.user] = Counted(@, j.row.failed + 1, time)]
    BY DEF CountFailure
  <1> DEFINE row == Counted(users[j.user], j.row.failed + 1, time)
  <1>6. users[j.user] \in Account /\ time \in Int  BY <1>1, <1>3, <1>5, NowType DEF TypeOK
  <1>7. /\ row \in Account /\ row.failed = j.row.failed + 1
        /\ row.locked # None => j.row.failed + 1 >= MaxFailed
        /\ row.totp = users[j.user].totp
    BY <1>4, <1>6, CountedRow
  <1>8. /\ users' = [users EXCEPT ![j.user] = row] /\ users'[j.user] = row
        /\ \A u \in Users : u # j.user => users'[u] = users[u]
    BY <1>1, <1>3, <1>5 DEF TypeOK
  <1>9. users' \in [Users -> Account]  BY <1>1, <1>7, <1>8 DEF TypeOK
  <1>10. \A u \in Users : users'[u].totp = users[u].totp
    BY <1>7, <1>8
  <1>11. \A u \in Users : AccountOK(u)'
    <2>1. SUFFICES ASSUME NEW u \in Users  PROVE AccountOK(u)'
      OBVIOUS
    <2>2. MaxFailed \in Nat /\ wrong[j.user] \in Nat
      BY <1>1, <1>3, LoginAssumption DEF LoginAssumption, TypeOK
    <2>3. CASE u = j.user  BY <2>2, <2>3, <1>1, <1>4, <1>7, <1>8 DEF AccountOK
    <2>4. CASE u # j.user  BY <2>4, <1>1, <1>8 DEF IInv, AccountOK
    <2>5. QED  BY <2>3, <2>4
  <1>12. pc'[r] = "failed"  BY <1>1 DEF TypeOK
  <1>13. CountOK(r)' /\ PlaceOK(r)' /\ MfaOK(r)'  BY <1>12, EndedOK DEF Ended
  <1>14. job' = [job EXCEPT ![r] = j]  BY <1>1 DEF TypeOK
  <1>15. wrong' \in [Users -> Nat] /\ streak' \in [Users -> Nat] /\ \A u \in Users : wrong[u] <= wrong'[u]
    BY <1>1 DEF TypeOK
  <1>16. "failed" \in Pcs /\ "failed" \notin Informed  BY DEF Pcs, Informed
  <1>17. QED
    BY <1>1, <1>2, <1>9, <1>10, <1>11, <1>13, <1>14, <1>15, <1>16, NoResult, Stepped

LEMMA ResetCountStep ==
    ASSUME IInv, NEW r \in Requests, ResetCount(r)
    PROVE  IInv'
  <1> DEFINE j == job[r]
             l == Proceed(j.kind, j.row)
             row == [users[j.user] EXCEPT !.failed = 0, !.locked = None]
  <1>1. /\ TypeOK /\ pc[r] = "uncount" /\ pc' = [pc EXCEPT ![r] = l]
        /\ streak' = [streak EXCEPT ![j.user] = 0]
        /\ UNCHANGED <<now, limiter, tickets, sso, job, wrong, disturbed, bare>>
    BY DEF IInv, ResetCount
  <1>2. j # None /\ j \in Job /\ j.row \in Account  BY <1>1, InformedRow DEF Informed
  <1>3. j.user \in Users /\ users[j.user] \in Account  BY <1>1, <1>2, Started
  <1>4. row \in Account /\ row.failed = 0 /\ row.locked = None
        /\ row.totp = users[j.user].totp
    BY <1>3, ResetRow
  <1>5. users' = [users EXCEPT ![j.user] = row]  BY <1>1, <1>3 DEF ResetCount, TypeOK
  <1>6. users'[j.user] = row /\ \A u \in Users : u # j.user => users'[u] = users[u]
    BY <1>1, <1>3, <1>5 DEF TypeOK
  <1>7. users' \in [Users -> Account]  BY <1>1, <1>4, <1>5 DEF TypeOK
  <1>8. \A u \in Users : users'[u].totp = users[u].totp
    BY <1>4, <1>6
  <1>9. \A u \in Users : AccountOK(u)'
    <2>1. SUFFICES ASSUME NEW u \in Users  PROVE AccountOK(u)'
      OBVIOUS
    <2>2. wrong[j.user] \in Nat  BY <1>1, <1>3 DEF TypeOK
    <2>3. CASE u = j.user  BY <2>2, <2>3, <1>1, <1>4, <1>6 DEF AccountOK
    <2>4. CASE u # j.user  BY <2>4, <1>1, <1>6 DEF IInv, AccountOK
    <2>5. QED  BY <2>3, <2>4
  <1>10. /\ j.kind \in {"login", "portal", "portal_change", "admin", "admin_change"}
         /\ j.right = TRUE
    BY <1>1 DEF IInv, CallOK, PlaceOK, Informed
  <1>11. /\ l \in {"ok", "failed", "totp", "sso"}
         /\ l = "totp" => j.kind \in {"portal", "portal_change"}
         /\ l = "sso" => j.kind \in {"admin", "admin_change"}
    BY <1>10 DEF Proceed
  <1>12. pc'[r] = l /\ job'[r] = j  BY <1>1 DEF TypeOK
  <1>a. j.row # None  BY <1>2, NoneIsNoRecord DEF NoneIsNoRecord
  <1> HIDE DEF l, row, j
  <1>13. CountOK(r)' /\ PlaceOK(r)' /\ MfaOK(r)'
    BY <1>1, <1>10, <1>11, <1>12 DEF CountOK, PlaceOK, MfaOK, Informed
  <1>14. job' = [job EXCEPT ![r] = j]  BY <1>1 DEF TypeOK, j
  <1>15. wrong' \in [Users -> Nat] /\ streak' \in [Users -> Nat] /\ \A u \in Users : wrong[u] <= wrong'[u]
    BY <1>1, <1>3 DEF TypeOK
  <1>16. l \in Pcs  BY <1>11 DEF Pcs
  <1>17. QED
    BY <1>1, <1>2, <1>a, <1>7, <1>8, <1>9, <1>13, <1>14, <1>15, <1>16, NoResult, Stepped DEF j

\* A counter that is reset, or not, sends a call to one of these places.
LEMMA UncountedPlace ==
    ASSUME NEW k \in {"login", "portal", "portal_change", "admin", "admin_change"}, NEW row
    PROVE  /\ Uncounted(k, row) \in {"uncount", "ok", "failed", "totp", "sso"}
           /\ Uncounted(k, row) = "totp" => k \in {"portal", "portal_change"}
           /\ Uncounted(k, row) = "sso" => k \in {"admin", "admin_change"}
  BY DEF Uncounted, Proceed

LEMMA CheckPermissionStep ==
    ASSUME IInv, NEW r \in Requests, CheckPermission(r)
    PROVE  IInv'
  <1> DEFINE j == job[r]
             yes == IF j.kind = "admin_change" THEN "newpwd"
                    ELSE IF j.row.mustChange THEN "ok" ELSE Uncounted(j.kind, j.row)
  <1>1. PICK l \in {"failed", yes} : pc' = [pc EXCEPT ![r] = l]
    BY DEF CheckPermission
  <1>2. /\ TypeOK /\ pc[r] = "permission"
        /\ UNCHANGED <<now, users, limiter, tickets, sso, job, wrong, streak, disturbed, bare>>
    BY DEF IInv, CheckPermission, history
  <1>3. j.kind \in {"admin", "admin_change"} /\ j.right = TRUE
    BY <1>2 DEF IInv, CallOK, PlaceOK, Informed
  <1>4. /\ l \in {"uncount", "ok", "failed", "newpwd", "sso"}
        /\ l = "newpwd" => j.kind = "admin_change"
    BY <1>1, <1>3, UncountedPlace
  <1>5. pc'[r] = l /\ job'[r] = j  BY <1>1, <1>2 DEF TypeOK
  <1> HIDE DEF yes
  <1>6. CountOK(r)' /\ PlaceOK(r)' /\ MfaOK(r)'
    BY <1>2, <1>3, <1>4, <1>5 DEF CountOK, PlaceOK, MfaOK, Informed
  <1>7. l \in Pcs /\ pc[r] \in Informed  BY <1>2, <1>4 DEF Pcs, Informed
  <1>8. QED  BY <1>1, <1>2, <1>6, <1>7, Moved

LEMMA UpdatePasswordStep ==
    ASSUME IInv, NEW r \in Requests, UpdatePassword(r)
    PROVE  IInv'
  <1> DEFINE j == job[r]
             l == IF j.kind = "account" THEN "ok" ELSE Uncounted(j.kind, j.row)
             row == [users[j.user] EXCEPT !.mustChange = FALSE]
  <1>1. /\ TypeOK /\ pc[r] = "newpwd"
        /\ UNCHANGED <<now, limiter, tickets, sso, job, wrong, streak, disturbed, bare>>
    BY DEF IInv, UpdatePassword, history
  <1>2. j # None /\ j \in Job /\ j.row \in Account /\ j.row # None
    BY <1>1, InformedRow, NoneIsNoRecord DEF Informed, NoneIsNoRecord
  <1>3. CASE pc' = [pc EXCEPT ![r] = "failed"] /\ UNCHANGED users
    <2>1. pc'[r] = "failed"  BY <1>1, <1>3 DEF TypeOK
    <2>2. CountOK(r)' /\ PlaceOK(r)' /\ MfaOK(r)'  BY <2>1, EndedOK DEF Ended
    <2>3. QED  BY <1>1, <1>3, <2>2, Moved DEF Pcs, Informed
  <1>4. CASE users' = [users EXCEPT ![j.user].mustChange = FALSE] /\ pc' = [pc EXCEPT ![r] = l]
    <2>1. j.user \in Users /\ users[j.user] \in Account  BY <1>1, <1>2, Started
    <2>2. /\ row \in Account /\ row.totp = users[j.user].totp
          /\ row.failed = users[j.user].failed /\ row.locked = users[j.user].locked
      BY <2>1 DEF Account
    <2>3. users' = [users EXCEPT ![j.user] = row]  BY <1>4, <2>1, <1>1 DEF TypeOK
    <2>4. users'[j.user] = row /\ \A u \in Users : u # j.user => users'[u] = users[u]
      BY <1>1, <2>1, <2>3 DEF TypeOK
    <2>5. users' \in [Users -> Account]  BY <1>1, <2>2, <2>3 DEF TypeOK
    <2>6. \A u \in Users : /\ users'[u].totp = users[u].totp
                           /\ users'[u].failed = users[u].failed /\ users'[u].locked = users[u].locked
      BY <2>2, <2>4
    <2>7. \A u \in Users : AccountOK(u)'  BY <2>6, <1>1 DEF IInv, AccountOK
    <2>8. /\ j.kind \in {"portal_change", "admin_change", "account"} /\ j.right = TRUE
      BY <1>1 DEF IInv, CallOK, PlaceOK, Informed
    <2>9. /\ l \in {"uncount", "ok", "failed", "totp", "sso"}
          /\ l = "totp" => j.kind = "portal_change"
          /\ l = "sso" => j.kind = "admin_change"
          /\ l = "uncount" => j.kind # "account"
      BY <2>8, UncountedPlace
    <2>10. pc'[r] = l /\ job'[r] = j /\ job' = [job EXCEPT ![r] = j]  BY <1>1, <1>4 DEF TypeOK
    <2> HIDE DEF l, row, j
    <2>11. CountOK(r)' /\ PlaceOK(r)' /\ MfaOK(r)'
      BY <1>1, <2>8, <2>9, <2>10 DEF CountOK, PlaceOK, MfaOK, Informed
    <2>12. wrong' \in [Users -> Nat] /\ streak' \in [Users -> Nat] /\ \A u \in Users : wrong[u] <= wrong'[u]
      BY <1>1 DEF TypeOK
    <2>13. l \in Pcs  BY <2>9 DEF Pcs
    <2>14. QED
      BY <1>1, <1>2, <1>4, <2>5, <2>6, <2>7, <2>10, <2>11, <2>12, <2>13, NoResult, Stepped DEF j
  <1>5. QED  BY <1>3, <1>4 DEF UpdatePassword

LEMMA IssueSsoStep ==
    ASSUME IInv, NEW r \in Requests, IssueSso(r)
    PROVE  IInv'
  <1> DEFINE j == job[r]
  <1>1. /\ TypeOK /\ pc[r] = "sso" /\ pc' = [pc EXCEPT ![r] = "ok"]
        /\ sso' = [sso EXCEPT ![r] = j.user]
        /\ UNCHANGED <<now, users, limiter, tickets, job, wrong, streak, disturbed, bare>>
    BY DEF IInv, IssueSso, history
  <1>2. j # None /\ j \in Job /\ j.user \in Users  BY <1>1, InformedRow, Started DEF Informed
  <1>3. /\ sso' \in [Requests -> Users \cup {None}] /\ sso'[r] = j.user
        /\ \A q \in Requests : q # r => tickets'[q] = tickets[q] /\ sso'[q] = sso[q]
    BY <1>1, <1>2 DEF TypeOK
  <1>4. pc'[r] = "ok" /\ job' = [job EXCEPT ![r] = j] /\ job'[r] = j  BY <1>1 DEF TypeOK
  <1>5. CountOK(r)' /\ PlaceOK(r)' /\ MfaOK(r)'  BY <1>4, EndedOK DEF Ended
  <1>6. tickets[r] = None  BY <1>1, NothingYet
  <1>7. TicketOK(r)'  BY <1>1, <1>6 DEF TicketOK
  <1>8. PlaceOK(r) /\ MfaOK(r)  BY DEF IInv, CallOK
  <1>9. j.kind = "portal_mfa" => FromTicket(r)'
    BY <1>1, <1>8 DEF MfaOK, FromTicket, TicketOf
  <1>10. SessionOK(r)'  BY <1>1, <1>3, <1>4, <1>8, <1>9 DEF SessionOK, PlaceOK
  <1>11. \A u \in Users : AccountOK(u)'  BY <1>1, AccountsStay
  <1>12. /\ users' \in [Users -> Account] /\ wrong' \in [Users -> Nat] /\ streak' \in [Users -> Nat]
         /\ tickets' \in [Requests -> Int \cup {None}]
         /\ \A u \in Users : /\ users'[u].totp = users[u].totp
                             /\ wrong[u] <= wrong'[u]
    BY <1>1 DEF TypeOK
  <1>13. "ok" \in Pcs /\ "ok" \notin Informed  BY DEF Pcs, Informed
  <1>14. QED
    BY <1>1, <1>2, <1>3, <1>4, <1>5, <1>7, <1>10, <1>11, <1>12, <1>13, Stepped

LEMMA CheckTotpStep ==
    ASSUME IInv, NEW r \in Requests, CheckTotp(r)
    PROVE  IInv'
  <1> DEFINE j == job[r]
             totp == users[j.user].totp
  <1>1. /\ TypeOK /\ pc[r] = "totp"
        /\ UNCHANGED <<now, users, limiter, sso, wrong, streak, disturbed, bare>>
    BY DEF IInv, CheckTotp, history
  <1>2. j # None /\ j \in Job /\ j.user \in Users /\ j.time \in Int /\ j.row \in Account /\ j.row # None
    BY <1>1, InformedRow, Started, NoneIsNoRecord DEF Informed, NoneIsNoRecord
  <1>3. PlaceOK(r) /\ MfaOK(r) /\ WatchOK(r)  BY DEF IInv, CallOK
  <1>4. \A u \in Users : AccountOK(u)'  BY <1>1, AccountsStay
  <1>5. /\ users' \in [Users -> Account] /\ wrong' \in [Users -> Nat] /\ streak' \in [Users -> Nat]
        /\ sso' \in [Requests -> Users \cup {None}]
        /\ \A u \in Users : /\ users'[u].totp = users[u].totp
                            /\ wrong[u] <= wrong'[u]
    BY <1>1 DEF TypeOK
  <1>6. tickets[r] = None /\ sso[r] = None  BY <1>1, NothingYet
  <1>7. CASE j.kind = "portal_mfa"
    <2>1. PICK right \in BOOLEAN :
              /\ job' = [job EXCEPT ![r].right = right]
              /\ pc' = [pc EXCEPT ![r] = IF totp /\ right THEN "sso" ELSE "failed"]
      BY <1>7 DEF CheckTotp
    <2> DEFINE l == IF totp /\ right THEN "sso" ELSE "failed"
               k == [j EXCEPT !.right = right]
    <2>2. k \in Job  BY <1>2, LocalRows
    <2>3. /\ k.user = j.user /\ k.time = j.time /\ k.kind = j.kind /\ k.from = j.from
          /\ k.tenant = j.tenant /\ k.row = j.row
      BY <1>2 DEF Job
    <2>4. job' = [job EXCEPT ![r] = k]  BY <2>1, <1>1, <1>2 DEF TypeOK
    <2>5. pc'[r] = l /\ job'[r] = k /\ \A q \in Requests : q # r => job'[q] = job[q]
      BY <1>1, <2>1, <2>4 DEF TypeOK
    <2>6. UNCHANGED tickets  BY <1>7 DEF CheckTotp
    <2>7. l \in {"sso", "failed"} /\ l \in Pcs  BY DEF Pcs
    <2>8. FromTicket(r)  BY <1>1, <1>3, <1>7 DEF MfaOK
    <2> HIDE DEF l, k
    <2>9. FromTicket(r)'
      <3>1. job[r].from # r  BY <2>8, <1>6 DEF FromTicket, TicketOf
      <3>2. QED  BY <3>1, <2>3, <2>5, <2>6, <2>8 DEF FromTicket, TicketOf
    <2>10. CountOK(r)' /\ PlaceOK(r)' /\ MfaOK(r)'
      BY <1>7, <2>3, <2>5, <2>7, <2>9 DEF CountOK, PlaceOK, MfaOK, Informed
    <2>11. k.row # None  BY <1>2, <2>3
    <2>12. QED
      BY <1>1, <1>2, <1>4, <1>5, <2>1, <2>2, <2>3, <2>4, <2>6, <2>7, <2>10, <2>11, NoResult, Stepped
         DEF l
  <1>8. CASE j.kind # "portal_mfa"
    <2> DEFINE l == IF totp THEN "ok" ELSE "sso"
    <2>1. /\ pc' = [pc EXCEPT ![r] = l] /\ UNCHANGED job
          /\ tickets' = [tickets EXCEPT ![r] = IF totp THEN j.time + TicketTtl ELSE None]
      BY <1>8 DEF CheckTotp
    <2>2. j.time + TicketTtl \in Int  BY <1>2, LoginAssumption DEF LoginAssumption
    <2>3. /\ tickets' \in [Requests -> Int \cup {None}]
          /\ \A q \in Requests : q # r => tickets'[q] = tickets[q] /\ sso'[q] = sso[q]
          /\ tickets'[r] = IF totp THEN j.time + TicketTtl ELSE None
      BY <1>1, <2>1, <2>2 DEF TypeOK
    <2>4. pc'[r] = l /\ job'[r] = j /\ job' = [job EXCEPT ![r] = j]  BY <1>1, <2>1 DEF TypeOK
    <2>5. j.right = TRUE /\ j.kind \in {"portal", "portal_change"}
      BY <1>1, <1>3, <1>8 DEF PlaceOK, Informed
    <2>6. l = "sso" => r \in bare  BY <1>2, <1>3 DEF WatchOK
    <2>7. l \in {"ok", "sso"} /\ l \in Pcs /\ (l = "ok" <=> totp)  BY DEF Pcs
    <2>8. TicketOK(r)'  BY <2>3, <2>4, <2>5, <2>7 DEF TicketOK
    <2>9. SessionOK(r)'  BY <1>1, <1>6 DEF SessionOK
    <2> HIDE DEF l
    <2>10. CountOK(r)' /\ PlaceOK(r)' /\ MfaOK(r)'
      BY <1>1, <2>4, <2>5, <2>6, <2>7 DEF CountOK, PlaceOK, MfaOK, Informed
    <2>11. QED
      BY <1>1, <1>2, <1>4, <1>5, <2>1, <2>3, <2>4, <2>7, <2>8, <2>9, <2>10, Stepped
  <1>9. QED  BY <1>7, <1>8

LEMMA FindUserStep ==
    ASSUME IInv, NEW r \in Requests, FindUser(r)
    PROVE  IInv'
  <1> DEFINE j == job[r]
             row == users[j.user]
  <1>1. /\ TypeOK /\ pc[r] = "find"
        /\ UNCHANGED <<now, users, limiter, tickets, sso, disturbed, bare>>
    BY DEF IInv, FindUser
  <1>2. j # None /\ j \in Job /\ j.user \in Users /\ row \in Account /\ row # None
    BY <1>1, Started, NoneIsNoRecord DEF TypeOK, NoneIsNoRecord
  <1>3. row.failed \in Nat /\ row.failed <= wrong[j.user] /\ wrong[j.user] \in Nat
    BY <1>1, <1>2 DEF IInv, AccountOK, Account, TypeOK
  <1>4. MfaOK(r)  BY DEF IInv, CallOK
  <1>5. CASE pc' = [pc EXCEPT ![r] = "failed"] /\ UNCHANGED <<job, wrong, streak>>
    <2>1. pc'[r] = "failed"  BY <1>1, <1>5 DEF TypeOK
    <2>2. CountOK(r)' /\ PlaceOK(r)' /\ MfaOK(r)'  BY <2>1, EndedOK DEF Ended
    <2>3. QED  BY <1>1, <1>5, <2>2, Moved DEF Pcs, Informed
  <1>6. /\ users' \in [Users -> Account]
        /\ \A u \in Users : users'[u].totp = users[u].totp
    BY <1>1 DEF TypeOK
  <1>7. CASE /\ j.kind = "portal_mfa" /\ pc' = [pc EXCEPT ![r] = "totp"]
             /\ job' = [job EXCEPT ![r].row = row] /\ UNCHANGED <<wrong, streak>>
    <2> DEFINE k == [j EXCEPT !.row = row]
    <2>1. k \in Job  BY <1>2, LocalRows
    <2>2. /\ k.user = j.user /\ k.time = j.time /\ k.kind = j.kind /\ k.from = j.from
          /\ k.tenant = j.tenant /\ k.row = row
      BY <1>2 DEF Job
    <2>3. job' = [job EXCEPT ![r] = k]  BY <1>7, <1>1, <1>2 DEF TypeOK
    <2>4. pc'[r] = "totp" /\ job'[r] = k /\ \A q \in Requests : q # r => job'[q] = job[q]
      BY <1>1, <1>7, <2>3 DEF TypeOK
    <2> HIDE DEF k
    <2>5. FromTicket(r)'
      <3>1. FromTicket(r)  BY <1>1, <1>4, <1>7 DEF MfaOK
      <3>2. tickets[r] = None  BY <1>1, NothingYet
      <3>3. job[r].from # r  BY <3>1, <3>2 DEF FromTicket, TicketOf
      <3>4. QED  BY <3>1, <3>3, <1>1, <2>2, <2>4 DEF FromTicket, TicketOf
    <2>6. CountOK(r)' /\ PlaceOK(r)' /\ MfaOK(r)'
      BY <1>7, <2>2, <2>4, <2>5 DEF CountOK, PlaceOK, MfaOK, Informed
    <2>7. \A u \in Users : AccountOK(u)'  BY <1>1, <1>7, AccountsStay
    <2>8. wrong' \in [Users -> Nat] /\ streak' \in [Users -> Nat] /\ \A u \in Users : wrong[u] <= wrong'[u]
      BY <1>1, <1>7 DEF TypeOK
    <2>9. k.row # None /\ "totp" \in Pcs  BY <1>2, <2>2 DEF Pcs
    <2>10. QED
      BY <1>1, <1>6, <1>7, <2>1, <2>2, <2>3, <2>6, <2>7, <2>8, <2>9, NoResult, Stepped
  <1>8. CASE /\ j.kind # "portal_mfa"
             /\ \E right \in BOOLEAN :
                   LET counted == ~right /\ j.kind # "account" IN
                   /\ job' = [job EXCEPT ![r].row = row, ![r].right = right]
                   /\ Goto(r, IF right THEN AfterPassword(j.kind, row)
                              ELSE IF counted THEN "count" ELSE "failed")
                   /\ wrong' = IF counted THEN [wrong EXCEPT ![j.user] = @ + 1] ELSE wrong
                   /\ streak' = IF counted THEN [streak EXCEPT ![j.user] = @ + 1] ELSE streak
    <2>1. PICK right \in BOOLEAN :
              LET counted == ~right /\ j.kind # "account" IN
              /\ job' = [job EXCEPT ![r].row = row, ![r].right = right]
              /\ pc' = [pc EXCEPT ![r] = IF right THEN AfterPassword(j.kind, row)
                                         ELSE IF counted THEN "count" ELSE "failed"]
              /\ wrong' = IF counted THEN [wrong EXCEPT ![j.user] = @ + 1] ELSE wrong
              /\ streak' = IF counted THEN [streak EXCEPT ![j.user] = @ + 1] ELSE streak
      BY <1>8
    <2> DEFINE counted == ~right /\ j.kind # "account"
               l == IF right THEN AfterPassword(j.kind, row)
                    ELSE IF counted THEN "count" ELSE "failed"
               k == [j EXCEPT !.row = row, !.right = right]
    <2>2. k \in Job  BY <1>2, LocalRows
    <2>3. /\ k.user = j.user /\ k.time = j.time /\ k.kind = j.kind
          /\ k.row = row /\ k.right = right
      BY <1>2 DEF Job
    <2>4. job' = [job EXCEPT ![r] = k]  BY <2>1, <1>1, <1>2 DEF TypeOK
    <2>5. pc'[r] = l /\ job'[r] = k  BY <1>1, <2>1, <2>4 DEF TypeOK
    <2>6. j.kind \in {"login", "portal", "portal_change", "admin", "admin_change", "account"}
      BY <1>2, <1>8, LoginAssumption DEF LoginAssumption, Job
    <2>7. /\ l \in {"permission", "newpwd", "uncount", "totp", "ok", "failed"} \/ (l = "count" /\ counted)
          /\ l = "permission" => j.kind \in {"admin", "admin_change"}
          /\ l = "newpwd" => j.kind \in {"portal_change", "account"}
          /\ l = "uncount" => j.kind \in {"login", "portal"}
          /\ l = "totp" => j.kind = "portal"
          /\ l \in Informed \ {"count"} => right
      BY <2>6 DEF AfterPassword, Uncounted, Proceed, Informed
    <2>8. /\ wrong' \in [Users -> Nat] /\ streak' \in [Users -> Nat]
          /\ \A u \in Users : wrong[u] <= wrong'[u]
          /\ counted => wrong'[j.user] = wrong[j.user] + 1
      BY <1>1, <1>2, <2>1 DEF TypeOK
    <2>9. \A u \in Users : AccountOK(u)'
      <3>1. SUFFICES ASSUME NEW u \in Users  PROVE AccountOK(u)'
        OBVIOUS
      <3>2. /\ users[u].failed \in Nat /\ MaxFailed \in Nat /\ wrong[u] \in Nat /\ wrong'[u] \in Nat
            /\ AccountOK(u)
        BY <1>1, <2>8, LoginAssumption DEF LoginAssumption, IInv, TypeOK, Account
      <3>3. QED  BY <3>2, <1>1, <2>8 DEF AccountOK
    <2> HIDE DEF l, k, counted
    <2>10. CountOK(r)'
      <3>1. SUFFICES ASSUME l = "count"  PROVE row.failed + 1 <= wrong'[j.user]
        BY <2>3, <2>5 DEF CountOK
      <3>2. QED  BY <3>1, <2>7, <2>8, <1>3
    <2>11. PlaceOK(r)' /\ MfaOK(r)'
      BY <1>8, <2>3, <2>5, <2>7 DEF PlaceOK, MfaOK, Informed
    <2>12. k.row # None /\ l \in Pcs  BY <1>2, <2>3, <2>7 DEF Pcs
    <2>13. QED
      BY <1>1, <1>6, <2>1, <2>2, <2>3, <2>4, <2>8, <2>9, <2>10, <2>11, <2>12, NoResult, Stepped
         DEF l, counted
  <1>9. QED  BY <1>5, <1>7, <1>8 DEF FindUser
-----------------------------------------------------------------------------
(* Accounts, time, and the process.                                         *)

LEMMA TickStep ==
    ASSUME IInv, Tick
    PROVE  IInv'
  <1>1. /\ TypeOK /\ now < MaxNow /\ now' = now + 1
        /\ UNCHANGED <<users, limiter, tickets, sso, pc, job, wrong, streak, disturbed, bare>>
    BY DEF IInv, Tick, calls, history
  <1>2. now' \in 0..MaxNow /\ now \in Int
    BY <1>1, NowType, LoginAssumption DEF LoginAssumption
  <1>3. TypeOK'  BY <1>1, <1>2 DEF TypeOK
  <1>4. \A u \in Users : AccountOK(u)'  BY <1>1, AccountsStay
  <1>5. ASSUME NEW r \in Requests  PROVE CallOK(r)'
    <2>1. CallOK(r)  BY DEF IInv
    <2>2. WatchOK(r)'
      <3>1. job[r] # None => job[r].time \in Int  BY <1>1, Started
      <3>2. QED  BY <3>1, <2>1, <1>1, <1>2 DEF CallOK, WatchOK
    <2>3. CountOK(r)' /\ PlaceOK(r)' /\ TicketOK(r)'
      BY <2>1, <1>1 DEF CallOK, CountOK, PlaceOK, TicketOK
    <2>4. MfaOK(r)' /\ SessionOK(r)'
      BY <2>1, <1>1 DEF CallOK, MfaOK, SessionOK, FromTicket, TicketOf
    <2>5. QED  BY <2>2, <2>3, <2>4 DEF CallOK
  <1>6. QED  BY <1>3, <1>4, <1>5 DEF IInv

\* A rewrite that leaves the lockout columns alone.
LEMMA RewriteStep ==
    ASSUME IInv, NEW k, NEW u \in Users, NEW row \in Account, Rewrite(k, u, row),
           row.failed = users[u].failed, row.locked = users[u].locked
    PROVE  IInv'
  <1>1. /\ TypeOK /\ users' = [users EXCEPT ![u] = row]
        /\ bare' = bare \cup {r \in Requests : job[r] # None /\ job[r].user = u /\ ~row.totp}
        /\ UNCHANGED <<now, limiter, tickets, sso, pc, job, wrong, streak, disturbed>>
    BY DEF IInv, Rewrite, calls
  <1>2. users'[u] = row /\ \A v \in Users : v # u => users'[v] = users[v]
    BY <1>1 DEF TypeOK
  <1>3. TypeOK'  BY <1>1 DEF TypeOK
  <1>4. \A v \in Users : AccountOK(v)'  BY <1>1, <1>2 DEF IInv, AccountOK
  <1>5. ASSUME NEW r \in Requests  PROVE CallOK(r)'
    <2>1. CallOK(r)  BY DEF IInv
    <2>2. WatchOK(r)'
      <3>1. SUFFICES ASSUME job[r] # None
                     PROVE  /\ job[r].time <= now
                            /\ users'[job[r].user].totp \/ r \in bare'
        BY <1>1 DEF WatchOK
      <3>2. job[r].user \in Users  BY <3>1, <1>1, Started
      <3>3. WatchOK(r)  BY <2>1 DEF CallOK
      <3>4. CASE job[r].user = u  BY <3>1, <3>3, <3>4, <1>1, <1>2 DEF WatchOK
      <3>5. CASE job[r].user # u  BY <3>1, <3>2, <3>3, <3>5, <1>1, <1>2 DEF WatchOK
      <3>6. QED  BY <3>4, <3>5
    <2>3. CountOK(r)' /\ PlaceOK(r)' /\ TicketOK(r)'
      BY <2>1, <1>1 DEF CallOK, CountOK, PlaceOK, TicketOK
    <2>4. MfaOK(r)' /\ SessionOK(r)'
      BY <2>1, <1>1 DEF CallOK, MfaOK, SessionOK, FromTicket, TicketOf
    <2>5. QED  BY <2>2, <2>3, <2>4 DEF CallOK
  <1>6. QED  BY <1>3, <1>4, <1>5 DEF IInv

LEMMA AccountSteps ==
    ASSUME IInv, NEW u \in Users,
           ResetPasswordFor(u) \/ SetStatus(u) \/ MarkEmailVerified(u)
             \/ ChangeTotp(u)
    PROVE  IInv'
  <1>1. users[u] \in Account  BY DEF IInv, TypeOK
  <1>2. users[u].totp \in BOOLEAN  BY <1>1 DEF Account
  <1>3. CASE ResetPasswordFor(u)
    <2> DEFINE row == [users[u] EXCEPT !.mustChange = TRUE]
    <2>1. row \in Account /\ row.failed = users[u].failed /\ row.locked = users[u].locked
      BY <1>1 DEF Account
    <2>2. Rewrite("reset", u, row)  BY <1>3 DEF ResetPasswordFor
    <2>3. QED  BY <2>1, <2>2, RewriteStep
  <1>4. CASE SetStatus(u)
    <2>1. PICK s \in {"ACTIVE", "DISABLED"} : Rewrite("status", u, [users[u] EXCEPT !.status = s])
      BY <1>4 DEF SetStatus
    <2> DEFINE row == [users[u] EXCEPT !.status = s]
    <2>2. row \in Account /\ row.failed = users[u].failed /\ row.locked = users[u].locked
      BY <1>1 DEF Account
    <2>3. QED  BY <2>1, <2>2, RewriteStep
  <1>5. CASE MarkEmailVerified(u)
    <2> DEFINE row == [users[u] EXCEPT !.verified = TRUE]
    <2>1. row \in Account /\ row.failed = users[u].failed /\ row.locked = users[u].locked
      BY <1>1 DEF Account
    <2>2. Rewrite("verify", u, row)  BY <1>5 DEF MarkEmailVerified
    <2>3. QED  BY <2>1, <2>2, RewriteStep
  <1>6. CASE ChangeTotp(u)
    <2> DEFINE row == [users[u] EXCEPT !.totp = ~users[u].totp]
    <2>1. row \in Account /\ row.failed = users[u].failed /\ row.locked = users[u].locked
      BY <1>1, <1>2 DEF Account
    <2>2. Rewrite("totp", u, row)  BY <1>6 DEF ChangeTotp
    <2>3. QED  BY <2>1, <2>2, RewriteStep
  <1>7. QED  BY <1>3, <1>4, <1>5, <1>6

LEMMA RestartStep ==
    ASSUME IInv, Restart
    PROVE  IInv'
  <1>1. /\ TypeOK /\ recorded' = {} /\ latest' = 0 /\ admitted' = {} /\ blind' = {}
        /\ pc' = [r \in Requests |-> IF pc[r] = "new" THEN "new"
                                     ELSE IF pc[r] = "ok" THEN "ok" ELSE "failed"]
        /\ disturbed' \subseteq disturbed \cup Users
        /\ UNCHANGED <<now, users, tickets, sso, job, wrong, streak, bare>>
    BY DEF IInv, Restart
  <1>2. \A r \in Requests : /\ pc'[r] \in {"new", "ok", "failed"}
                            /\ pc'[r] = "new" <=> pc[r] = "new"
                            /\ pc'[r] = "ok" <=> pc[r] = "ok"
    BY <1>1
  <1>3. pc' \in [Requests -> Pcs]  BY <1>1 DEF Pcs
  <1>4. \A r \in Requests : /\ pc'[r] # "new" => job'[r] # None
                            /\ pc'[r] \in Informed => job'[r].row # None
    BY <1>1, <1>2 DEF TypeOK, Informed
  <1>5. TypeOK'  BY <1>1, <1>3, <1>4 DEF TypeOK
  <1>6. \A u \in Users : AccountOK(u)'  BY <1>1, AccountsStay
  <1>7. ASSUME NEW r \in Requests  PROVE CallOK(r)'
    <2>1. CallOK(r)  BY DEF IInv
    <2>2. CountOK(r)' /\ PlaceOK(r)' /\ MfaOK(r)'
      BY <1>2 DEF CountOK, PlaceOK, MfaOK, Informed
    <2>3. WatchOK(r)' /\ TicketOK(r)'  BY <2>1, <1>1, <1>2 DEF CallOK, WatchOK, TicketOK
    <2>4. SessionOK(r)'  BY <2>1, <1>1, <1>2 DEF CallOK, SessionOK, FromTicket, TicketOf
    <2>5. QED  BY <2>2, <2>3, <2>4 DEF CallOK
  <1>8. QED  BY <1>5, <1>6, <1>7 DEF IInv
-----------------------------------------------------------------------------
(* The theorems.                                                            *)

LEMMA InitOK == Init => IInv
  <1>1. SUFFICES ASSUME Init  PROVE IInv
    OBVIOUS
  <1> DEFINE New == [status : {"ACTIVE"}, mustChange : {FALSE}, verified : BOOLEAN,
                     failed : {0}, locked : {None}, totp : BOOLEAN]
  <1>2. users \in [Users -> New]  BY <1>1 DEF Init
  <1>3. \A row \in New : row \in Account /\ row.failed = 0 /\ row.locked = None
    <2>1. SUFFICES ASSUME NEW row \in New
                   PROVE  row \in Account /\ row.failed = 0 /\ row.locked = None
      OBVIOUS
    <2>2. /\ row = [status |-> row.status, mustChange |-> row.mustChange,
                    verified |-> row.verified, failed |-> row.failed, locked |-> row.locked,
                    totp |-> row.totp]
          /\ row.status \in {"ACTIVE"} /\ row.mustChange \in {FALSE} /\ row.verified \in BOOLEAN
          /\ row.failed \in {0} /\ row.locked \in {None}
          /\ row.totp \in BOOLEAN
      BY Zenon
    <2>3. row.mustChange \in BOOLEAN  BY <2>2, Zenon
    <2>4. QED  BY <2>2, <2>3 DEF Account
  <1> HIDE DEF New
  <1>4. /\ users \in [Users -> Account]
        /\ \A u \in Users : users[u].failed = 0 /\ users[u].locked = None
    BY <1>2, <1>3
  <1>5. 0 \in 0..MaxNow  BY LoginAssumption DEF LoginAssumption
  <1>6. /\ now = 0 /\ recorded = {} /\ latest = 0 /\ admitted = {} /\ blind = {} /\ bare = {} /\ disturbed = {}
        /\ tickets = [r \in Requests |-> None] /\ sso = [r \in Requests |-> None]
        /\ pc = [r \in Requests |-> "new"] /\ job = [r \in Requests |-> None]
        /\ wrong = [u \in Users |-> 0] /\ streak = [u \in Users |-> 0]
    BY <1>1 DEF Init
  <1>7. TypeOK  BY <1>4, <1>5, <1>6 DEF TypeOK, Pcs, Informed
  <1>8. \A u \in Users : AccountOK(u)  BY <1>4, <1>6 DEF AccountOK
  <1>9. \A r \in Requests : CallOK(r)
    BY <1>6 DEF CallOK, CountOK, WatchOK, PlaceOK, TicketOK, MfaOK, SessionOK, Informed
  <1>10. QED  BY <1>7, <1>8, <1>9 DEF IInv

\* Every step of every call, account or process keeps the invariant.
LEMMA Inductive == IInv /\ [Next]_vars => IInv'
  <1>1. SUFFICES ASSUME IInv, [Next]_vars  PROVE IInv'
    OBVIOUS
  <1>2. CASE Tick \/ Restart  BY <1>2, <1>1, TickStep, RestartStep
  <1>3. ASSUME NEW u \in Users,
               ResetPasswordFor(u) \/ SetStatus(u) \/ MarkEmailVerified(u)
                 \/ ChangeTotp(u)
        PROVE  IInv'
    BY <1>1, <1>3, AccountSteps
  <1>4. ASSUME NEW r \in Requests, NEW ip \in Ips,
               \/ \E u \in Users : PresentPasswordInFlow(r, u, ip)
               \/ \E k \in Kinds, u \in Users : PresentPassword(r, k, u, ip)
               \/ \E x \in Requests, t \in Tenants : PresentTicket(r, x, t, ip)
        PROVE  IInv'
    BY <1>1, <1>4, BeginSteps
  <1>5. ASSUME NEW r \in Requests, NEW x \in Requests, ChangeOwnPassword(r, x)
        PROVE  IInv'
    BY <1>1, <1>5, BeginSteps
  <1>6. ASSUME NEW r \in Requests, Step(r) \/ CallFails(r)
        PROVE  IInv'
    BY <1>1, <1>6, FindAuthSessionStep, AskLimiterStep, FindSessionStep, FindUserStep, CountFailureStep,
       ResetCountStep, CheckPermissionStep, UpdatePasswordStep, CheckTotpStep, IssueSsoStep,
       CallFailsStep
       DEF Step
  <1>7. CASE UNCHANGED vars
    BY <1>1, <1>7 DEF vars, calls, history, IInv, TypeOK, AccountOK, CallOK, CountOK, WatchOK,
       PlaceOK, TicketOK, MfaOK, SessionOK, FromTicket, TicketOf
  <1>8. QED  BY <1>1, <1>2, <1>3, <1>4, <1>5, <1>6, <1>7 DEF Next

THEOREM Invariance == Spec => []IInv
  BY InitOK, Inductive, PTL DEF Spec

\* Every variable keeps its type, and a call that acts on a row has read one:
\* update_login_state, update_password and issue_sso are never reached without
\* find_by_username or find_by_id.
THEOREM TypeCorrect == Spec => []TypeOK
  <1>1. IInv => TypeOK  BY DEF IInv
  <1>2. QED  BY <1>1, Invariance, PTL

\* handle_password_failure locks nobody out for fewer than MaxFailed wrong
\* passwords, whatever logins overlap, are lost or are restarted: a counter
\* written from a stale row can only be too low.
THEOREM NoEarlyLock == Spec => []LockNeedsMaxFailures
  <1>1. IInv => LockNeedsMaxFailures  BY DEF IInv, AccountOK, LockNeedsMaxFailures
  <1>2. QED  BY <1>1, Invariance, PTL

\* PortalLoginService::login and ::change_password create no session for an
\* account with a confirmed TOTP secret.
THEOREM PortalAsksForTotp == Spec => []SecondFactorHonoured
  <1>1. IInv => SecondFactorHonoured  BY DEF IInv, CallOK, SessionOK, SecondFactorHonoured
  <1>2. QED  BY <1>1, Invariance, PTL

\* A session that PortalLoginService::verify_mfa creates rests on a right
\* password of that account at that tenant, within the lifetime of the ticket.
THEOREM TicketsAreGenuine == Spec => []TicketGenuine
  <1>1. IInv => TicketGenuine
    <2>1. SUFFICES ASSUME IInv, NEW r \in Requests, sso[r] # None, job[r].kind = "portal_mfa"
                   PROVE  LET j == job[job[r].from] IN
                          /\ j.right = TRUE /\ j.user = sso[r] /\ j.tenant = job[r].tenant
                          /\ j.time <= job[r].time /\ job[r].time <= j.time + TicketTtl
      BY DEF TicketGenuine
    <2>2. FromTicket(r) /\ sso[r] = job[r].user  BY <2>1 DEF IInv, CallOK, SessionOK
    <2>3. job[r].from \in Requests /\ TicketOK(job[r].from)
      BY <2>1, <2>2 DEF IInv, CallOK, FromTicket, TicketOf
    <2>4. QED  BY <2>2, <2>3 DEF FromTicket, TicketOf, TicketOK
  <1>2. QED  BY <1>1, Invariance, PTL
-----------------------------------------------------------------------------
(* The lockout of an account whose logins never overlapped.                 *)

\* The places at which a call still has to write what follows from its row.
Unsettled == {"count", "permission", "newpwd", "uncount"}

\* What a call at l with locals j read of its account is what the account has
\* now, and it was not locked when the call came.
UpToDate(l, j, row) ==
    l \in Unsettled => /\ j.row.failed = row.failed /\ j.row.locked = row.locked
                       /\ j.kind # "account" => ~IsLockedAt(j.row, j.time)
                       /\ l = "count" => j.kind # "account"

\* At most one call is in flight; the lock says what the counter says, and the
\* counter is the number of wrong passwords since the last reset, but for the
\* one that a call is about to count.
LockOK(u) ==
    /\ \A r, q \in InFlight(u) : r = q
    /\ users[u].locked # None <=> users[u].failed >= MaxFailed
    /\ (\A r \in InFlight(u) : pc[r] # "count") => streak[u] = users[u].failed
    /\ \A r \in InFlight(u) : /\ pc[r] = "count" => streak[u] = users[u].failed + 1
                              /\ UpToDate(pc[r], job[r], users[u])

LockInv == \A u \in Users \ disturbed : LockOK(u)

\* The one call of an account moves on, and the account's lockout columns and
\* history with it; the other accounts are left alone.
LEMMA LockMoved ==
    ASSUME TypeOK, LockInv, NEW r \in Requests, pc[r] \notin Ended \cup {"new"},
           NEW l, l # "new", pc' = [pc EXCEPT ![r] = l],
           NEW j, job' = [job EXCEPT ![r] = j], NEW u \in Users, job[r].user = u, j.user = u,
           disturbed \subseteq disturbed',
           \A v \in Users : v # u => /\ users'[v].failed = users[v].failed
                                     /\ users'[v].locked = users[v].locked
                                     /\ streak'[v] = streak[v],
           u \notin disturbed' => /\ users'[u].locked # None <=> users'[u].failed >= MaxFailed
                                  /\ l = "count" => streak'[u] = users'[u].failed + 1
                                  /\ l # "count" => streak'[u] = users'[u].failed
                                  /\ UpToDate(l, j, users'[u])
    PROVE  LockInv'
  <1>1. /\ pc'[r] = l /\ job'[r] = j
        /\ \A q \in Requests : q # r => pc'[q] = pc[q] /\ job'[q] = job[q]
    BY DEF TypeOK
  <1>2. SUFFICES ASSUME NEW v \in Users, v \notin disturbed'  PROVE LockOK(v)'
    BY DEF LockInv
  <1>3. LockOK(v)  BY <1>2 DEF LockInv
  <1>4. CASE v # u
    <2>1. InFlight(v)' = InFlight(v) /\ r \notin InFlight(v)  BY <1>1, <1>4 DEF InFlight
    <2>2. \A q \in InFlight(v) : q \in Requests /\ pc'[q] = pc[q] /\ job'[q] = job[q]
      BY <1>1, <2>1 DEF InFlight
    <2>3. \A q \in InFlight(v) : UpToDate(pc'[q], job'[q], users'[v])
      BY <1>3, <1>4, <2>2 DEF LockOK, UpToDate
    <2>4. QED  BY <1>3, <1>4, <2>1, <2>2, <2>3 DEF LockOK
  <1>5. CASE v = u
    <2>1. r \in InFlight(u)  BY DEF InFlight
    <2>2. \A q \in InFlight(u)' : q = r
      <3>1. SUFFICES ASSUME NEW q \in Requests, q # r, pc'[q] \notin Ended \cup {"new"}, job'[q].user = u
                     PROVE  FALSE
        BY DEF InFlight
      <3>2. q \in InFlight(u)  BY <3>1, <1>1 DEF InFlight
      <3>3. QED  BY <3>1, <3>2, <2>1, <1>3, <1>5 DEF LockOK
    <2>3. l = "count" => r \in InFlight(u)'  BY <1>1 DEF InFlight, Ended
    <2>4. QED  BY <1>1, <1>2, <1>5, <2>2, <2>3 DEF LockOK
  <1>6. QED  BY <1>4, <1>5

\* A step that leaves the lockout columns and the history alone.
LEMMA LockKept ==
    ASSUME TypeOK, LockInv, NEW r \in Requests, pc[r] \notin Ended \cup {"new"},
           NEW l, l \notin {"new", "count"}, pc' = [pc EXCEPT ![r] = l],
           NEW j, job' = [job EXCEPT ![r] = j], j.user = job[r].user,
           disturbed \subseteq disturbed',
           \A v \in Users : /\ users'[v].failed = users[v].failed
                            /\ users'[v].locked = users[v].locked
                            /\ streak'[v] = streak[v],
           pc[r] = "count" => job[r].user \in disturbed',
           l \in Unsettled => pc[r] \in Unsettled /\ j = job[r]
    PROVE  LockInv'
  <1> DEFINE u == job[r].user
  <1>1. u \in Users  BY Started DEF TypeOK
  <1>2. ASSUME u \notin disturbed'
        PROVE  /\ users'[u].locked # None <=> users'[u].failed >= MaxFailed
               /\ streak'[u] = users'[u].failed
               /\ UpToDate(l, j, users'[u])
    <2>1. LockOK(u) /\ r \in InFlight(u) /\ pc[r] # "count"
      BY <1>1, <1>2 DEF LockInv, InFlight
    <2>2. UpToDate(pc[r], job[r], users[u])  BY <2>1 DEF LockOK
    <2>3. streak[u] = users[u].failed  BY <2>1 DEF LockOK
    <2>4. UpToDate(l, j, users'[u])  BY <1>1, <2>2 DEF UpToDate
    <2>5. QED  BY <1>1, <2>1, <2>3, <2>4 DEF LockOK
  <1>3. u \notin disturbed' => /\ users'[u].locked # None <=> users'[u].failed >= MaxFailed
                               /\ l = "count" => streak'[u] = users'[u].failed + 1
                               /\ l # "count" => streak'[u] = users'[u].failed
                               /\ UpToDate(l, j, users'[u])
    BY <1>2
  <1>4. job[r].user = u /\ j.user = u /\ l # "new"  OBVIOUS
  <1> HIDE DEF u
  <1>5. QED  BY <1>1, <1>3, <1>4, LockMoved

\* No call moves, and no lockout column or history of one.
LEMMA LockQuiet ==
    ASSUME TypeOK, LockInv, UNCHANGED <<pc, job, streak, disturbed>>,
           \A v \in Users : users'[v].failed = users[v].failed /\ users'[v].locked = users[v].locked
    PROVE  LockInv'
  <1>1. SUFFICES ASSUME NEW v \in Users, v \notin disturbed  PROVE LockOK(v)'
    BY DEF LockInv
  <1>2. LockOK(v) /\ InFlight(v)' = InFlight(v)  BY <1>1 DEF LockInv, InFlight
  <1>3. \A q \in InFlight(v) : UpToDate(pc'[q], job'[q], users'[v])
    BY <1>2 DEF LockOK, UpToDate
  <1>4. QED  BY <1>2, <1>3 DEF LockOK

\* A call begins alone, or its account is disturbed from now on.
LEMMA LockBegun ==
    ASSUME TypeOK, LockInv, NEW r \in Requests, NEW j, NEW u \in Users, j.user = u,
           NEW l \in {"auth", "session", "limit"}, Begin(r, j, l)
    PROVE  LockInv'
  <1>1. /\ pc[r] = "new" /\ job' = [job EXCEPT ![r] = j] /\ UNCHANGED <<users, streak>>
        /\ pc' = [pc EXCEPT ![r] = l]
        /\ disturbed' = IF InFlight(u) = {} THEN disturbed ELSE disturbed \cup {u}
    BY DEF Begin
  <1>2. /\ pc'[r] = l /\ job'[r] = j
        /\ \A q \in Requests : q # r => pc'[q] = pc[q] /\ job'[q] = job[q]
    BY <1>1 DEF TypeOK
  <1>3. SUFFICES ASSUME NEW v \in Users, v \notin disturbed'  PROVE LockOK(v)'
    BY DEF LockInv
  <1>4. v \notin disturbed /\ LockOK(v)  BY <1>1, <1>3 DEF LockInv
  <1>5. \A q \in InFlight(v) : q # r /\ pc'[q] = pc[q] /\ job'[q] = job[q]
    BY <1>1, <1>2 DEF InFlight
  <1>6. CASE v # u
    <2>1. InFlight(v)' = InFlight(v)  BY <1>1, <1>2, <1>6 DEF InFlight
    <2>2. QED  BY <1>1, <1>4, <1>5, <2>1 DEF LockOK
  <1>7. CASE v = u
    <2>1. InFlight(v) = {}  BY <1>1, <1>3, <1>7
    <2>2. \A q \in InFlight(v)' : q = r  BY <2>1, <1>2 DEF InFlight
    <2>3. streak[v] = users[v].failed  BY <1>4, <2>1 DEF LockOK
    <2>4. l # "count" /\ l \notin Unsettled  BY DEF Unsettled
    <2>5. UpToDate(l, j, users[v])  BY <2>4 DEF UpToDate
    <2>6. QED  BY <1>1, <1>2, <1>4, <2>2, <2>3, <2>4, <2>5 DEF LockOK
  <1>8. QED  BY <1>6, <1>7

LEMMA LockRestart ==
    ASSUME TypeOK, LockInv, Restart
    PROVE  LockInv'
  <1>1. /\ \A r \in Requests : pc'[r] \in {"new", "ok", "failed"}
        /\ disturbed' = disturbed \cup {u \in Users : InFlight(u) # {}}
        /\ UNCHANGED <<users, streak>>
    BY DEF Restart
  <1>2. SUFFICES ASSUME NEW v \in Users, v \notin disturbed'  PROVE LockOK(v)'
    BY DEF LockInv
  <1>3. LockOK(v) /\ InFlight(v) = {}  BY <1>1, <1>2 DEF LockInv
  <1>4. InFlight(v)' = {}  BY <1>1 DEF InFlight, Ended
  <1>5. QED  BY <1>1, <1>3, <1>4 DEF LockOK

\* handle_password_failure: the counter goes up by the failure counted, and the
\* lock is set as soon as it stands at MaxFailed.
LEMMA LockCounted ==
    ASSUME IInv, LockInv, NEW r \in Requests, CountFailure(r)
    PROVE  LockInv'
  <1> DEFINE u == job[r].user
  <1>1. /\ TypeOK /\ pc[r] = "count" /\ pc' = [pc EXCEPT ![r] = "failed"]
        /\ UNCHANGED <<job, streak, disturbed>>
    BY DEF IInv, CountFailure, history
  <1>2. job[r] \in Job /\ job[r].row \in Account  BY <1>1, InformedRow DEF Informed
  <1>3. u \in Users /\ job[r].row.failed \in Nat /\ job[r].time \in Int  BY <1>2 DEF Job, Account
  <1>4. PICK time \in job[r].time..now :
            users' = [users EXCEPT ![u] = Counted(@, job[r].row.failed + 1, time)]
    BY DEF CountFailure
  <1>5. users[u] \in Account /\ time \in Int /\ job[r].row.failed + 1 \in Nat
    BY <1>1, <1>3, <1>4, NowType DEF TypeOK
  <1>6. /\ users'[u] = Counted(users[u], job[r].row.failed + 1, time)
        /\ \A v \in Users : v # u => users'[v] = users[v]
    BY <1>1, <1>3, <1>4 DEF TypeOK
  <1>7. /\ users'[u].failed = job[r].row.failed + 1
        /\ users'[u].locked # None <=> users'[u].failed >= MaxFailed
    <2>1. /\ LockTtl \in Int /\ None \notin Int
          /\ users'[u].locked = IF job[r].row.failed + 1 >= MaxFailed THEN time + LockTtl ELSE None
      BY <1>5, <1>6, LoginAssumption, NoneAssumption DEF LoginAssumption, NoneAssumption, Counted, Account
    <2>2. users'[u].failed = job[r].row.failed + 1  BY <1>5, <1>6 DEF Counted, Account
    <2>3. time + LockTtl # None  BY <2>1, <1>5
    <2>4. QED  BY <2>1, <2>2, <2>3
  <1>8. ASSUME u \notin disturbed
        PROVE  streak[u] = users'[u].failed
    <2>1. LockOK(u) /\ r \in InFlight(u)  BY <1>1, <1>3, <1>8 DEF LockInv, InFlight, Ended
    <2>2. streak[u] = users[u].failed + 1 /\ job[r].row.failed = users[u].failed
      BY <1>1, <2>1 DEF LockOK, UpToDate, Unsettled
    <2>3. QED  BY <2>2, <1>7
  <1>9. /\ job' = [job EXCEPT ![r] = job[r]] /\ pc[r] \notin Ended \cup {"new"}
        /\ UpToDate("failed", job[r], users'[u])
    BY <1>1 DEF TypeOK, Ended, UpToDate, Unsettled
  <1>10. /\ job[r].user = u /\ "failed" # "new" /\ disturbed \subseteq disturbed'
         /\ \A v \in Users : v # u => /\ users'[v].failed = users[v].failed
                                      /\ users'[v].locked = users[v].locked
                                      /\ streak'[v] = streak[v]
    BY <1>1, <1>6
  <1>11. u \notin disturbed' => /\ users'[u].locked # None <=> users'[u].failed >= MaxFailed
                                /\ "failed" = "count" => streak'[u] = users'[u].failed + 1
                                /\ "failed" # "count" => streak'[u] = users'[u].failed
                                /\ UpToDate("failed", job[r], users'[u])
    BY <1>1, <1>7, <1>8, <1>9
  <1>12. TypeOK /\ pc' = [pc EXCEPT ![r] = "failed"]  BY <1>1
  <1> HIDE DEF u
  <1>13. QED  BY <1>3, <1>9, <1>10, <1>11, <1>12, LockMoved

LEMMA LockReset ==
    ASSUME IInv, LockInv, NEW r \in Requests, ResetCount(r)
    PROVE  LockInv'
  <1> DEFINE u == job[r].user
             l == Proceed(job[r].kind, job[r].row)
  <1>1. /\ TypeOK /\ pc[r] = "uncount" /\ pc' = [pc EXCEPT ![r] = l]
        /\ streak' = [streak EXCEPT ![u] = 0]
        /\ users' = [users EXCEPT ![u].failed = 0, ![u].locked = None]
        /\ UNCHANGED <<job, disturbed>>
    BY DEF IInv, ResetCount
  <1>2. job[r] \in Job  BY <1>1, InformedRow DEF Informed
  <1>3. u \in Users /\ users[u] \in Account  BY <1>1, <1>2 DEF Job, TypeOK
  <1>4. /\ users'[u] = [users[u] EXCEPT !.failed = 0, !.locked = None]
        /\ \A v \in Users : v # u => users'[v] = users[v] /\ streak'[v] = streak[v]
        /\ streak'[u] = 0
    BY <1>1, <1>3 DEF TypeOK
  <1>5. users'[u].failed = 0 /\ users'[u].locked = None  BY <1>3, <1>4 DEF Account
  <1>6. l \in {"ok", "failed", "totp", "sso"}  BY DEF Proceed
  <1>7. ~(0 >= MaxFailed)  BY LoginAssumption DEF LoginAssumption
  <1>8. /\ job' = [job EXCEPT ![r] = job[r]] /\ pc[r] \notin Ended \cup {"new"}
        /\ UpToDate(l, job[r], users'[u]) /\ l # "new" /\ l # "count"
    BY <1>1, <1>6 DEF TypeOK, Ended, UpToDate, Unsettled
  <1>9. /\ job[r].user = u /\ disturbed \subseteq disturbed'
        /\ \A v \in Users : v # u => /\ users'[v].failed = users[v].failed
                                     /\ users'[v].locked = users[v].locked
                                     /\ streak'[v] = streak[v]
    BY <1>1, <1>4
  <1>10. u \notin disturbed' => /\ users'[u].locked # None <=> users'[u].failed >= MaxFailed
                                /\ l = "count" => streak'[u] = users'[u].failed + 1
                                /\ l # "count" => streak'[u] = users'[u].failed
                                /\ UpToDate(l, job[r], users'[u])
    BY <1>4, <1>5, <1>7, <1>8
  <1>11. TypeOK /\ pc' = [pc EXCEPT ![r] = l]  BY <1>1
  <1> HIDE DEF u, l
  <1>12. QED  BY <1>3, <1>8, <1>9, <1>10, <1>11, LockMoved

\* The call reads the row: it goes on with the lockout columns as they are, and
\* not against a lock in force; a wrong password is about to be counted.
LEMMA LockRead ==
    ASSUME IInv, LockInv, NEW r \in Requests, FindUser(r)
    PROVE  LockInv'
  <1> DEFINE u == job[r].user
             row == users[u]
  <1>1. /\ TypeOK /\ pc[r] = "find" /\ UNCHANGED <<users, disturbed>>
    BY DEF IInv, FindUser
  <1>2. job[r] # None /\ job[r] \in Job /\ u \in Users /\ row \in Account
    BY <1>1, Started DEF TypeOK
  <1>3. pc[r] \notin Ended \cup {"new"} /\ pc[r] \notin Unsettled
    BY <1>1 DEF Ended, Unsettled
  <1>4. CASE pc' = [pc EXCEPT ![r] = "failed"] /\ UNCHANGED <<job, streak>>
    <2>1. job' = [job EXCEPT ![r] = job[r]]  BY <1>1, <1>4 DEF TypeOK
    <2>2. pc' = [pc EXCEPT ![r] = "failed"] /\ "failed" \notin {"new", "count"} /\ "failed" \notin Unsettled
      BY <1>4 DEF Unsettled
    <2>3. /\ \A v \in Users : /\ users'[v].failed = users[v].failed
                              /\ users'[v].locked = users[v].locked
                              /\ streak'[v] = streak[v]
          /\ disturbed \subseteq disturbed' /\ TypeOK /\ pc[r] # "count"
      BY <1>1, <1>4
    <2>4. QED  BY <1>3, <2>1, <2>2, <2>3, LockKept
  <1>5. CASE /\ pc' = [pc EXCEPT ![r] = "totp"] /\ job' = [job EXCEPT ![r].row = row]
             /\ UNCHANGED streak
    <2> DEFINE k == [job[r] EXCEPT !.row = row]
    <2>1. job' = [job EXCEPT ![r] = k] /\ k.user = job[r].user  BY <1>1, <1>2, <1>5 DEF TypeOK, Job
    <2>2. pc' = [pc EXCEPT ![r] = "totp"] /\ "totp" \notin {"new", "count"} /\ "totp" \notin Unsettled
      BY <1>5 DEF Unsettled
    <2>3. /\ \A v \in Users : /\ users'[v].failed = users[v].failed
                              /\ users'[v].locked = users[v].locked
                              /\ streak'[v] = streak[v]
          /\ disturbed \subseteq disturbed' /\ TypeOK /\ pc[r] # "count"
      BY <1>1, <1>5
    <2> HIDE DEF k
    <2>4. QED  BY <1>3, <2>1, <2>2, <2>3, LockKept
  <1>6. CASE /\ ~Refused(job[r].kind, row, job[r].time) /\ job[r].kind # "portal_mfa"
             /\ \E right \in BOOLEAN :
                   LET counted == ~right /\ job[r].kind # "account" IN
                   /\ job' = [job EXCEPT ![r].row = row, ![r].right = right]
                   /\ Goto(r, IF right THEN AfterPassword(job[r].kind, row)
                              ELSE IF counted THEN "count" ELSE "failed")
                   /\ streak' = IF counted THEN [streak EXCEPT ![u] = @ + 1] ELSE streak
    <2>1. PICK right \in BOOLEAN :
              LET counted == ~right /\ job[r].kind # "account" IN
              /\ job' = [job EXCEPT ![r].row = row, ![r].right = right]
              /\ pc' = [pc EXCEPT ![r] = IF right THEN AfterPassword(job[r].kind, row)
                                         ELSE IF counted THEN "count" ELSE "failed"]
              /\ streak' = IF counted THEN [streak EXCEPT ![u] = @ + 1] ELSE streak
      BY <1>6
    <2> DEFINE counted == ~right /\ job[r].kind # "account"
               l == IF right THEN AfterPassword(job[r].kind, row)
                    ELSE IF counted THEN "count" ELSE "failed"
               k == [job[r] EXCEPT !.row = row, !.right = right]
    <2>2. /\ k.user = u /\ k.time = job[r].time /\ k.kind = job[r].kind /\ k.row = row
          /\ job' = [job EXCEPT ![r] = k]
      BY <1>1, <1>2, <2>1 DEF Job, TypeOK
    <2>3. job[r].kind \in {"login", "portal", "portal_change", "portal_mfa", "admin", "admin_change", "account"}
      BY <1>2, LoginAssumption DEF LoginAssumption, Job
    <2>4. l \in {"permission", "newpwd", "uncount", "totp", "ok", "failed"} \/ (l = "count" /\ counted)
      BY <2>3, <1>6 DEF AfterPassword, Uncounted, Proceed
    <2>5. l = "count" <=> counted
      BY <2>3, <1>6 DEF AfterPassword, Uncounted, Proceed
    <2>6. /\ \A v \in Users : v # u => streak'[v] = streak[v]
          /\ counted => streak'[u] = streak[u] + 1
          /\ ~counted => streak'[u] = streak[u]
      BY <1>1, <1>2, <2>1 DEF TypeOK
    <2>7. UpToDate(l, k, row)
      <3>1. job[r].kind # "account" => ~IsLockedAt(row, job[r].time)  BY <1>6 DEF Refused
      <3>2. counted => job[r].kind # "account"  OBVIOUS
      <3> HIDE DEF k, l, counted
      <3>3. QED  BY <3>1, <3>2, <2>2, <2>5 DEF UpToDate
    <2>8. u \notin disturbed => /\ row.locked # None <=> row.failed >= MaxFailed
                                /\ streak[u] = row.failed
      <3>1. SUFFICES ASSUME u \notin disturbed
                     PROVE  /\ row.locked # None <=> row.failed >= MaxFailed
                            /\ streak[u] = row.failed
        OBVIOUS
      <3>2. LockOK(u) /\ r \in InFlight(u)  BY <3>1, <1>2, <1>3 DEF LockInv, InFlight
      <3>3. QED  BY <3>2, <1>1 DEF LockOK
    <2>9. /\ job[r].user = u /\ k.user = u /\ disturbed \subseteq disturbed' /\ TypeOK /\ l # "new"
          /\ pc' = [pc EXCEPT ![r] = l]
          /\ \A v \in Users : v # u => /\ users'[v].failed = users[v].failed
                                       /\ users'[v].locked = users[v].locked
                                       /\ streak'[v] = streak[v]
      BY <1>1, <2>1, <2>2, <2>4, <2>6
    <2> HIDE DEF l, k, counted
    <2>10. u \notin disturbed' => /\ users'[u].locked # None <=> users'[u].failed >= MaxFailed
                                  /\ l = "count" => streak'[u] = users'[u].failed + 1
                                  /\ l # "count" => streak'[u] = users'[u].failed
                                  /\ UpToDate(l, k, users'[u])
      BY <1>1, <2>5, <2>6, <2>7, <2>8
    <2> HIDE DEF u
    <2>11. QED  BY <1>2, <1>3, <2>2, <2>9, <2>10, LockMoved
  <1>7. QED  BY <1>4, <1>5, <1>6 DEF FindUser

\* The other steps of a call change neither a lockout column nor what the call
\* has to write.
LEMMA LockOthers ==
    ASSUME IInv, LockInv, NEW r \in Requests,
           \/ FindAuthSession(r) \/ AskLimiter(r) \/ FindSession(r) \/ CheckPermission(r)
           \/ UpdatePassword(r) \/ CheckTotp(r) \/ IssueSso(r) \/ CallFails(r)
    PROVE  LockInv'
  <1>1. TypeOK  BY DEF IInv
  <1>2. ASSUME NEW l, l \notin {"new", "count"}, pc' = [pc EXCEPT ![r] = l],
               pc[r] \in {"auth", "limit", "session", "permission", "newpwd", "totp", "sso"},
               l \in Unsettled => pc[r] \in {"permission", "newpwd"},
               UNCHANGED <<job, streak, disturbed>>,
               \A v \in Users : /\ users'[v].failed = users[v].failed
                                /\ users'[v].locked = users[v].locked
        PROVE  LockInv'
    <2>1. job' = [job EXCEPT ![r] = job[r]] /\ pc[r] \notin Ended \cup {"new"} /\ pc[r] # "count"
      BY <1>1, <1>2 DEF TypeOK, Ended
    <2>2. l \in Unsettled => pc[r] \in Unsettled  BY <1>2 DEF Unsettled
    <2>3. /\ disturbed \subseteq disturbed'
          /\ \A v \in Users : /\ users'[v].failed = users[v].failed
                              /\ users'[v].locked = users[v].locked
                              /\ streak'[v] = streak[v]
          /\ l \notin {"new", "count"} /\ pc' = [pc EXCEPT ![r] = l]
      BY <1>2
    <2>4. QED  BY <1>1, <2>1, <2>2, <2>3, LockKept
  <1>3. CASE FindAuthSession(r)
    <2>1. pc[r] = "auth" /\ UNCHANGED <<users, job, streak, disturbed>>
      BY <1>3 DEF FindAuthSession, history
    <2>2. PICK l \in {"limit", "failed"} : pc' = [pc EXCEPT ![r] = l]
      BY <1>3 DEF FindAuthSession
    <2>3. l \notin {"new", "count"} /\ l \notin Unsettled  BY DEF Unsettled
    <2>4. QED  BY <1>2, <2>1, <2>2, <2>3
  <1>4. CASE FindSession(r)
    <2>1. pc[r] = "session" /\ UNCHANGED <<users, job, streak, disturbed>>
      BY <1>4 DEF FindSession, history
    <2>2. PICK l \in {"find", "failed"} : pc' = [pc EXCEPT ![r] = l]
      BY <1>4 DEF FindSession
    <2>3. l \notin {"new", "count"} /\ l \notin Unsettled  BY DEF Unsettled
    <2>4. QED  BY <1>2, <2>1, <2>2, <2>3
  <1>5. CASE CheckPermission(r)
    <2>1. pc[r] = "permission" /\ UNCHANGED <<users, job, streak, disturbed>>
      BY <1>5 DEF CheckPermission, history
    <2>2. PICK l : pc' = [pc EXCEPT ![r] = l] /\ l \notin {"new", "count"}
      BY <1>5 DEF CheckPermission, Uncounted, Proceed
    <2>3. QED  BY <1>2, <2>1, <2>2
  <1>6. CASE UpdatePassword(r)
    <2>1. pc[r] = "newpwd" /\ UNCHANGED <<job, streak, disturbed>>
      BY <1>6 DEF UpdatePassword, history
    <2>2. \E l : pc' = [pc EXCEPT ![r] = l] /\ l \notin {"new", "count"}
      BY <1>6 DEF UpdatePassword, Uncounted, Proceed
    <2>3. users' = users \/ users' = [users EXCEPT ![job[r].user].mustChange = FALSE]
      BY <1>6 DEF UpdatePassword
    <2>4. ASSUME NEW v \in Users
          PROVE  users'[v].failed = users[v].failed /\ users'[v].locked = users[v].locked
      <3>1. users[v] \in Account  BY <1>1 DEF TypeOK
      <3>2. users'[v] = users[v] \/ users'[v] = [users[v] EXCEPT !.mustChange = FALSE]
        BY <1>1, <2>3 DEF TypeOK
      <3>3. QED  BY <3>1, <3>2 DEF Account
    <2>5. QED  BY <1>2, <2>1, <2>2, <2>4
  <1>7. CASE CheckTotp(r)
    <2>1. pc[r] = "totp" /\ UNCHANGED <<users, streak, disturbed>>
      BY <1>7 DEF CheckTotp, history
    <2>2. job[r] \in Job  BY <1>1, <2>1, InformedRow DEF Informed
    <2>3. PICK l \in {"ok", "sso", "failed"} : pc' = [pc EXCEPT ![r] = l]
      BY <1>7 DEF CheckTotp
    <2>4. PICK k : job' = [job EXCEPT ![r] = k] /\ k.user = job[r].user
      <3>1. CASE UNCHANGED job
        <4>1. job' = [job EXCEPT ![r] = job[r]]  BY <3>1, <1>1 DEF TypeOK
        <4>2. QED  BY <4>1
      <3>2. ASSUME NEW b \in BOOLEAN, job' = [job EXCEPT ![r].right = b]
            PROVE  \E k : job' = [job EXCEPT ![r] = k] /\ k.user = job[r].user
        <4>1. /\ job' = [job EXCEPT ![r] = [job[r] EXCEPT !.right = b]]
              /\ [job[r] EXCEPT !.right = b].user = job[r].user
          BY <3>2, <1>1, <2>2 DEF TypeOK, Job
        <4>2. QED  BY <4>1
      <3>3. QED  BY <3>1, <3>2, <1>7 DEF CheckTotp
    <2>6. /\ l \notin {"new", "count"} /\ l \notin Unsettled
          /\ pc[r] \notin Ended \cup {"new"} /\ pc[r] # "count"
      BY <2>1 DEF Unsettled, Ended
    <2>7. /\ disturbed \subseteq disturbed'
          /\ \A v \in Users : /\ users'[v].failed = users[v].failed
                              /\ users'[v].locked = users[v].locked
                              /\ streak'[v] = streak[v]
      BY <2>1
    <2>8. QED  BY <1>1, <2>3, <2>4, <2>6, <2>7, LockKept
  <1>8. CASE IssueSso(r)
    <2>1. pc[r] = "sso" /\ UNCHANGED <<users, job, streak, disturbed>> /\ pc' = [pc EXCEPT ![r] = "ok"]
      BY <1>8 DEF IssueSso, history
    <2>2. "ok" \notin {"new", "count"} /\ "ok" \notin Unsettled  BY DEF Unsettled
    <2>3. QED  BY <1>2, <2>1, <2>2
  <1>9. CASE CallFails(r)
    <2>1. /\ pc' = [pc EXCEPT ![r] = "failed"] /\ pc[r] \notin Ended \cup {"new"}
          /\ job[r].user \in disturbed' /\ disturbed \subseteq disturbed'
      BY <1>9 DEF CallFails
    <2>2. job' = [job EXCEPT ![r] = job[r]]  BY <1>1, <1>9 DEF CallFails, TypeOK
    <2>3. /\ \A v \in Users : /\ users'[v].failed = users[v].failed
                              /\ users'[v].locked = users[v].locked
                              /\ streak'[v] = streak[v]
          /\ "failed" \notin {"new", "count"} /\ "failed" \notin Unsettled
      BY <1>9 DEF CallFails, Unsettled
    <2>4. QED  BY <1>1, <2>1, <2>2, <2>3, LockKept
  <1>10. CASE AskLimiter(r)
    <2>1. pc[r] = "limit" /\ UNCHANGED <<users, job, streak, disturbed>>
      BY <1>10 DEF AskLimiter, history
    <2>2. PICK k \in {"find", "failed"} : CheckAndRecord(r, job[r].ip, job[r].time, k)
      BY <1>10 DEF AskLimiter
    <2>3. pc' = [pc EXCEPT ![r] = k] \/ pc' = [pc EXCEPT ![r] = "failed"]
      BY <2>2 DEF CheckAndRecord
    <2>4. PICK l \in {"find", "failed"} : pc' = [pc EXCEPT ![r] = l]  BY <2>3
    <2>5. l \notin {"new", "count"} /\ l \notin Unsettled  BY DEF Unsettled
    <2>6. QED  BY <1>2, <2>1, <2>4, <2>5
  <1>11. QED  BY <1>3, <1>4, <1>5, <1>6, <1>7, <1>8, <1>9, <1>10

LEMMA LockBegins ==
    ASSUME IInv, LockInv, NEW r \in Requests,
           \/ \E u \in Users, ip \in Ips : PresentPasswordInFlow(r, u, ip)
           \/ \E k \in Kinds, u \in Users, ip \in Ips : PresentPassword(r, k, u, ip)
           \/ \E x \in Requests, t \in Tenants, ip \in Ips : PresentTicket(r, x, t, ip)
           \/ \E x \in Requests : ChangeOwnPassword(r, x)
    PROVE  LockInv'
  <1>1. TypeOK  BY DEF IInv
  <1>2. ASSUME NEW u \in Users, NEW ip \in Ips, PresentPasswordInFlow(r, u, ip)
        PROVE  LockInv'
    <2> DEFINE j == Fresh("login", u, Home[u], ip, None)
    <2>1. Begin(r, j, "auth") /\ j.user = u
      BY <1>2 DEF PresentPasswordInFlow, Fresh
    <2> HIDE DEF j
    <2>2. QED  BY <1>1, <2>1, LockBegun
  <1>3. ASSUME NEW k \in Kinds, NEW u \in Users, NEW ip \in Ips, PresentPassword(r, k, u, ip)
        PROVE  LockInv'
    <2> DEFINE j == Fresh(k, u, Home[u], ip, None)
    <2>1. Begin(r, j, "limit") /\ j.user = u  BY <1>3 DEF PresentPassword, Fresh
    <2> HIDE DEF j
    <2>2. QED  BY <1>1, <2>1, LockBegun
  <1>4. ASSUME NEW x \in Requests, NEW t \in Tenants, NEW ip \in Ips, PresentTicket(r, x, t, ip)
        PROVE  LockInv'
    <2> DEFINE j == Fresh("portal_mfa", job[x].user, t, ip, x)
    <2>1. Begin(r, j, "limit") /\ j.user = job[x].user /\ pc[x] = "ok"
      BY <1>4 DEF PresentTicket, Fresh
    <2>2. j.user \in Users  BY <1>1, <2>1, Started DEF TypeOK
    <2> HIDE DEF j
    <2>3. QED  BY <1>1, <2>1, <2>2, LockBegun
  <1>5. ASSUME NEW x \in Requests, ChangeOwnPassword(r, x)
        PROVE  LockInv'
    <2> DEFINE j == Fresh("account", sso[x], Home[sso[x]], None, x)
    <2>1. Begin(r, j, "session") /\ j.user = sso[x] /\ sso[x] # None
      BY <1>5 DEF ChangeOwnPassword, Fresh
    <2>2. j.user \in Users  BY <1>1, <2>1 DEF TypeOK
    <2> HIDE DEF j
    <2>3. QED  BY <1>1, <2>1, <2>2, LockBegun
  <1>6. QED  BY <1>2, <1>3, <1>4, <1>5

\* What happens to an account from elsewhere leaves the lockout columns alone.
LEMMA LockRewritten ==
    ASSUME TypeOK, NEW u \in Users,
           ResetPasswordFor(u) \/ SetStatus(u) \/ MarkEmailVerified(u) \/ ChangeTotp(u)
    PROVE  /\ UNCHANGED <<now, pc, job, streak, disturbed>>
           /\ \A v \in Users : users'[v].failed = users[v].failed /\ users'[v].locked = users[v].locked
  <1>1. users[u] \in Account  BY DEF TypeOK
  <1>2. ASSUME NEW k, NEW row, Rewrite(k, u, row), row.failed = users[u].failed,
               row.locked = users[u].locked
        PROVE  /\ UNCHANGED <<now, pc, job, streak, disturbed>>
               /\ \A v \in Users : users'[v].failed = users[v].failed
                                   /\ users'[v].locked = users[v].locked
    BY <1>2 DEF Rewrite, TypeOK, calls
  <1>3. CASE ResetPasswordFor(u)
    <2> DEFINE row == [users[u] EXCEPT !.mustChange = TRUE]
    <2>1. Rewrite("reset", u, row) /\ row.failed = users[u].failed /\ row.locked = users[u].locked
      BY <1>1, <1>3 DEF ResetPasswordFor, Account
    <2> HIDE DEF row
    <2>2. QED  BY <1>2, <2>1
  <1>4. CASE SetStatus(u)
    <2>1. PICK s : Rewrite("status", u, [users[u] EXCEPT !.status = s])  BY <1>4 DEF SetStatus
    <2> DEFINE row == [users[u] EXCEPT !.status = s]
    <2>2. Rewrite("status", u, row) /\ row.failed = users[u].failed /\ row.locked = users[u].locked
      BY <1>1, <2>1 DEF Account
    <2> HIDE DEF row
    <2>3. QED  BY <1>2, <2>2
  <1>5. CASE MarkEmailVerified(u)
    <2> DEFINE row == [users[u] EXCEPT !.verified = TRUE]
    <2>1. Rewrite("verify", u, row) /\ row.failed = users[u].failed /\ row.locked = users[u].locked
      BY <1>1, <1>5 DEF MarkEmailVerified, Account
    <2> HIDE DEF row
    <2>2. QED  BY <1>2, <2>1
  <1>6. CASE ChangeTotp(u)
    <2> DEFINE row == [users[u] EXCEPT !.totp = ~users[u].totp]
    <2>1. Rewrite("totp", u, row) /\ row.failed = users[u].failed /\ row.locked = users[u].locked
      BY <1>1, <1>6 DEF ChangeTotp, Account
    <2> HIDE DEF row
    <2>2. QED  BY <1>2, <2>1
  <1>7. QED  BY <1>3, <1>4, <1>5, <1>6

LEMMA LockNext == IInv /\ LockInv /\ [Next]_vars => LockInv'
  <1>1. SUFFICES ASSUME IInv, LockInv, [Next]_vars  PROVE LockInv'
    OBVIOUS
  <1>2. TypeOK  BY <1>1 DEF IInv
  <1>3. CASE Tick \/ UNCHANGED vars
    BY <1>1, <1>2, <1>3, LockQuiet DEF Tick, vars, calls, history
  <1>4. CASE Restart  BY <1>1, <1>2, <1>4, LockRestart
  <1>5. ASSUME NEW u \in Users,
               ResetPasswordFor(u) \/ SetStatus(u) \/ MarkEmailVerified(u) \/ ChangeTotp(u)
        PROVE  LockInv'
    BY <1>1, <1>2, <1>5, LockRewritten, LockQuiet
  <1>6. ASSUME NEW r \in Requests, NEW ip \in Ips,
               \/ \E u \in Users : PresentPasswordInFlow(r, u, ip)
               \/ \E k \in Kinds, u \in Users : PresentPassword(r, k, u, ip)
               \/ \E x \in Requests, t \in Tenants : PresentTicket(r, x, t, ip)
        PROVE  LockInv'
    BY <1>1, <1>6, LockBegins
  <1>7. ASSUME NEW r \in Requests, NEW x \in Requests, ChangeOwnPassword(r, x)
        PROVE  LockInv'
    BY <1>1, <1>7, LockBegins
  <1>8. ASSUME NEW r \in Requests, Step(r) \/ CallFails(r)
        PROVE  LockInv'
    BY <1>1, <1>8, LockRead, LockCounted, LockReset, LockOthers DEF Step
  <1>9. QED  BY <1>1, <1>3, <1>4, <1>5, <1>6, <1>7, <1>8 DEF Next

LEMMA LockInit == Init => LockInv
  <1>1. SUFFICES ASSUME Init, NEW u \in Users  PROVE LockOK(u)
    BY DEF LockInv
  <1> DEFINE New == [status : {"ACTIVE"}, mustChange : {FALSE}, verified : BOOLEAN,
                     failed : {0}, locked : {None}, totp : BOOLEAN]
  <1>2. users[u] \in New /\ streak[u] = 0 /\ \A r \in Requests : pc[r] = "new"  BY <1>1 DEF Init
  <1>3. users[u].failed \in {0} /\ users[u].locked \in {None}  BY <1>2, Zenon
  <1> HIDE DEF New
  <1>4. InFlight(u) = {}  BY <1>2 DEF InFlight
  <1>5. ~(0 >= MaxFailed)  BY LoginAssumption DEF LoginAssumption
  <1>6. QED  BY <1>2, <1>3, <1>4, <1>5 DEF LockOK

THEOREM LockInvariance == Spec => []LockInv
  BY LockInit, LockNext, Invariance, PTL DEF Spec

\* LoginService, PortalLoginService and AdminLoginService lock an account at
\* MaxFailed wrong passwords in a row, as long as its logins did not overlap and
\* none stopped half way: no other action of any door resets the counter.
THEOREM FailuresLock == Spec => []SequentialFailuresLock
  <1>1. IInv /\ LockInv => SequentialFailuresLock
    <2>1. SUFFICES ASSUME LockInv, NEW u \in Users, u \notin disturbed, InFlight(u) = {},
                          streak[u] >= MaxFailed
                   PROVE  users[u].locked # None
      BY DEF SequentialFailuresLock
    <2>2. LockOK(u)  BY <2>1 DEF LockInv
    <2>3. QED  BY <2>1, <2>2 DEF LockOK
  <1>2. QED  BY <1>1, Invariance, LockInvariance, PTL

\* The lock of an account changes only when one of its own calls writes the
\* counter.
LEMMA LockChanges ==
    ASSUME IInv, [Next]_vars, NEW u \in Users
    PROVE  \/ users'[u].locked = users[u].locked
           \/ \E r \in Requests : /\ pc[r] \in {"count", "uncount"} /\ job[r].user = u
                                  /\ now' = now /\ disturbed' = disturbed
  <1>1. TypeOK  BY DEF IInv
  <1>2. CASE Tick \/ Restart \/ UNCHANGED vars  BY <1>2 DEF Tick, Restart, vars
  <1>3. ASSUME NEW v \in Users,
               ResetPasswordFor(v) \/ SetStatus(v) \/ MarkEmailVerified(v) \/ ChangeTotp(v)
        PROVE  users'[u].locked = users[u].locked
    BY <1>1, <1>3, LockRewritten
  <1>4. ASSUME NEW r \in Requests, NEW ip \in Ips,
               \/ \E v \in Users : PresentPasswordInFlow(r, v, ip)
               \/ \E k \in Kinds, v \in Users : PresentPassword(r, k, v, ip)
               \/ \E x \in Requests, t \in Tenants : PresentTicket(r, x, t, ip)
        PROVE  users' = users
    BY <1>4 DEF PresentPasswordInFlow, PresentPassword, PresentTicket, Begin
  <1>5. ASSUME NEW r \in Requests, NEW x \in Requests, ChangeOwnPassword(r, x)
        PROVE  users' = users
    BY <1>5 DEF ChangeOwnPassword, Begin
  <1>6. ASSUME NEW r \in Requests,
               \/ FindAuthSession(r) \/ AskLimiter(r) \/ FindSession(r) \/ FindUser(r)
               \/ CheckPermission(r) \/ CheckTotp(r) \/ IssueSso(r) \/ CallFails(r)
        PROVE  users' = users
    BY <1>6 DEF FindAuthSession, AskLimiter, FindSession, FindUser, CheckPermission, CheckTotp, IssueSso, CallFails
  <1>7. ASSUME NEW r \in Requests, UpdatePassword(r)
        PROVE  users'[u].locked = users[u].locked
    <2>1. users[u] \in Account  BY <1>1 DEF TypeOK
    <2>2. users' = users \/ users' = [users EXCEPT ![job[r].user].mustChange = FALSE]
      BY <1>7 DEF UpdatePassword
    <2>3. users'[u] = users[u] \/ users'[u] = [users[u] EXCEPT !.mustChange = FALSE]
      BY <1>1, <2>2 DEF TypeOK
    <2>4. QED  BY <2>1, <2>3 DEF Account
  <1>8. ASSUME NEW r \in Requests, CountFailure(r) \/ ResetCount(r)
        PROVE  \/ users'[u].locked = users[u].locked
               \/ /\ pc[r] \in {"count", "uncount"} /\ job[r].user = u
                  /\ now' = now /\ disturbed' = disturbed
    <2>1. pc[r] \in {"count", "uncount"} /\ now' = now /\ disturbed' = disturbed
      BY <1>8 DEF CountFailure, ResetCount, history
    <2>2. CASE job[r].user = u  BY <2>1, <2>2
    <2>3. CASE job[r].user # u
      <3>1. users'[u] = users[u]  BY <1>1, <1>8, <2>3 DEF CountFailure, ResetCount, TypeOK
      <3>2. QED  BY <3>1
    <2>4. QED  BY <2>2, <2>3
  <1>9. QED  BY <1>2, <1>3, <1>4, <1>5, <1>6, <1>7, <1>8 DEF Next, Step

\* While locked_until is in the future no door lifts it, moves it or counts
\* further: is_locked_at is asked before the password is compared, and of an
\* account whose logins do not overlap the answer is never stale.
THEOREM LocksRunTheirTime == Spec => LockRunsItsTime
  <1> DEFINE A == \A u \in Users \ disturbed' :
                     users[u].locked # None /\ users[u].locked > now => users'[u].locked = users[u].locked
  <1>1. IInv /\ LockInv /\ [Next]_vars => [A]_vars
    <2>1. SUFFICES ASSUME IInv, LockInv, [Next]_vars, NEW u \in Users, u \notin disturbed',
                          users[u].locked # None, users[u].locked > now,
                          users'[u].locked # users[u].locked
                   PROVE  FALSE
      OBVIOUS
    <2>2. PICK r \in Requests : /\ pc[r] \in {"count", "uncount"} /\ job[r].user = u
                                /\ now' = now /\ disturbed' = disturbed
      BY <2>1, LockChanges
    <2>3. /\ LockOK(u) /\ r \in InFlight(u) /\ TypeOK /\ job[r] # None
          /\ job[r].kind # "account" \/ pc[r] = "count"
      BY <2>1, <2>2 DEF LockInv, InFlight, Ended, IInv, CallOK, PlaceOK, TypeOK
    <2>4. /\ job[r].row.locked = users[u].locked /\ ~IsLockedAt(job[r].row, job[r].time)
      BY <2>2, <2>3 DEF LockOK, UpToDate, Unsettled
    <2>5. job[r].time <= now  BY <2>1, <2>3 DEF IInv, CallOK, WatchOK
    <2>6. job[r].time \in Int /\ users[u] \in Account /\ now \in Int
      BY <2>3, Started, NowType DEF TypeOK
    <2>7. users[u].locked \in Int  BY <2>1, <2>6 DEF Account
    <2>8. QED  BY <2>1, <2>4, <2>5, <2>6, <2>7 DEF IsLockedAt
  <1>2. QED  BY <1>1, Invariance, LockInvariance, PTL DEF Spec, LockRunsItsTime
-----------------------------------------------------------------------------
(* The rate limiter.                                                        *)

\* The calls let through with their window before the limiter, from the address
\* of r in the window that ends with r.
WindowOf(r) ==
    {s \in admitted \ blind : /\ job[s].ip = job[r].ip
                              /\ job[r].time - Window < job[s].time /\ job[s].time <= job[r].time}

\* The places before the limiter.
Waiting == {"new", "auth", "limit"}

\* The limiter forgets a call it let through only when the call has left the
\* window that ends with the latest time it was asked with.
LimiterInv ==
    /\ IsFiniteSet(recorded) /\ recorded \subseteq admitted /\ blind \subseteq admitted
    /\ \A s \in admitted : /\ pc[s] \notin Waiting
                           /\ job[s].time > latest - Window => s \in recorded
    /\ \A r \in admitted \ blind : Cardinality(WindowOf(r)) <= MaxAttempts

\* A call that passed the limiter has locals.
LEMMA AdmittedTime ==
    ASSUME TypeOK, LimiterInv, NEW s \in admitted
    PROVE  s \in Requests /\ job[s] # None /\ job[s].time \in Int
  <1>1. s \in Requests /\ pc[s] # "new"  BY DEF TypeOK, LimiterInv, Waiting
  <1>2. job[s] # None  BY <1>1 DEF TypeOK
  <1>3. QED  BY <1>1, <1>2, Started

\* Calls move on, and the limiter forgets what is outside the window of the
\* latest time, but lets nobody through.
LEMMA LimiterKept ==
    ASSUME TypeOK, LimiterInv, UNCHANGED <<admitted, blind>>,
           latest' \in Int, latest <= latest', recorded' \subseteq recorded,
           \A s \in recorded : job[s].time > latest' - Window => s \in recorded',
           \A s \in admitted : /\ pc'[s] \notin Waiting
                               /\ job'[s].ip = job[s].ip /\ job'[s].time = job[s].time
    PROVE  LimiterInv'
  <1>1. IsFiniteSet(recorded')  BY FS_Subset DEF LimiterInv
  <1>2. ASSUME NEW s \in admitted, job[s].time > latest' - Window  PROVE s \in recorded'
    <2>1. job[s].time \in Int /\ latest \in Int /\ Window \in Int
      BY AdmittedTime, LoginAssumption DEF LoginAssumption, TypeOK
    <2>2. job[s].time > latest - Window  BY <2>1, <1>2
    <2>3. QED  BY <1>2, <2>2 DEF LimiterInv
  <1>3. ASSUME NEW r \in admitted  PROVE WindowOf(r)' = WindowOf(r)
    BY DEF WindowOf
  <1>4. QED  BY <1>1, <1>2, <1>3 DEF LimiterInv

\* A call is let through.  If nothing of its window was forgotten, then every
\* window it is in had fewer than MaxAttempts calls, all in the memory.
LEMMA LimiterAdmits ==
    ASSUME TypeOK, LimiterInv, NEW q \in Requests, pc[q] = "limit", NEW t \in Int,
           job[q].time = t, UNCHANGED job, latest' \in Int, latest <= latest', t <= latest',
           ~(Cardinality({s \in Kept(t) : job[s].ip = job[q].ip}) >= MaxAttempts),
           recorded' = Kept(t) \cup {q}, admitted' = admitted \cup {q},
           blind' = IF Outrun(job[q].ip, t) THEN blind \cup {q} ELSE blind,
           NEW l, l \notin Waiting, pc' = [pc EXCEPT ![q] = l]
    PROVE  LimiterInv'
  <1> DEFINE K == {s \in Kept(t) : job[s].ip = job[q].ip}
  <1>1. latest \in Int /\ Window \in Nat \ {0} /\ MaxAttempts \in Nat
    BY LoginAssumption DEF LoginAssumption, TypeOK
  <1>2. q \notin admitted /\ q \notin blind  BY DEF LimiterInv, Waiting
  <1>3. pc'[q] = l /\ \A s \in Requests : s # q => pc'[s] = pc[s]  BY DEF TypeOK
  <1>4. \A s \in admitted : s \in Requests /\ s # q /\ pc'[s] = pc[s] /\ job[s].time \in Int
    BY <1>2, <1>3, AdmittedTime
  <1>5. IsFiniteSet(Kept(t)) /\ IsFiniteSet(K)  BY FS_Subset DEF LimiterInv, Kept
  <1>6. IsFiniteSet(recorded')  BY <1>5, FS_AddElement
  <1>7. ASSUME NEW s \in admitted, job[s].time > latest' - Window  PROVE s \in recorded'
    <2>1. job[s].time \in Int  BY <1>4
    <2>2. job[s].time > latest - Window /\ job[s].time > t - Window  BY <1>1, <1>7, <2>1
    <2>3. QED  BY <2>2 DEF LimiterInv, Kept
  <1>8. IsFiniteSet(K \cup {q}) /\ Cardinality(K \cup {q}) <= MaxAttempts
    <2>1. Cardinality(K) \in Nat  BY <1>5, FS_CardinalityType
    <2>2. IsFiniteSet(K \cup {q})
          /\ Cardinality(K \cup {q}) = IF q \in K THEN Cardinality(K) ELSE Cardinality(K) + 1
      BY <1>5, FS_AddElement
    <2>3. ~(Cardinality(K) >= MaxAttempts)  OBVIOUS
    <2> HIDE DEF K
    <2>4. QED  BY <1>1, <2>1, <2>2, <2>3
  <1>9. ASSUME NEW W, W \subseteq K \cup {q}  PROVE Cardinality(W) <= MaxAttempts
    <2> HIDE DEF K
    <2>1. IsFiniteSet(W) /\ Cardinality(W) <= Cardinality(K \cup {q})  BY <1>8, <1>9, FS_Subset
    <2>2. Cardinality(W) \in Nat /\ Cardinality(K \cup {q}) \in Nat  BY <1>8, <2>1, FS_CardinalityType
    <2>3. QED  BY <1>1, <1>8, <2>1, <2>2
  <1>10. ASSUME NEW r \in admitted' \ blind', q \in WindowOf(r)'
         PROVE  Cardinality(WindowOf(r)') <= MaxAttempts
    <2>1. /\ ~Outrun(job[q].ip, t) /\ job[q].ip = job[r].ip
          /\ job[r].time - Window < t /\ t <= job[r].time
      BY <1>10 DEF WindowOf
    <2>2. job[r].time \in Int  BY <1>4, <1>10
    <2>3. WindowOf(r)' \subseteq K \cup {q}
      <3>1. SUFFICES ASSUME NEW s \in admitted, job[s].ip = job[r].ip,
                            job[r].time - Window < job[s].time
                     PROVE  s \in K
        BY DEF WindowOf
      <3>2. job[s].time \in Int  BY <1>4
      <3>3. t - Window < job[s].time  BY <1>1, <2>1, <2>2, <3>1, <3>2
      <3>4. ~(job[s].time <= latest - Window)  BY <2>1, <3>1, <3>3 DEF Outrun
      <3>5. job[s].time > latest - Window /\ job[s].time > t - Window
        BY <1>1, <3>2, <3>3, <3>4
      <3>6. QED  BY <2>1, <3>1, <3>5 DEF LimiterInv, Kept
    <2> HIDE DEF K
    <2>4. QED  BY <1>9, <2>3
  <1>11. ASSUME NEW r \in admitted' \ blind', q \notin WindowOf(r)'
         PROVE  Cardinality(WindowOf(r)') <= MaxAttempts
    <2>1. CASE r = q
      <3>1. q \in WindowOf(q)'  BY <1>1, <1>11, <2>1 DEF WindowOf
      <3>2. QED  BY <3>1, <2>1, <1>11
    <2>2. CASE r # q
      <3>1. r \in admitted \ blind  BY <1>11, <2>2
      <3>2. WindowOf(r)' = WindowOf(r)  BY <1>2, <1>11 DEF WindowOf
      <3>3. QED  BY <3>1, <3>2 DEF LimiterInv
    <2>3. QED  BY <2>1, <2>2
  <1>12. recorded' \subseteq admitted' /\ blind' \subseteq admitted'  BY DEF LimiterInv, Kept
  <1>13. \A s \in admitted' : /\ pc'[s] \notin Waiting
                              /\ job'[s].time > latest' - Window => s \in recorded'
    BY <1>3, <1>4, <1>7 DEF LimiterInv
  <1>14. QED  BY <1>6, <1>10, <1>11, <1>12, <1>13 DEF LimiterInv

\* A step of call r that does not ask the limiter.
LEMMA LimiterUnasked ==
    ASSUME TypeOK, LimiterInv, UNCHANGED limiter,
           NEW r \in Requests, NEW l, pc' = [pc EXCEPT ![r] = l], NEW j, job' = [job EXCEPT ![r] = j],
           pc[r] \notin Waiting => l \notin Waiting /\ j.ip = job[r].ip /\ j.time = job[r].time
    PROVE  LimiterInv'
  <1>1. /\ pc'[r] = l /\ job'[r] = j
        /\ \A q \in Requests : q # r => pc'[q] = pc[q] /\ job'[q] = job[q]
    BY DEF TypeOK
  <1>2. \A s \in admitted : /\ pc'[s] \notin Waiting
                            /\ job'[s].ip = job[s].ip /\ job'[s].time = job[s].time
    BY <1>1 DEF LimiterInv, TypeOK
  <1>3. latest' \in Int /\ latest <= latest'  BY DEF TypeOK
  <1>4. QED  BY <1>2, <1>3, LimiterKept DEF LimiterInv

\* check_and_record, with a time the call read before it waited for the lock.
LEMMA LimiterAsked ==
    ASSUME IInv, LimiterInv, NEW r \in Requests, AskLimiter(r)
    PROVE  LimiterInv'
  <1>1. TypeOK /\ pc[r] = "limit" /\ UNCHANGED job  BY DEF IInv, AskLimiter
  <1>2. PICK l \in {"find", "failed"} : CheckAndRecord(r, job[r].ip, job[r].time, l)
    BY DEF AskLimiter
  <1>3. PICK t \in Int : job[r].time = t  BY <1>1, Started DEF TypeOK
  <1>4. l \notin Waiting /\ "failed" \notin Waiting  BY DEF Waiting
  <1>5. CASE pc' = [pc EXCEPT ![r] = l] /\ UNCHANGED limiter
    <2>1. job' = [job EXCEPT ![r] = job[r]]  BY <1>1 DEF TypeOK
    <2>2. QED  BY <1>1, <1>4, <1>5, <2>1, LimiterUnasked
  <1>6. ASSUME latest' = IF latest < t THEN t ELSE latest
        PROVE  latest' \in Int /\ latest <= latest' /\ t <= latest'
    BY <1>1, <1>6 DEF TypeOK
  <1>7. CASE /\ latest' = (IF latest < t THEN t ELSE latest) /\ recorded' = Kept(t)
             /\ pc' = [pc EXCEPT ![r] = "failed"] /\ UNCHANGED <<admitted, blind>>
    <2>1. pc'[r] = "failed" /\ \A q \in Requests : q # r => pc'[q] = pc[q]
      BY <1>1, <1>7 DEF TypeOK
    <2>2. \A s \in admitted : /\ pc'[s] \notin Waiting
                              /\ job'[s].ip = job[s].ip /\ job'[s].time = job[s].time
      BY <1>1, <1>4, <2>1 DEF LimiterInv, TypeOK
    <2>3. \A s \in recorded : job[s].time > latest' - Window => s \in recorded'
      <3>1. SUFFICES ASSUME NEW s \in recorded, job[s].time > latest' - Window  PROVE s \in Kept(t)
        BY <1>7
      <3>2. job[s].time \in Int /\ Window \in Int
        BY <1>1, AdmittedTime, LoginAssumption DEF LoginAssumption, LimiterInv
      <3>3. job[s].time > t - Window  BY <1>6, <1>7, <3>1, <3>2
      <3>4. QED  BY <3>3 DEF Kept
    <2>4. recorded' \subseteq recorded  BY <1>7 DEF Kept
    <2>5. QED  BY <1>1, <1>6, <1>7, <2>2, <2>3, <2>4, LimiterKept
  <1>8. CASE /\ latest' = (IF latest < t THEN t ELSE latest)
             /\ ~(Cardinality({s \in Kept(t) : job[s].ip = job[r].ip}) >= MaxAttempts)
             /\ recorded' = Kept(t) \cup {r} /\ admitted' = admitted \cup {r}
             /\ blind' = IF Outrun(job[r].ip, t) THEN blind \cup {r} ELSE blind
             /\ pc' = [pc EXCEPT ![r] = l]
    BY <1>1, <1>3, <1>4, <1>6, <1>8, LimiterAdmits
  <1>9. QED  BY <1>2, <1>3, <1>5, <1>7, <1>8 DEF CheckAndRecord

LEMMA LimiterBegins ==
    ASSUME IInv, LimiterInv, NEW r \in Requests,
           \/ \E u \in Users, ip \in Ips : PresentPasswordInFlow(r, u, ip)
           \/ \E k \in Kinds, u \in Users, ip \in Ips : PresentPassword(r, k, u, ip)
           \/ \E x \in Requests, t \in Tenants, ip \in Ips : PresentTicket(r, x, t, ip)
           \/ \E x \in Requests : ChangeOwnPassword(r, x)
    PROVE  LimiterInv'
  <1>1. PICK j, l : Begin(r, j, l)
    BY DEF PresentPasswordInFlow, PresentPassword, PresentTicket, ChangeOwnPassword
  <1>2. /\ TypeOK /\ pc[r] \in Waiting /\ UNCHANGED limiter
        /\ job' = [job EXCEPT ![r] = j] /\ pc' = [pc EXCEPT ![r] = l]
    BY <1>1 DEF IInv, Begin, Waiting
  <1>3. QED  BY <1>2, LimiterUnasked

LEMMA LimiterSteps ==
    ASSUME IInv, LimiterInv, NEW r \in Requests, Step(r) \/ CallFails(r)
    PROVE  LimiterInv'
  <1>1. TypeOK  BY DEF IInv
  <1>2. CASE FindAuthSession(r)
    <2>1. /\ pc[r] \in Waiting /\ UNCHANGED limiter /\ job' = [job EXCEPT ![r] = job[r]]
          /\ \E l : pc' = [pc EXCEPT ![r] = l]
      BY <1>1, <1>2 DEF FindAuthSession, TypeOK, Waiting
    <2>2. QED  BY <1>1, <2>1, LimiterUnasked
  <1>3. ASSUME UNCHANGED limiter,
               \E l : l \notin Waiting /\ pc' = [pc EXCEPT ![r] = l],
               \E j : /\ job' = [job EXCEPT ![r] = j]
                      /\ j.kind = job[r].kind /\ j.ip = job[r].ip /\ j.time = job[r].time
        PROVE  LimiterInv'
    BY <1>1, <1>3, LimiterUnasked
  <1>4. UNCHANGED job => \E j : /\ job' = [job EXCEPT ![r] = j]
                                /\ j.kind = job[r].kind /\ j.ip = job[r].ip /\ j.time = job[r].time
    <2>1. SUFFICES ASSUME UNCHANGED job
                   PROVE  \E j : /\ job' = [job EXCEPT ![r] = j] /\ j.kind = job[r].kind
                                 /\ j.ip = job[r].ip /\ j.time = job[r].time
      OBVIOUS
    <2>2. job' = [job EXCEPT ![r] = job[r]]  BY <2>1, <1>1 DEF TypeOK
    <2>3. QED  BY <2>2
  <1>5. CASE \/ FindSession(r) \/ CountFailure(r) \/ ResetCount(r) \/ CheckPermission(r)
             \/ UpdatePassword(r) \/ IssueSso(r) \/ CallFails(r)
    <2>1. /\ UNCHANGED limiter /\ UNCHANGED job
          /\ \E l : l \notin Waiting /\ pc' = [pc EXCEPT ![r] = l]
      <3>1. CASE FindSession(r)  BY <3>1 DEF FindSession, history, Waiting
      <3>2. CASE CountFailure(r)  BY <3>2 DEF CountFailure, history, Waiting
      <3>3. CASE ResetCount(r)  BY <3>3 DEF ResetCount, Proceed, Waiting
      <3>4. CASE CheckPermission(r)  BY <3>4 DEF CheckPermission, history, Uncounted, Proceed, Waiting
      <3>5. CASE UpdatePassword(r)  BY <3>5 DEF UpdatePassword, history, Uncounted, Proceed, Waiting
      <3>6. CASE IssueSso(r)  BY <3>6 DEF IssueSso, history, Waiting
      <3>7. CASE CallFails(r)  BY <3>7 DEF CallFails, Waiting
      <3>8. QED  BY <1>5, <3>1, <3>2, <3>3, <3>4, <3>5, <3>6, <3>7
    <2>2. QED  BY <1>3, <1>4, <2>1
  <1>6. ASSUME job[r] \in Job, NEW row, NEW b,
               \/ job' = [job EXCEPT ![r].row = row]
               \/ job' = [job EXCEPT ![r].right = b]
               \/ job' = [job EXCEPT ![r].row = row, ![r].right = b]
        PROVE  \E j : /\ job' = [job EXCEPT ![r] = j]
                      /\ j.kind = job[r].kind /\ j.ip = job[r].ip /\ j.time = job[r].time
    <2>1. CASE job' = [job EXCEPT ![r].row = row]
      <3> DEFINE j == [job[r] EXCEPT !.row = row]
      <3>1. /\ job' = [job EXCEPT ![r] = j] /\ j.kind = job[r].kind
            /\ j.ip = job[r].ip /\ j.time = job[r].time
        BY <1>1, <1>6, <2>1 DEF TypeOK, Job
      <3>2. QED  BY <3>1
    <2>2. CASE job' = [job EXCEPT ![r].right = b]
      <3> DEFINE j == [job[r] EXCEPT !.right = b]
      <3>1. /\ job' = [job EXCEPT ![r] = j] /\ j.kind = job[r].kind
            /\ j.ip = job[r].ip /\ j.time = job[r].time
        BY <1>1, <1>6, <2>2 DEF TypeOK, Job
      <3>2. QED  BY <3>1
    <2>3. CASE job' = [job EXCEPT ![r].row = row, ![r].right = b]
      <3> DEFINE j == [job[r] EXCEPT !.row = row, !.right = b]
      <3>1. /\ job' = [job EXCEPT ![r] = j] /\ j.kind = job[r].kind
            /\ j.ip = job[r].ip /\ j.time = job[r].time
        BY <1>1, <1>6, <2>3 DEF TypeOK, Job
      <3>2. QED  BY <3>1
    <2>4. QED  BY <1>6, <2>1, <2>2, <2>3
  <1>7. CASE CheckTotp(r)
    <2>1. UNCHANGED limiter /\ pc[r] = "totp"  BY <1>7 DEF CheckTotp, history
    <2>2. job[r] \in Job  BY <1>1, <2>1, InformedRow DEF Informed
    <2>3. \E l : l \notin Waiting /\ pc' = [pc EXCEPT ![r] = l]  BY <1>7 DEF CheckTotp, Waiting
    <2>4. UNCHANGED job \/ \E b \in BOOLEAN : job' = [job EXCEPT ![r].right = b]
      BY <1>7 DEF CheckTotp
    <2>5. QED  BY <1>3, <1>4, <1>6, <2>1, <2>2, <2>3, <2>4
  <1>8. CASE FindUser(r)
    <2>1. UNCHANGED limiter /\ pc[r] = "find"  BY <1>8 DEF FindUser
    <2>2. job[r] \in Job  BY <1>1, <2>1, Started DEF TypeOK
    <2>3. job[r].kind \in {"login", "portal", "portal_change", "portal_mfa", "admin", "admin_change", "account"}
      BY <2>2, LoginAssumption DEF LoginAssumption, Job
    <2>4. \E l : l \notin Waiting /\ pc' = [pc EXCEPT ![r] = l]
      BY <1>8, <2>3 DEF FindUser, AfterPassword, Uncounted, Proceed, Waiting
    <2>5. \/ UNCHANGED job
          \/ job' = [job EXCEPT ![r].row = users[job[r].user]]
          \/ \E b \in BOOLEAN : job' = [job EXCEPT ![r].row = users[job[r].user], ![r].right = b]
      BY <1>8 DEF FindUser
    <2>6. QED  BY <1>3, <1>4, <1>6, <2>1, <2>2, <2>4, <2>5
  <1>9. QED  BY <1>2, <1>5, <1>7, <1>8, LimiterAsked DEF Step

LEMMA LimiterNext == IInv /\ LimiterInv /\ [Next]_vars => LimiterInv'
  <1>1. SUFFICES ASSUME IInv, LimiterInv, [Next]_vars  PROVE LimiterInv'
    OBVIOUS
  <1>2. TypeOK  BY <1>1 DEF IInv
  <1>3. ASSUME UNCHANGED <<pc, job, limiter>>  PROVE LimiterInv'
    BY <1>1, <1>3 DEF LimiterInv, WindowOf
  <1>4. CASE Tick \/ UNCHANGED vars  BY <1>3, <1>4 DEF Tick, vars, calls
  <1>5. ASSUME NEW u \in Users,
               ResetPasswordFor(u) \/ SetStatus(u) \/ MarkEmailVerified(u) \/ ChangeTotp(u)
        PROVE  LimiterInv'
    <2>1. UNCHANGED <<pc, job, limiter>>
      BY <1>5 DEF ResetPasswordFor, SetStatus, MarkEmailVerified, ChangeTotp, Rewrite, calls
    <2>2. QED  BY <1>3, <2>1
  <1>6. CASE Restart
    <2>1. recorded' = {} /\ admitted' = {} /\ blind' = {}  BY <1>6 DEF Restart
    <2>2. QED  BY <2>1, FS_EmptySet DEF LimiterInv
  <1>7. ASSUME NEW r \in Requests, NEW ip \in Ips,
               \/ \E u \in Users : PresentPasswordInFlow(r, u, ip)
               \/ \E k \in Kinds, u \in Users : PresentPassword(r, k, u, ip)
               \/ \E x \in Requests, t \in Tenants : PresentTicket(r, x, t, ip)
        PROVE  LimiterInv'
    BY <1>1, <1>7, LimiterBegins
  <1>8. ASSUME NEW r \in Requests, NEW x \in Requests, ChangeOwnPassword(r, x)
        PROVE  LimiterInv'
    BY <1>1, <1>8, LimiterBegins
  <1>9. ASSUME NEW r \in Requests, Step(r) \/ CallFails(r)
        PROVE  LimiterInv'
    BY <1>1, <1>9, LimiterSteps
  <1>10. QED  BY <1>1, <1>4, <1>5, <1>6, <1>7, <1>8, <1>9 DEF Next

\* InMemoryLoginRateLimiter::check_and_record, in one process between restarts,
\* lets at most MaxAttempts calls of an address through in any window, although
\* every door reads the clock before it waits for the mutex, so that the times it
\* prunes with go back and forth; only a call that finds part of its own window
\* pruned by a later time escapes the count.
THEOREM LimiterHolds == Spec => []LimiterBound
  <1>1. Init => LimiterInv
    BY FS_EmptySet DEF Init, LimiterInv
  <1>2. LimiterInv => LimiterBound
    BY DEF LimiterInv, LimiterBound, WindowOf
  <1>3. QED  BY <1>1, <1>2, LimiterNext, Invariance, PTL DEF Spec
=============================================================================
