------------------------ MODULE LinksAndPagesProofs ------------------------
(****************************************************************************)
(* Proofs about the two models of what a visitor meets outside a flow of    *)
(* his own: the links in his mail (MailedLinks) and the tabs of his browser *)
(* (BrowserPages).  They share the accounts and nothing else.               *)
(*                                                                          *)
(* For any users, tenants, calls and lifetimes the link tables implement    *)
(* the abstract one-time grant, and a password set by a reset, or an        *)
(* address verified, rests on a delivered link.  For any number of tabs a   *)
(* form continues what it was shown for and acts for the account it names.  *)
(****************************************************************************)
EXTENDS MailedLinks, BrowserPages, TLAPS

\* A call that makes a link, until its INSERT.
Making == {"taken", "insert", "home", "smtp", "find", "invalidate", "create"}

\* The locals of a call that makes a link; it inserts its row only once.
MakerInv ==
    \A r \in Requests :
        /\ pc[r] # "new" => job[r] \in Job
        /\ pc[r] = "new" => job[r] = None
        /\ pc[r] \in Making \cup {"mail"} => job[r].user \in Users /\ job[r].kind \in {"register", "request"}
        /\ pc[r] \in Making \cup {"new"} => links[r] = None
        /\ pc[r] = "mail" => links[r] # None

\* Only the UPDATE that marks a link as used has a winner.
WinnerInv == \A l \in Requests : winner[l] # None => links[l] # None /\ links[l].used

\* What a call that uses a link knows at each of its statements.
Uses(r) == job[r] # None /\ job[r].kind \in {"reset", "verify"}

Knows(r) ==
    LET j == job[r] IN
    /\ pc[r] \in {"consume", "fetch", "owner", "apply"} \cup Ended
    /\ links[j.link].purpose = Purpose(j.kind)
    /\ pc[r] \in {"fetch", "owner", "apply", "ok"} =>
          winner[j.link] = r /\ j.time < links[j.link].expires
    /\ pc[r] \in {"owner", "apply", "ok"} => j.user = links[j.link].user
    /\ pc[r] \in {"apply", "ok"} => j.tenant = Home[j.user]

UserInv == \A r \in Requests : Uses(r) => Knows(r)

\* The statements of using a link belong to such a call, and its link was
\* delivered.
UsingInv == \A r \in Requests :
    /\ pc[r] \in {"consume", "fetch", "owner", "apply"} => Uses(r)
    /\ Uses(r) => job[r].link \in mailbox

TInv == TypeOK /\ MakerInv /\ UsingInv
IInv == TInv /\ WinnerInv /\ UserInv
-----------------------------------------------------------------------------
(* Rows and locals.                                                         *)

\* Marking a link as used, or removing its row, keeps every other field.
Used(x) == [x EXCEPT !.used = TRUE]
Gone(x) == [x EXCEPT !.gone = TRUE]

LEMMA MarkedLink ==
    ASSUME NEW x \in Link
    PROVE  /\ Used(x) \in Link /\ Used(x) # None /\ Used(x).used /\ Used(x).gone = x.gone
           /\ Gone(x) \in Link /\ Gone(x) # None /\ Gone(x).gone /\ Gone(x).used = x.used
<1>1. /\ Used(x) \in Link /\ Used(x).used /\ Used(x).gone = x.gone
      /\ Gone(x) \in Link /\ Gone(x).gone /\ Gone(x).used = x.used
  BY DEF Link, Used, Gone
<1> QED BY <1>1, NoneIsNoRecord

LEMMA MarkedTerms ==
    ASSUME NEW x \in Link
    PROVE  /\ Used(x).user = x.user /\ Used(x).purpose = x.purpose /\ Used(x).expires = x.expires
           /\ Gone(x).user = x.user /\ Gone(x).purpose = x.purpose /\ Gone(x).expires = x.expires
  BY DEF Link, Used, Gone

\* Reading the clock, or the account of a link, keeps the other locals.
Timed(j, n) == [j EXCEPT !.time = n]
Owned(j, u) == [j EXCEPT !.user = u]

LEMMA TimedJob ==
    ASSUME NEW j \in Job, NEW n \in Int
    PROVE  /\ Timed(j, n) \in Job /\ Timed(j, n) # None
           /\ Timed(j, n).user = j.user /\ Timed(j, n).kind = j.kind
<1>1. Timed(j, n) \in Job /\ Timed(j, n).user = j.user /\ Timed(j, n).kind = j.kind
  BY DEF Job, Timed
<1> QED BY <1>1, NoneIsNoRecord

LEMMA OwnedJob ==
    ASSUME NEW j \in Job, NEW u \in Users
    PROVE  /\ Owned(j, u) \in Job /\ Owned(j, u) # None /\ Owned(j, u).user = u
           /\ Owned(j, u).kind = j.kind /\ Owned(j, u).time = j.time
           /\ Owned(j, u).link = j.link /\ Owned(j, u).tenant = j.tenant
<1>1. /\ Owned(j, u) \in Job /\ Owned(j, u).user = u
      /\ Owned(j, u).kind = j.kind /\ Owned(j, u).time = j.time
      /\ Owned(j, u).link = j.link /\ Owned(j, u).tenant = j.tenant
  BY DEF Job, Owned
<1> QED BY <1>1, NoneIsNoRecord

\* What the statements on users make of a row.
Registered(x, r) == [x EXCEPT !.status = "ACTIVE", !.setBy = r]

LEMMA ChangedAccount ==
    ASSUME NEW x \in Account, NEW r \in Requests
    PROVE  /\ Registered(x, r) \in Account
           /\ [x EXCEPT !.setBy = r] \in Account /\ [x EXCEPT !.verified = TRUE] \in Account
           /\ [x EXCEPT !.home = TRUE] \in Account
  BY DEF Account, Registered
-----------------------------------------------------------------------------
(* Typing.                                                                  *)

LEMMA TypeInit == Init => TInv
<1> SUFFICES ASSUME Init PROVE TInv
  OBVIOUS
<1>1. TypeOK
  BY LinkAssumption, AccountAssumption DEF Init, TypeOK, Account, Pcs
<1>2. MakerInv /\ UsingInv
  BY DEF Init, MakerInv, UsingInv, Uses, Making
<1> QED BY <1>1, <1>2 DEF TInv

LEMMA TypeEnvironment ==
    ASSUME TInv, \/ Tick \/ ConfigureSmtp \/ \E u \in Users : DisableUser(u) \/ EnableUser(u) \/ DeleteUser(u)
    PROVE  TInv'
<1> USE DEF TInv, TypeOK, MakerInv, UsingInv, Uses, rows
<1>1. CASE Tick
  BY <1>1, LinkAssumption, AccountAssumption DEF Tick
<1>2. CASE ConfigureSmtp
  BY <1>2 DEF ConfigureSmtp
<1>3. CASE \E u \in Users : DisableUser(u) \/ EnableUser(u)
  BY <1>3 DEF DisableUser, EnableUser, Account
<1>4. ASSUME NEW u \in Users, DeleteUser(u) PROVE TInv'
  <2>1. users' \in [Users -> Account]
    BY <1>4 DEF DeleteUser, Account
  <2>2. \A l \in Requests : links'[l] = links[l] \/ (links[l] \in Link /\ links'[l] = Gone(links[l]))
    BY <1>4 DEF DeleteUser, Gone
  <2>3. \A l \in Requests : links'[l] \in Link \cup {None} /\ (links'[l] = None <=> links[l] = None)
    BY <2>2, MarkedLink, NoneIsNoRecord
  <2>4. links' \in [Requests -> Link \cup {None}]
    BY <1>4, <2>3 DEF DeleteUser
  <2> QED BY <1>4, <2>1, <2>3, <2>4 DEF DeleteUser
<1> QED BY <1>1, <1>2, <1>3, <1>4

LEMMA TypeArrival ==
    ASSUME TInv, NEW r \in Requests, NewCall(r)
    PROVE  TInv'
<1> USE DEF TInv, TypeOK, rows
<1> DEFINE Begun == \E l \in {"taken", "smtp", "consume"}, j \in Job :
                      /\ Begin(r, l, j) /\ pc[r] = "new"
                      /\ IF l = "consume" THEN j.kind \in {"reset", "verify"} /\ j.link \in mailbox
                         ELSE j.kind \in {"register", "request"} /\ j.user \in Users
<1>1. Begun
  <2>1. now \in Int /\ pc[r] = "new" /\ Home \in [Users -> Tenants]
    BY LinkAssumption, AccountAssumption DEF NewCall
  <2>2. ASSUME NEW u \in Users, Register(r, u) PROVE Begun
    <3> DEFINE j == [kind |-> "register", user |-> u, tenant |-> Home[u], link |-> None, time |-> now]
    <3>1. Begin(r, "taken", j)
      BY <2>2 DEF Register
    <3>2. j \in Job
      BY <2>1, <3>1 DEF Begin, Job
    <3> QED BY <2>1, <3>1, <3>2
  <2>3. ASSUME NEW u \in Users, NEW t \in Tenants, RequestReset(r, u, t) PROVE Begun
    <3> DEFINE j == [kind |-> "request", user |-> u, tenant |-> t, link |-> None, time |-> now]
    <3>1. Begin(r, "smtp", j)
      BY <2>3 DEF RequestReset
    <3>2. j \in Job
      BY <2>1, <3>1 DEF Begin, Job
    <3> QED BY <2>1, <3>1, <3>2
  <2>4. ASSUME NEW k, NEW l \in mailbox, NEW t \in Tenants, PresentLink(r, k, l, t) PROVE Begun
    <3> DEFINE j == [kind |-> k, user |-> None, tenant |-> t, link |-> l, time |-> now]
    <3>1. Begin(r, "consume", j) /\ k \in {"reset", "verify"}
      BY <2>4 DEF PresentLink
    <3>2. j \in Job
      BY <2>1, <3>1 DEF Begin, Job
    <3> QED BY <2>1, <3>1, <3>2
  <2> QED BY <2>2, <2>3, <2>4 DEF NewCall, ResetPassword, VerifyEmail
<1>2. TypeOK'
  BY <1>1 DEF Begin, Goto, Pcs
<1>3. MakerInv' /\ UsingInv'
  BY <1>1, NoneIsNoRecord DEF Begin, Goto, MakerInv, UsingInv, Uses, Making
<1> QED BY <1>2, <1>3

LEMMA TypeStep ==
    ASSUME TInv, NEW r \in Requests, Step(r) \/ CallFails(r)
    PROVE  TInv'
<1> USE DEF TInv, TypeOK, rows, Pcs, Goto
<1>0. pc[r] # "new" /\ job[r] \in Job /\ job[r] # None /\ now \in Int
  BY NoneIsNoRecord DEF MakerInv, Step, CallFails, CheckTaken, InsertUser, InsertHome, LoadSmtp, FindByEmail,
         InvalidateAllForUser, CreateLink, SendMail, Delivered, Consume, FetchConsumed, CheckOwner, ApplyLink
<1>1. CASE CheckTaken(r) \/ CheckOwner(r) \/ CallFails(r)
  BY <1>0, <1>1 DEF CheckTaken, CheckOwner, CallFails, MakerInv, UsingInv, Uses, Making
<1>2. CASE InsertUser(r) \/ InsertHome(r)
  <2>1. PICK u \in Users : u = job[r].user
    BY <1>2 DEF InsertUser, InsertHome, MakerInv, Making
  <2>2. users' \in [Users -> Account]
    <3>1. users' \in {users, [users EXCEPT ![u] = Registered(users[u], r)],
                      [users EXCEPT ![u] = [users[u] EXCEPT !.home = TRUE]]}
      BY <1>2, <2>1 DEF InsertUser, InsertHome, Registered
    <3>2. Registered(users[u], r) \in Account /\ [users[u] EXCEPT !.home = TRUE] \in Account
      BY ChangedAccount
    <3> QED BY <3>1, <3>2
  <2>3. TypeOK'
    BY <1>2, <2>2 DEF InsertUser, InsertHome
  <2>4. MakerInv' /\ UsingInv'
    BY <1>0, <1>2 DEF InsertUser, InsertHome, MakerInv, UsingInv, Uses, Making
  <2> QED BY <2>3, <2>4
<1>3. CASE LoadSmtp(r) \/ FindByEmail(r)
  <2>1. job' = [job EXCEPT ![r] = Timed(job[r], now)]
    BY <1>3 DEF Timed, LoadSmtp, FindByEmail
  <2>2. job'[r] \in Job /\ job'[r].user = job[r].user /\ job'[r].kind = job[r].kind /\ job'[r] # None
    BY <1>0, <2>1, TimedJob, NoneIsNoRecord
  <2>3. TypeOK'
    BY <1>3, <2>1, <2>2 DEF LoadSmtp, FindByEmail
  <2>4. MakerInv' /\ UsingInv'
    BY <1>3, <2>1, <2>2 DEF LoadSmtp, FindByEmail, MakerInv, UsingInv, Uses, Making
  <2> QED BY <2>3, <2>4
<1>4. CASE InvalidateAllForUser(r)
  <2>0. \A l \in Requests : links'[l] = links[l] \/ (links[l] \in Link /\ links'[l] = Used(links[l]))
    BY <1>4 DEF InvalidateAllForUser, Stale, Used
  <2>1. \A l \in Requests : links'[l] \in Link \cup {None} /\ (links'[l] = None <=> links[l] = None)
    BY <2>0, MarkedLink, NoneIsNoRecord
  <2>2. links' \in [Requests -> Link \cup {None}]
    BY <1>4, <2>1 DEF InvalidateAllForUser
  <2>3. TypeOK'
    BY <1>4, <2>1, <2>2 DEF InvalidateAllForUser
  <2>4. MakerInv' /\ UsingInv'
    BY <1>0, <1>4, <2>1 DEF InvalidateAllForUser, MakerInv, UsingInv, Uses, Making
  <2> QED BY <2>3, <2>4
<1>5. CASE CreateLink(r)
  <2>1. NewLink(job[r]) \in Link
    BY <1>0, <1>5, LinkAssumption, AccountAssumption DEF CreateLink, NewLink, Link, Job, MakerInv, Making
  <2>2. TypeOK'
    BY <1>5, <2>1, NoneIsNoRecord DEF CreateLink
  <2>3. MakerInv' /\ UsingInv'
    BY <1>0, <1>5, <2>1, NoneIsNoRecord DEF CreateLink, MakerInv, UsingInv, Uses, Making
  <2> QED BY <2>2, <2>3
<1>6. CASE SendMail(r)
  BY <1>0, <1>6 DEF SendMail, Delivered, MakerInv, UsingInv, Uses, Making
<1>7. CASE Consume(r)
  <2>1. job[r].link \in Requests /\ links[job[r].link] \in Link
    BY <1>7 DEF Consume, UsingInv
  <2>2. \/ links' = links /\ winner' = winner
        \/ /\ links' = [links EXCEPT ![job[r].link] = Used(links[job[r].link])]
           /\ winner' = [winner EXCEPT ![job[r].link] = r]
    BY <1>7 DEF Consume, Used
  <2>3. \A l \in Requests : links'[l] \in Link \cup {None} /\ (links'[l] = None <=> links[l] = None)
    BY <2>1, <2>2, MarkedLink, NoneIsNoRecord
  <2>4. links' \in [Requests -> Link \cup {None}]
    BY <2>2, <2>3
  <2>5. TypeOK'
    BY <1>7, <2>1, <2>2, <2>3, <2>4 DEF Consume
  <2>6. MakerInv' /\ UsingInv'
    BY <1>0, <1>7, <2>3 DEF Consume, MakerInv, UsingInv, Uses, Making
  <2> QED BY <2>5, <2>6
<1>8. CASE FetchConsumed(r)
  <2>1. links[job[r].link] \in Link
    BY <1>8 DEF FetchConsumed, UsingInv
  <2>2. links[job[r].link].user \in Users
    BY <2>1 DEF Link
  <2>3. job' \in {job, [job EXCEPT ![r] = Owned(job[r], links[job[r].link].user)]}
    BY <1>8 DEF FetchConsumed, Owned
  <2>4. job'[r] \in Job /\ job'[r].kind = job[r].kind /\ job'[r].link = job[r].link /\ job'[r] # None
    BY <1>0, <2>2, <2>3, OwnedJob, NoneIsNoRecord
  <2>5. TypeOK'
    BY <1>8, <2>3, <2>4 DEF FetchConsumed
  <2>6. MakerInv' /\ UsingInv'
    BY <1>8, <2>3, <2>4 DEF FetchConsumed, MakerInv, UsingInv, Uses, Making
  <2> QED BY <2>5, <2>6
<1>9. CASE ApplyLink(r)
  <2>1. users' \in [Users -> Account]
    BY <1>9, ChangedAccount DEF ApplyLink
  <2>2. MakerInv' /\ UsingInv'
    BY <1>0, <1>9 DEF ApplyLink, MakerInv, UsingInv, Uses, Making
  <2> QED BY <1>9, <2>1, <2>2 DEF ApplyLink
<1> QED BY <1>1, <1>2, <1>3, <1>4, <1>5, <1>6, <1>7, <1>8, <1>9 DEF Step

LEMMA TypeNext == TInv /\ [Next]_vars => TInv'
<1>1. TInv /\ UNCHANGED vars => TInv'
  BY DEF vars, rows, TInv, TypeOK, MakerInv, UsingInv, Uses
<1> QED BY <1>1, TypeEnvironment, TypeArrival, TypeStep DEF Next

\* The rows of the account and link tables, and the locals of every call, are
\* of their types at every statement.
THEOREM TypeCorrect == Spec => []TypeOK
<1> QED BY TypeInit, TypeNext, PTL DEF Spec, TInv
-----------------------------------------------------------------------------
(* The link tables implement OneTimeGrant.                                  *)

Phase(l) == IF links[l] = None THEN "unissued"
            ELSE IF links[l].used \/ links[l].gone THEN "closed" ELSE "open"

LEMMA PhaseIs == phase = [l \in Requests |-> Phase(l)]
  BY DEF phase, Phase

LEMMA StoreInit == Init => Store!Init
  BY DEF Init, Store!Init, phase

LEMMA StoreStutter ==
    ASSUME links' = links, winner' = winner
    PROVE  UNCHANGED Store!vars
  BY DEF Store!vars, phase

\* A set of open links that one statement closes is an abstract Withdraw.
LEMMA ClosingIsWithdraw ==
    ASSUME NEW S \in SUBSET Requests, winner' = winner,
           \A l \in S : Phase(l) = "open" /\ Phase(l)' = "closed",
           \A l \in Requests \ S : Phase(l)' = Phase(l)
    PROVE  Store!Next
<1>1. Store!Withdraw(S)
  BY PhaseIs DEF Store!Withdraw, phase, Phase
<1> QED BY <1>1 DEF Store!Next

LEMMA StoreStep == TInv /\ [Next]_vars => [Store!Next]_(Store!vars)
<1> SUFFICES ASSUME TInv, [Next]_vars PROVE Store!Next \/ UNCHANGED Store!vars
  OBVIOUS
<1> USE DEF TInv, TypeOK
<1>1. ASSUME NEW u \in Users, DeleteUser(u) PROVE Store!Next
  <2> DEFINE S == {l \in Requests : links[l] # None /\ links[l].user = u /\ Phase(l) = "open"}
  <2>1. \A l \in Requests : IF links[l] # None /\ links[l].user = u
                            THEN links'[l] = Gone(links[l]) ELSE links'[l] = links[l]
    BY <1>1 DEF DeleteUser, Gone
  <2>2. \A l \in Requests : links[l] # None => links[l] \in Link
    OBVIOUS
  <2>3. \A l \in S : Phase(l)' = "closed"
    BY <2>1, <2>2, MarkedLink DEF Phase
  <2>4. \A l \in Requests \ S : Phase(l)' = Phase(l)
    BY <2>1, <2>2, MarkedLink DEF Phase
  <2> QED BY <1>1, <2>3, <2>4, ClosingIsWithdraw DEF DeleteUser
<1>2. ASSUME NEW r \in Requests, InvalidateAllForUser(r) PROVE Store!Next
  <2> DEFINE p == IF job[r].kind = "request" THEN "reset" ELSE "verify"
             S == {l \in Requests : Stale(l, job[r].user, p) /\ Phase(l) = "open"}
  <2>1. \A l \in Requests : IF Stale(l, job[r].user, p)
                            THEN links'[l] = Used(links[l]) ELSE links'[l] = links[l]
    BY <1>2 DEF InvalidateAllForUser, Used
  <2>2. \A l \in Requests : Stale(l, job[r].user, p) => links[l] \in Link
    BY DEF Stale
  <2> HIDE DEF p
  <2>3. \A l \in S : Phase(l)' = "closed"
    BY <2>1, <2>2, MarkedLink DEF Phase
  <2>4. \A l \in Requests \ S : Phase(l)' = Phase(l)
    BY <2>1, <2>2, MarkedLink DEF Phase, Stale
  <2> QED BY <1>2, <2>3, <2>4, ClosingIsWithdraw DEF InvalidateAllForUser
<1>3. ASSUME NEW r \in Requests, CreateLink(r) PROVE Store!Next \/ UNCHANGED Store!vars
  <2>1. CASE ~Exists(job[r].user)
    BY <1>3, <2>1, StoreStutter DEF CreateLink
  <2>2. CASE Exists(job[r].user)
    <3>1. links' = [links EXCEPT ![r] = NewLink(job[r])] /\ winner' = winner
      BY <1>3, <2>2 DEF CreateLink
    <3>2. links[r] = None /\ job[r] \in Job /\ job[r].user \in Users
      BY <1>3 DEF CreateLink, MakerInv, Making
    <3>3. NewLink(job[r]) \in Link /\ ~NewLink(job[r]).used /\ ~NewLink(job[r]).gone
      BY <3>2, LinkAssumption, AccountAssumption DEF NewLink, Link, Job
    <3>4. Phase(r) = "unissued" /\ Phase(r)' = "open"
      BY <3>1, <3>2, <3>3, NoneIsNoRecord DEF Phase
    <3>5. \A l \in Requests \ {r} : Phase(l)' = Phase(l)
      BY <3>1 DEF Phase
    <3>6. Store!Open(r)
      BY <3>1, <3>4, <3>5 DEF Store!Open, phase, Phase
    <3> QED BY <3>6 DEF Store!Next
  <2> QED BY <2>1, <2>2
<1>4. ASSUME NEW r \in Requests, Consume(r) PROVE Store!Next \/ UNCHANGED Store!vars
  <2>1. PICK l \in Requests : l = job[r].link /\ links[l] \in Link
    BY <1>4 DEF Consume, UsingInv
  <2>2. CASE ~Consumable(l, job[r].time)
    BY <1>4, <2>1, <2>2, StoreStutter DEF Consume
  <2>3. CASE Consumable(l, job[r].time)
    <3>1. /\ links' = [links EXCEPT ![l] = Used(links[l])]
          /\ winner' = [winner EXCEPT ![l] = r]
      BY <1>4, <2>1, <2>3 DEF Consume, Used
    <3>2. Phase(l) = "open" /\ Phase(l)' = "closed"
      BY <2>1, <2>3, <3>1, MarkedLink, NoneIsNoRecord DEF Phase, Consumable
    <3>3. \A k \in Requests \ {l} : Phase(k)' = Phase(k)
      BY <2>1, <3>1 DEF Phase
    <3>4. Store!Redeem(l, r)
      BY <2>1, <3>1, <3>2, <3>3 DEF Store!Redeem, phase, Phase
    <3> QED BY <2>1, <3>4 DEF Store!Next
  <2> QED BY <2>2, <2>3
<1>5. ASSUME NEW r \in Requests, Step(r) \/ CallFails(r),
             ~(InvalidateAllForUser(r) \/ CreateLink(r) \/ Consume(r))
      PROVE  UNCHANGED Store!vars
  BY <1>5, StoreStutter DEF Step, CallFails, CheckTaken, InsertUser, InsertHome, LoadSmtp, FindByEmail,
         SendMail, Delivered, FetchConsumed, CheckOwner, ApplyLink, rows
<1>6. ASSUME NEW r \in Requests, NewCall(r) PROVE UNCHANGED Store!vars
  BY <1>6, StoreStutter DEF NewCall, Register, RequestReset, ResetPassword, VerifyEmail, PresentLink, Begin, rows
<1>7. CASE UNCHANGED vars \/ Tick \/ ConfigureSmtp \/ \E u \in Users : DisableUser(u) \/ EnableUser(u)
  BY <1>7, StoreStutter DEF vars, Tick, ConfigureSmtp, DisableUser, EnableUser, rows
<1> QED BY <1>1, <1>2, <1>3, <1>4, <1>5, <1>6, <1>7 DEF Next

\* The tables of verification and reset links, with their expiry, their
\* two-statement consume, the invalidation of older links and the cascade of a
\* deleted account, implement the abstract store in which a grant is opened
\* once and closes once and for good.
THEOREM LinksAreOneTimeGrants == Spec => ImplementsOneTimeGrant
<1> QED BY TypeInit, TypeNext, StoreInit, StoreStep, PTL
        DEF Spec, ImplementsOneTimeGrant, Store!Spec
-----------------------------------------------------------------------------
(* Effects come from links.                                                 *)

\* A step keeps the terms of every link, never reopens one, never takes a
\* winner's link from it, and never takes a mail back.
Kept(l) ==
    /\ links[l] # None =>
          /\ links'[l] # None /\ links'[l].user = links[l].user
          /\ links'[l].purpose = links[l].purpose /\ links'[l].expires = links[l].expires
          /\ links[l].used => links'[l].used
    /\ winner[l] # None => winner'[l] = winner[l]
    /\ l \in mailbox => l \in mailbox'

LEMMA RowsAreKept ==
    ASSUME TInv, WinnerInv, [Next]_vars, NEW l \in Requests
    PROVE  Kept(l)
<1> USE DEF TInv, TypeOK
<1>0. links[l] # None => links[l] \in Link
  OBVIOUS
<1>1. CASE links' = links /\ winner' = winner /\ mailbox \subseteq mailbox'
  BY <1>1 DEF Kept
<1>2. CASE /\ links[l] \in Link /\ links'[l] \in {links[l], Used(links[l]), Gone(links[l])}
           /\ winner' = winner /\ mailbox' = mailbox
  BY <1>2, MarkedLink, MarkedTerms DEF Kept, Link
<1>3. ASSUME NEW u \in Users, DeleteUser(u) PROVE Kept(l)
  <2>1. CASE links[l] # None
    BY <1>0, <1>2, <1>3, <2>1 DEF DeleteUser, Gone
  <2>2. CASE links[l] = None
    BY <1>3, <2>2 DEF DeleteUser, Kept
  <2> QED BY <2>1, <2>2
<1>4. ASSUME NEW r \in Requests, InvalidateAllForUser(r) PROVE Kept(l)
  <2>1. CASE links[l] # None
    BY <1>0, <1>2, <1>4, <2>1 DEF InvalidateAllForUser, Used
  <2>2. CASE links[l] = None
    BY <1>4, <2>2 DEF InvalidateAllForUser, Kept
  <2> QED BY <2>1, <2>2
<1>5. ASSUME NEW r \in Requests, CreateLink(r) PROVE Kept(l)
  BY <1>5 DEF CreateLink, Kept, MakerInv, Making
<1>6. ASSUME NEW r \in Requests, Consume(r) PROVE Kept(l)
  <2>1. PICK k \in Requests : k = job[r].link /\ links[k] \in Link
    BY <1>6 DEF Consume, UsingInv
  <2>2. CASE Consumable(k, job[r].time)
    <3>1. /\ links' = [links EXCEPT ![k] = Used(links[k])] /\ winner' = [winner EXCEPT ![k] = r]
          /\ mailbox' = mailbox
      BY <1>6, <2>1, <2>2 DEF Consume, Used
    <3>2. winner[k] = None
      BY <2>1, <2>2 DEF Consumable, WinnerInv
    <3> QED BY <2>1, <3>1, <3>2, MarkedLink, MarkedTerms, NoneIsNoRecord DEF Kept
  <2>3. CASE ~Consumable(k, job[r].time)
    BY <1>1, <1>6, <2>1, <2>3 DEF Consume
  <2> QED BY <2>2, <2>3
<1>7. ASSUME NEW r \in Requests, Step(r) \/ CallFails(r),
             ~(InvalidateAllForUser(r) \/ CreateLink(r) \/ Consume(r))
      PROVE  Kept(l)
  BY <1>1, <1>7 DEF Step, CallFails, CheckTaken, InsertUser, InsertHome, LoadSmtp, FindByEmail,
         SendMail, Delivered, FetchConsumed, CheckOwner, ApplyLink, rows
<1>8. ASSUME NEW r \in Requests, NewCall(r) PROVE Kept(l)
  BY <1>1, <1>8 DEF NewCall, Register, RequestReset, ResetPassword, VerifyEmail, PresentLink, Begin, rows
<1>9. CASE UNCHANGED vars \/ Tick \/ ConfigureSmtp \/ \E u \in Users : DisableUser(u) \/ EnableUser(u)
  BY <1>1, <1>9 DEF vars, Tick, ConfigureSmtp, DisableUser, EnableUser, rows
<1> QED BY <1>3, <1>4, <1>5, <1>6, <1>7, <1>8, <1>9 DEF Next

\* A new winner has just marked its link as used.
LEMMA NewWinner ==
    ASSUME TInv, [Next]_vars, NEW l \in Requests, winner'[l] # winner[l]
    PROVE  links'[l] # None /\ links'[l].used
<1> USE DEF TInv, TypeOK
<1>1. PICK r \in Requests : Consume(r)
  BY DEF Next, NewCall, Register, RequestReset, ResetPassword, VerifyEmail, PresentLink, Begin, Step, CallFails,
         CheckTaken, InsertUser,
         InsertHome, LoadSmtp, FindByEmail, InvalidateAllForUser, CreateLink, SendMail, Delivered, FetchConsumed,
         CheckOwner, ApplyLink, Tick, ConfigureSmtp, DisableUser, EnableUser, DeleteUser, rows, vars
<1>2. l = job[r].link /\ links' = [links EXCEPT ![l] = Used(links[l])]
  BY <1>1 DEF Consume, Used
<1>3. links[l] \in Link
  BY <1>1, <1>2 DEF Consume, UsingInv
<1> QED BY <1>2, <1>3, MarkedLink

LEMMA WinnerNext == TInv /\ WinnerInv /\ [Next]_vars => WinnerInv'
<1> SUFFICES ASSUME TInv, WinnerInv, [Next]_vars, NEW l \in Requests, winner'[l] # None
             PROVE  links'[l] # None /\ links'[l].used
  BY DEF WinnerInv
<1>1. CASE winner'[l] = winner[l]
  BY <1>1, RowsAreKept DEF WinnerInv, Kept
<1> QED BY <1>1, NewWinner

\* A step is one call's, or touches the locals of none.
LEMMA WhoseStep ==
    ASSUME TInv, [Next]_vars, NEW q \in Requests
    PROVE  \/ pc'[q] = pc[q] /\ job'[q] = job[q]
           \/ NewCall(q) \/ Step(q) \/ CallFails(q)
<1> USE DEF TInv, TypeOK
<1>1. ASSUME NEW r \in Requests, Step(r) \/ CallFails(r), r # q PROVE pc'[q] = pc[q] /\ job'[q] = job[q]
  BY <1>1 DEF Step, CallFails, CheckTaken, InsertUser, InsertHome, LoadSmtp, FindByEmail, Goto, rows,
         InvalidateAllForUser, CreateLink, SendMail, Delivered, Consume, FetchConsumed, CheckOwner, ApplyLink
<1>2. ASSUME NEW r \in Requests, NewCall(r), r # q PROVE pc'[q] = pc[q] /\ job'[q] = job[q]
  BY <1>2 DEF NewCall, Register, RequestReset, ResetPassword, VerifyEmail, PresentLink, Begin, Goto
<1>3. CASE \/ UNCHANGED vars \/ Tick \/ ConfigureSmtp
           \/ \E u \in Users : DisableUser(u) \/ EnableUser(u) \/ DeleteUser(u)
  BY <1>3 DEF vars, Tick, ConfigureSmtp, DisableUser, EnableUser, DeleteUser
<1> QED BY <1>1, <1>2, <1>3 DEF Next

LEMMA UserNext == IInv /\ [Next]_vars => UserInv'
<1> SUFFICES ASSUME IInv, [Next]_vars, NEW q \in Requests, Uses(q)' PROVE Knows(q)'
  BY DEF UserInv
<1> USE DEF IInv
<1>0. Uses(q) => Knows(q)
  BY DEF UserInv
<1>1. CASE pc'[q] = pc[q] /\ job'[q] = job[q]
  <2>1. Uses(q) /\ Knows(q)
    BY <1>0, <1>1 DEF Uses
  <2>2. PICK l \in Requests : l = job[q].link /\ l \in mailbox /\ links[l] # None
    BY <2>1 DEF TInv, UsingInv, TypeOK
  <2>3. Kept(l)
    BY RowsAreKept
  <2> QED BY <1>1, <2>1, <2>2, <2>3, LinkAssumption, AccountAssumption DEF Knows, Kept
<1>2. CASE NewCall(q)
  <2>1. PICK k \in {"reset", "verify"}, l \in mailbox, t \in Tenants : PresentLink(q, k, l, t)
    BY <1>2 DEF NewCall, ResetPassword, VerifyEmail, Register, RequestReset, Begin, Uses, TInv, TypeOK
  <2> QED BY <2>1 DEF PresentLink, Begin, Goto, Knows, TInv, TypeOK, rows
<1>3. CASE \/ CheckTaken(q) \/ InsertUser(q) \/ InsertHome(q) \/ LoadSmtp(q) \/ FindByEmail(q)
           \/ InvalidateAllForUser(q) \/ CreateLink(q) \/ SendMail(q)
  <2>1. pc[q] \in Making \cup {"mail"}
    BY <1>3 DEF Making, CheckTaken, InsertUser, InsertHome, LoadSmtp, FindByEmail, InvalidateAllForUser,
                CreateLink, SendMail, Delivered
  <2>2. job[q] \in Job /\ job[q].kind \in {"register", "request"}
    BY <2>1 DEF TInv, MakerInv, Making
  <2>3. job'[q] = job[q] \/ job'[q] = Timed(job[q], now)
    BY <1>3 DEF CheckTaken, InsertUser, InsertHome, LoadSmtp, FindByEmail, InvalidateAllForUser,
                CreateLink, SendMail, Delivered, Timed, TInv, TypeOK
  <2> QED BY <2>2, <2>3, TimedJob DEF Uses, TInv, TypeOK
<1>4. CASE Consume(q)
  <2>1. Uses(q) /\ Knows(q) /\ job' = job
    BY <1>0, <1>4 DEF Consume, TInv, UsingInv
  <2>2. PICK l \in Requests : l = job[q].link /\ links[l] \in Link
    BY <2>1 DEF TInv, UsingInv, TypeOK
  <2>3. Kept(l) /\ links[l] # None
    BY <2>2, RowsAreKept, NoneIsNoRecord
  <2>4. job[q].time \in Int /\ links[l].expires \in Int
    BY <1>4, <2>2 DEF TInv, MakerInv, Consume, Job, Link
  <2> QED BY <1>4, <2>1, <2>2, <2>3, <2>4 DEF Consume, Consumable, Knows, Kept, Goto, Ended, TInv, TypeOK
<1>5. CASE FetchConsumed(q)
  <2>1. Uses(q) /\ Knows(q) /\ job[q] \in Job
    BY <1>0, <1>5 DEF FetchConsumed, TInv, UsingInv, MakerInv
  <2>2. links[job[q].link].user \in Users
    BY <2>1 DEF TInv, UsingInv, TypeOK, Link
  <2>3. \/ job' = job /\ pc'[q] = "failed"
        \/ job'[q] = Owned(job[q], links[job[q].link].user) /\ pc'[q] = "owner"
    BY <1>5 DEF FetchConsumed, Owned, Goto, TInv, TypeOK
  <2> QED BY <1>5, <2>1, <2>2, <2>3, OwnedJob DEF FetchConsumed, Knows, Ended, rows
<1>6. CASE CheckOwner(q) \/ ApplyLink(q) \/ CallFails(q)
  <2>1. Uses(q) /\ Knows(q) /\ job' = job
    BY <1>0, <1>6 DEF CheckOwner, ApplyLink, CallFails, Uses
  <2> QED BY <1>6, <2>1 DEF CheckOwner, ApplyLink, CallFails, Accepts, Knows, Ended, Goto, rows, TInv, TypeOK
<1> QED BY <1>1, <1>2, <1>3, <1>4, <1>5, <1>6, WhoseStep DEF Step

LEMMA Inductive == Spec => []IInv
<1>1. Init => IInv
  BY TypeInit DEF Init, IInv, WinnerInv, UserInv, Uses
<1>2. IInv /\ [Next]_vars => IInv'
  BY TypeNext, WinnerNext, UserNext DEF IInv
<1> QED BY <1>1, <1>2, PTL DEF Spec

\* A call that reports a reset or a verification consumed a link that was made
\* for that account and purpose, delivered to it and still valid, and was sent
\* from a page of the account's own tenant, whatever other uses, newer links,
\* deletions and failures came between its statements.
THEOREM EffectsHaveLinks == Spec => []EffectsComeFromLinks
<1>1. IInv => EffectsComeFromLinks
  BY DEF IInv, TInv, UsingInv, UserInv, Knows, Uses, EffectsComeFromLinks
<1> QED BY <1>1, Inductive, PTL
-----------------------------------------------------------------------------
(* The pages of a browser: what has to hold for a form to continue what it  *)
(* was shown for.                                                           *)

\* The fields of a page.  A redirect has the address of a page; a page with a
\* console token is for the account of the SSO session it was made from, as
\* long as that session lives.
PageOK(p, sessions) ==
    /\ DOMAIN p = {"view", "tenant", "ref", "user", "chal"}
    /\ p.view = "goto" => p.ref.kind \in Addresses
    /\ p.view \in {"console", "invite"} =>
          p.ref.of \in SsoIds /\ sessions[p.ref.of] \in {None, p.user}

\* What a response with these cookies and this page does to a tab that shows
\* p, when the API acted for the account by.
Serves(p, set, next) ==
    /\ next.view = "client" => next.ref.of \in {p.ref.of, p.chal}
    /\ "auth" \in DOMAIN set /\ set["auth"] # None => set["auth"] \in {p.ref.of, p.chal}
    /\ "sso" \in DOMAIN set /\ "auth" \notin DOMAIN set /\ set["sso"] # None =>
          p.ref.kind \in {"portal", "admin"}

Fits(p, set, next, by, sessions) ==
    /\ PageOK(next, sessions)
    /\ "sso" \in DOMAIN set => set["sso"] \in SsoIds \cup {None}
    /\ p.view \in Forms => Serves(p, set, next)
    /\ p.view \in {"console", "invite"} /\ by # None => by = p.user

\* The requests that no form makes.
PlainOps == Addresses \cup {"settingsForm"}

\* An exchange that a tab waits for while it shows p.
CallOK(p, a, sessions) ==
    IF a.op = "reply" THEN Fits(p, a.set, a.next, a.by, sessions)
    ELSE /\ a.jar["sso"] \in SsoIds \cup {None}
         /\ a.op \in PlainOps => p.view \notin Forms

TabInv(i) == PageOK(page[i], sso) /\ (call[i] # None => CallOK(page[i], call[i], sso))

BrowserShape ==
    /\ page = [i \in Tabs |-> page[i]] /\ call = [i \in Tabs |-> call[i]]
    /\ sso = [k \in SsoIds |-> sso[k]]
    /\ jar = [c \in Cookies |-> jar[c]] /\ jar["sso"] \in SsoIds \cup {None}

BrowserInv == BrowserShape /\ \A i \in Tabs : TabInv(i)

LEMMA PageKept ==
    ASSUME NEW p, NEW old, NEW new, PageOK(p, old),
           p.ref.of \in SsoIds => new[p.ref.of] \in {old[p.ref.of], None}
    PROVE  PageOK(p, new)
  BY DEF PageOK

LEMMA CallKept ==
    ASSUME NEW p, NEW a, NEW old, NEW new, CallOK(p, a, old),
           a.op = "reply" /\ a.next.ref.of \in SsoIds =>
               new[a.next.ref.of] \in {old[a.next.ref.of], None}
    PROVE  CallOK(p, a, new)
<1>1. CASE a.op = "reply"
  <2>1. Fits(p, a.set, a.next, a.by, old)
    BY <1>1 DEF CallOK
  <2>2. PageOK(a.next, new)
    BY <1>1, <2>1, PageKept DEF Fits
  <2> QED BY <1>1, <2>1, <2>2 DEF CallOK, Fits
<1> QED BY <1>1 DEF CallOK

\* What the pages and the responses refer to is held.
LEMMA RefsAreHeld ==
    ASSUME NEW j \in Tabs
    PROVE  /\ page[j].ref.of \in Held
           /\ call[j] # None /\ call[j].op = "reply" => call[j].next.ref.of \in Held
  BY DEF Held

\* An SSO session that something refers to keeps its account until it ends.
SessionsKept == \A k \in SsoIds : k \in Held => sso'[k] \in {sso[k], None}

\* A step of the exchange of one tab.
LEMMA TabStep ==
    ASSUME BrowserInv, NEW i \in Tabs, NEW p, NEW a,
           page' = [page EXCEPT ![i] = p], call' = [call EXCEPT ![i] = a],
           sso' = [k \in SsoIds |-> sso'[k]], SessionsKept,
           jar' = [c \in Cookies |-> jar'[c]], jar'["sso"] \in SsoIds \cup {None},
           PageOK(p, sso'), a # None => CallOK(p, a, sso')
    PROVE  BrowserInv'
<1>1. BrowserShape'
  BY DEF BrowserInv, BrowserShape
<1>2. ASSUME NEW j \in Tabs PROVE TabInv(j)'
  <2>1. CASE j = i
    BY <2>1 DEF BrowserInv, BrowserShape, TabInv
  <2>2. CASE j # i
    <3>1. page'[j] = page[j] /\ call'[j] = call[j]
      BY <2>2 DEF BrowserInv, BrowserShape
    <3>2. PageOK(page[j], sso) /\ (call[j] # None => CallOK(page[j], call[j], sso))
      BY DEF BrowserInv, TabInv
    <3>3. PageOK(page[j], sso')
      BY <3>2, PageKept, RefsAreHeld DEF SessionsKept
    <3>4. call[j] # None => CallOK(page[j], call[j], sso')
      BY <3>2, CallKept, RefsAreHeld DEF SessionsKept
    <3> QED BY <3>1, <3>3, <3>4 DEF TabInv
  <2> QED BY <2>1, <2>2
<1> QED BY <1>1, <1>2 DEF BrowserInv

\* A response that fits the page of its tab.
LEMMA Answered ==
    ASSUME BrowserInv, NEW i \in Tabs, call[i] # None, UNCHANGED <<jar, page>>,
           NEW set, NEW next, NEW by, ReplyAs(i, set, next, by), Fits(page[i], set, next, by, sso'),
           sso' = [k \in SsoIds |-> sso'[k]], SessionsKept
    PROVE  BrowserInv'
<1> DEFINE a == [op |-> "reply", set |-> set, next |-> next, by |-> by]
<1>1. page' = [page EXCEPT ![i] = page[i]] /\ call' = [call EXCEPT ![i] = a]
  BY DEF BrowserInv, BrowserShape, ReplyAs
<1>2. CallOK(page[i], a, sso')
  BY DEF CallOK
<1>3. PageOK(page[i], sso')
  BY PageKept, RefsAreHeld DEF BrowserInv, TabInv, SessionsKept
<1>4. jar' = [c \in Cookies |-> jar'[c]] /\ jar'["sso"] \in SsoIds \cup {None}
  BY DEF BrowserInv, BrowserShape
<1> HIDE DEF a
<1> QED BY <1>1, <1>2, <1>3, <1>4, TabStep
-----------------------------------------------------------------------------
(* The answers of the front end.                                            *)

\* Pages of no account, and redirects, with cookies that name no session.
LEMMA PlainPage ==
    ASSUME NEW p, NEW view, NEW t, NEW ref, NEW u, NEW x, NEW sessions,
           view \notin {"client", "console", "invite"}, view = "goto" => ref.kind \in Addresses
    PROVE  /\ Fits(p, NoCookies, Page(view, t, ref, u), None, sessions)
           /\ Fits(p, [portal |-> x], Page(view, t, ref, u), None, sessions)
           /\ Fits(p, [admin |-> x], Page(view, t, ref, u), None, sessions)
           /\ Fits(p, [ticket |-> x], Page(view, t, ref, u), None, sessions)
           /\ Fits(p, [sso |-> None], Page(view, t, ref, u), None, sessions)
           /\ Fits(p, [auth |-> None], Page(view, t, ref, u), None, sessions)
<1>1. PageOK(Page(view, t, ref, u), sessions) /\ Page(view, t, ref, u).view = view
  BY DEF PageOK, Page
<1> QED BY <1>1 DEF Fits, Serves, NoCookies

\* Redirects are pages of that kind.
LEMMA PlainFound ==
    ASSUME NEW p, NEW t, NEW path \in Addresses, NEW x, NEW sessions
    PROVE  /\ Fits(p, NoCookies, Found(t, path), None, sessions)
           /\ Fits(p, [ticket |-> x], Found(t, path), None, sessions)
           /\ Fits(p, [sso |-> None], Found(t, path), None, sessions)
           /\ Fits(p, [auth |-> None], Found(t, path), None, sessions)
           /\ PageOK(Found(t, path), sessions) /\ Found(t, path).view = "goto"
<1>1. Ref(path, None).kind \in Addresses
  BY DEF Ref
<1>2. PageOK(Found(t, path), sessions) /\ Found(t, path).view = "goto"
  BY DEF PageOK, Found, Page, Ref
<1> QED BY <1>1, <1>2, PlainPage DEF Found

LEMMA PlainMessage ==
    ASSUME NEW p, NEW t, NEW sessions
    PROVE  Fits(p, NoCookies, Message(t), None, sessions) /\ PageOK(Message(t), sessions)
<1>1. PageOK(Message(t), sessions)
  BY DEF PageOK, Message, Page
<1> QED BY <1>1, PlainPage DEF Message

\* A response that changes nothing at the API.
LEMMA Shown ==
    ASSUME BrowserInv, NEW i \in Tabs, call[i] # None, UNCHANGED <<jar, page, api>>,
           NEW set, NEW next, NEW by, ReplyAs(i, set, next, by), Fits(page[i], set, next, by, sso)
    PROVE  BrowserInv'
<1>1. sso' = sso /\ SessionsKept /\ sso' = [k \in SsoIds |-> sso'[k]] /\ UNCHANGED <<jar, page>>
  BY DEF api, SessionsKept, BrowserInv, BrowserShape
<1>2. Fits(page[i], set, next, by, sso')
  BY <1>1
<1> QED BY <1>1, <1>2, Answered

LEMMA ShownPage ==
    ASSUME BrowserInv, NEW i \in Tabs, call[i] # None, UNCHANGED <<jar, page>>,
           NEW view, NEW t, NEW ref, NEW u, Show(i, Page(view, t, ref, u)),
           view \notin {"client", "console", "invite", "goto"}
    PROVE  BrowserInv'
<1>1. Fits(page[i], NoCookies, Page(view, t, ref, u), None, sso)
  BY PlainPage
<1> QED BY <1>1, Shown DEF Show, Reply

LEMMA ShownFound ==
    ASSUME BrowserInv, NEW i \in Tabs, call[i] # None, UNCHANGED <<jar, page>>,
           NEW t, NEW path \in Addresses, Show(i, Found(t, path))
    PROVE  BrowserInv'
<1>1. Fits(page[i], NoCookies, Found(t, path), None, sso)
  BY PlainFound
<1> QED BY <1>1, Shown DEF Show, Reply

LEMMA ShownMessage ==
    ASSUME BrowserInv, NEW i \in Tabs, call[i] # None, UNCHANGED <<jar, page>>,
           NEW t, Show(i, Message(t))
    PROVE  BrowserInv'
<1>1. Fits(page[i], NoCookies, Message(t), None, sso)
  BY PlainMessage
<1> QED BY <1>1, Shown DEF Show, Reply

\* A new SSO session is none that a page or a response refers to.
LEMMA NewSession ==
    ASSUME BrowserInv, Spare(SsoIds), NEW u, sso' = [sso EXCEPT ![Fresh(SsoIds)] = u]
    PROVE  /\ Fresh(SsoIds) \in SsoIds /\ SessionsKept
           /\ sso' = [k \in SsoIds |-> sso'[k]]
<1>1. Fresh(SsoIds) \in SsoIds /\ Fresh(SsoIds) \notin Held
  BY DEF Spare, Fresh
<1>2. sso' = [k \in SsoIds |-> sso'[k]]
  BY DEF BrowserInv, BrowserShape
<1>3. SessionsKept
  BY <1>1 DEF SessionsKept, BrowserInv, BrowserShape
<1> QED BY <1>1, <1>2, <1>3

\* The end of a flow, for the AuthSession of the form or of its challenge.
LEMMA FlowFinished ==
    ASSUME BrowserInv, NEW i \in Tabs, call[i] # None, UNCHANGED <<jar, page>>,
           NEW s, NEW u, FinishFlow(i, s, u), s \in {page[i].ref.of, page[i].chal}
    PROVE  BrowserInv'
<1>1. PICK k : k = Fresh(SsoIds)
  OBVIOUS
<1>2. k \in SsoIds /\ SessionsKept /\ sso' = [x \in SsoIds |-> sso'[x]]
  BY <1>1, NewSession DEF FinishFlow
<1>3. PICK t : t = page[i].tenant
  OBVIOUS
<1>4. CASE Reply(i, [sso |-> k, auth |-> s], Found(t, "consentPage"))
  <2>1. PageOK(Found(t, "consentPage"), sso') /\ Found(t, "consentPage").view = "goto"
    BY PlainFound DEF Addresses
  <2>2. Fits(page[i], [sso |-> k, auth |-> s], Found(t, "consentPage"), None, sso')
    BY <1>2, <2>1 DEF Fits, Serves
  <2> QED BY <1>2, <1>4, <2>2, Answered DEF Reply
<1>5. CASE Reply(i, [sso |-> k, auth |-> None], Client(t, s))
  <2>1. PageOK(Client(t, s), sso') /\ Client(t, s).ref.of = s
    BY DEF PageOK, Client, Page, Ref
  <2>2. Fits(page[i], [sso |-> k, auth |-> None], Client(t, s), None, sso')
    BY <1>2, <2>1 DEF Fits, Serves
  <2> QED BY <1>2, <1>5, <2>2, Answered DEF Reply
<1> QED BY <1>1, <1>3, <1>4, <1>5 DEF FinishFlow

\* A session of the portal or of the console, from a form of theirs.
LEMMA SsoSucceeded ==
    ASSUME BrowserInv, NEW i \in Tabs, call[i] # None, UNCHANGED <<jar, page>>,
           NEW u, NEW expired, NEW path \in Addresses, SsoSuccess(i, u, expired, path),
           "auth" \notin expired, page[i].ref.kind \in {"portal", "admin"}
    PROVE  BrowserInv'
<1>1. PICK k : k = Fresh(SsoIds)
  OBVIOUS
<1>2. k \in SsoIds /\ SessionsKept /\ sso' = [x \in SsoIds |-> sso'[x]]
  BY <1>1, NewSession DEF SsoSuccess
<1>3. PICK t : t = page[i].tenant
  OBVIOUS
<1>4. PICK set : set = [c \in expired \cup {"sso"} |-> IF c = "sso" THEN k ELSE None]
  OBVIOUS
<1>5. "auth" \notin DOMAIN set /\ set["sso"] = k
  BY <1>4
<1>6. PageOK(Found(t, path), sso') /\ Found(t, path).view = "goto"
  BY PlainFound
<1>7. Fits(page[i], set, Found(t, path), None, sso')
  BY <1>2, <1>5, <1>6 DEF Fits, Serves
<1>8. ReplyAs(i, set, Found(t, path), None)
  BY <1>1, <1>3, <1>4 DEF SsoSuccess, Reply
<1> QED BY <1>2, <1>7, <1>8, Answered

\* What an answer starts from.
AnswerStep(i) == BrowserInv /\ call[i] # None /\ UNCHANGED <<jar, page>>

\* The forms' own AuthSession.
LEMMA OwnForms ==
    ASSUME NEW i, NEW s, OwnForm(i, s)
    PROVE  s \in {page[i].ref.of, page[i].chal}
  BY DEF OwnForm, Ref

LEMMA AuthorizeKeeps ==
    ASSUME NEW i \in Tabs, AnswerStep(i), Authorize(i)
    PROVE  BrowserInv'
<1> USE DEF AnswerStep
<1>1. PICK t : t = page[i].tenant
  OBVIOUS
<1>2. PICK s : s = Fresh(AuthIds)
  OBVIOUS
<1>3. page[i].view \notin Forms
  BY DEF Authorize, Sent, BrowserInv, TabInv, CallOK, PlainOps, Addresses
<1>4. page[i].view \notin {"console", "invite"}
  BY <1>3 DEF Forms
<1>5. CASE Show(i, Client(t, None))
  <2>1. PageOK(Client(t, None), sso)
    BY DEF PageOK, Client, Page
  <2>2. Fits(page[i], NoCookies, Client(t, None), None, sso)
    BY <1>3, <2>1 DEF Fits, NoCookies
  <2> QED BY <1>5, <2>2, Shown DEF Show, Reply
<1>6. CASE /\ UNCHANGED sso
           /\ \E path \in Addresses : Reply(i, [auth |-> s], Found(t, path))
  <2>1. PICK path \in Addresses : Reply(i, [auth |-> s], Found(t, path))
    BY <1>6
  <2>2. PageOK(Found(t, path), sso')
    BY PlainFound
  <2>3. Fits(page[i], [auth |-> s], Found(t, path), None, sso')
    BY <1>3, <2>2 DEF Fits
  <2>4. SessionsKept /\ sso' = [k \in SsoIds |-> sso'[k]]
    BY <1>6 DEF SessionsKept, BrowserInv, BrowserShape
  <2> QED BY <2>1, <2>3, <2>4, Answered DEF Reply
<1> QED BY <1>1, <1>2, <1>5, <1>6 DEF Authorize, Addresses

LEMMA LoginPageKeeps ==
    ASSUME NEW i \in Tabs, AnswerStep(i), LoginPage(i)
    PROVE  BrowserInv'
<1> USE DEF AnswerStep
<1>1. PICK t, s, seed : t = page[i].tenant /\ s = call[i].jar["auth"] /\ seed = Fresh(Seeds)
  OBVIOUS
<1>2. CASE Show(i, LoginForm(t, s))
  BY <1>2, ShownPage DEF LoginForm
<1>3. CASE /\ Reply(i, [portal |-> seed], Page("portal", t, Ref("portal", seed), None))
           /\ UNCHANGED api
  <2>1. Fits(page[i], [portal |-> seed], Page("portal", t, Ref("portal", seed), None), None, sso)
    BY PlainPage
  <2> QED BY <1>3, <2>1, Shown DEF Reply
<1> QED BY <1>1, <1>2, <1>3 DEF LoginPage

\* Another step follows the password.
LEMMA SteppedTo ==
    ASSUME NEW i \in Tabs, AnswerStep(i), NEW s, NEW u, NEW path \in Addresses,
           StepTo(i, s, u, path), OwnForm(i, s)
    PROVE  BrowserInv'
<1> USE DEF AnswerStep
<1>1. PICK t : t = page[i].tenant
  OBVIOUS
<1>2. PageOK(Found(t, path), sso') /\ Found(t, path).view = "goto"
  BY PlainFound
<1>3. Fits(page[i], [auth |-> s], Found(t, path), None, sso')
  BY <1>2, OwnForms DEF Fits, Serves
<1>4. SessionsKept /\ sso' = [k \in SsoIds |-> sso'[k]]
  BY DEF StepTo, SessionsKept, BrowserInv, BrowserShape
<1> QED BY <1>1, <1>3, <1>4, Answered DEF StepTo, Reply

LEMMA LoginKeeps ==
    ASSUME NEW i \in Tabs, AnswerStep(i), Login(i)
    PROVE  BrowserInv'
<1> USE DEF AnswerStep
<1>1. PICK t, s, u : t = page[i].tenant /\ s = call[i].jar["auth"] /\ u = call[i].user
  OBVIOUS
<1>2. CASE Reply(i, Unusable, Found(t, "loginPage")) /\ UNCHANGED api
  <2>1. Fits(page[i], Unusable, Found(t, "loginPage"), None, sso)
    BY PlainFound DEF Unusable, Addresses
  <2> QED BY <1>2, <2>1, Shown DEF Reply
<1>3. CASE Show(i, Message(t))
  BY <1>3, ShownMessage
<1>4. CASE Show(i, LoginForm(t, s))
  BY <1>4, ShownPage DEF LoginForm
<1>5. CASE OwnForm(i, s) /\ \E path \in {"changePage", "totpPage"} : StepTo(i, s, u, path)
  BY <1>5, SteppedTo DEF Addresses
<1>6. CASE OwnForm(i, s) /\ FinishFlow(i, s, u)
  BY <1>6, OwnForms, FlowFinished
<1> QED BY <1>1, <1>2, <1>3, <1>4, <1>5, <1>6 DEF Login

LEMMA StepPageKeeps ==
    ASSUME NEW i \in Tabs, AnswerStep(i), StepPage(i)
    PROVE  BrowserInv'
<1> USE DEF AnswerStep
<1>1. PICK t, s : t = page[i].tenant /\ s = call[i].jar["auth"]
  OBVIOUS
<1>2. PICK view \in {"totp", "change"} : view = IF call[i].op = "totpPage" THEN "totp" ELSE "change"
  OBVIOUS
<1>3. CASE Show(i, Message(t))
  BY <1>3, ShownMessage
<1>4. CASE Show(i, Page(view, t, Ref("login", s), None))
  BY <1>4, ShownPage
<1> QED BY <1>1, <1>2, <1>3, <1>4 DEF StepPage

LEMMA TotpKeeps ==
    ASSUME NEW i \in Tabs, AnswerStep(i), Totp(i)
    PROVE  BrowserInv'
<1> USE DEF AnswerStep
<1>1. PICK t, s : t = page[i].tenant /\ s = call[i].jar["auth"]
  OBVIOUS
<1>2. CASE Show(i, Message(t))
  BY <1>2, ShownMessage
<1>3. CASE Show(i, Page("totp", t, Ref("login", s), None))
  BY <1>3, ShownPage
<1>4. CASE OwnForm(i, s) /\ FinishFlow(i, s, auth[s].user)
  BY <1>4, OwnForms, FlowFinished
<1> QED BY <1>1, <1>2, <1>3, <1>4 DEF Totp

LEMMA PasswordChangeKeeps ==
    ASSUME NEW i \in Tabs, AnswerStep(i), PasswordChange(i)
    PROVE  BrowserInv'
<1> USE DEF AnswerStep
<1>1. PICK t, s : t = page[i].tenant /\ s = call[i].jar["auth"]
  OBVIOUS
<1>2. CASE Show(i, Message(t))
  BY <1>2, ShownMessage
<1>3. CASE Show(i, Page("change", t, Ref("login", s), None))
  BY <1>3, ShownPage
<1>4. CASE OwnForm(i, s) /\ FinishFlow(i, s, auth[s].user)
  BY <1>4, OwnForms, FlowFinished
<1> QED BY <1>1, <1>2, <1>3, <1>4 DEF PasswordChange

LEMMA ConsentKeeps ==
    ASSUME NEW i \in Tabs, AnswerStep(i), ConsentPage(i) \/ Consent(i)
    PROVE  BrowserInv'
<1> USE DEF AnswerStep
<1>1. PICK t : t = page[i].tenant
  OBVIOUS
<1>2. CASE Show(i, Message(t))
  BY <1>2, ShownMessage
<1>3. CASE ConsentPage(i)
  BY <1>1, <1>2, <1>3, ShownPage DEF ConsentPage
<1>4. PICK s : s = page[i].ref.of
  OBVIOUS
<1>5. CASE Reply(i, [auth |-> None], Client(t, s)) /\ UNCHANGED sso
  <2>1. PageOK(Client(t, s), sso') /\ Client(t, s).ref.of = s
    BY DEF PageOK, Client, Page, Ref
  <2>2. Fits(page[i], [auth |-> None], Client(t, s), None, sso')
    BY <1>4, <2>1 DEF Fits, Serves
  <2>3. SessionsKept /\ sso' = [k \in SsoIds |-> sso'[k]]
    BY <1>5 DEF SessionsKept, BrowserInv, BrowserShape
  <2> QED BY <1>5, <2>2, <2>3, Answered DEF Reply
<1> QED BY <1>1, <1>2, <1>3, <1>4, <1>5 DEF Consent

\* A page that stays, but for its challenge.
LEMMA ChallengeFits ==
    ASSUME NEW p, NEW x, NEW sessions, PageOK(p, sessions)
    PROVE  Fits(p, NoCookies, [p EXCEPT !.chal = x], None, sessions)
<1>1. PageOK([p EXCEPT !.chal = x], sessions) /\ [p EXCEPT !.chal = x].view = p.view
  BY DEF PageOK
<1> QED BY <1>1 DEF Fits, Serves, NoCookies, Forms, NameForms

LEMMA PasskeyKeeps ==
    ASSUME NEW i \in Tabs, AnswerStep(i), PasskeyBegin(i) \/ PasskeyComplete(i)
    PROVE  BrowserInv'
<1> USE DEF AnswerStep
<1>1. ASSUME NEW x, Show(i, [page[i] EXCEPT !.chal = x]) PROVE BrowserInv'
  <2>1. PICK next : next = [page[i] EXCEPT !.chal = x]
    OBVIOUS
  <2>2. Fits(page[i], NoCookies, next, None, sso)
    BY <2>1, ChallengeFits DEF BrowserInv, TabInv
  <2> QED BY <1>1, <2>1, <2>2, Shown DEF Show, Reply
<1>2. CASE FinishFlow(i, page[i].chal, call[i].user)
  BY <1>2, FlowFinished
<1> QED BY <1>1, <1>2 DEF PasskeyBegin, PasskeyComplete

\* A form whose token the seed of the browser confirms.
LEMMA SeedForms ==
    ASSUME NEW i, NEW cookie \in {"portal", "admin"}, SeedMatches(i, cookie)
    PROVE  page[i].ref.kind \in {"portal", "admin"}
  BY DEF SeedMatches, Ref

LEMMA Ticketed ==
    ASSUME NEW i \in Tabs, AnswerStep(i), NEW u, Ticket(i, u)
    PROVE  BrowserInv'
<1> USE DEF AnswerStep
<1>1. PICK t : t = page[i].tenant
  OBVIOUS
<1>2. Fits(page[i], [ticket |-> u], Found(t, "portalMfaPage"), None, sso')
  BY PlainFound DEF Addresses
<1>3. SessionsKept /\ sso' = [k \in SsoIds |-> sso'[k]]
  BY DEF Ticket, SessionsKept, BrowserInv, BrowserShape
<1> QED BY <1>1, <1>2, <1>3, Answered DEF Ticket, Reply

LEMMA ShownAgain ==
    ASSUME NEW i \in Tabs, AnswerStep(i), NEW view, NEW seed, NEW u, Again(i, view, seed, u),
           view \notin {"client", "console", "invite", "goto"}
    PROVE  BrowserInv'
  BY ShownPage DEF AnswerStep, Again

LEMMA PortalLoginKeeps ==
    ASSUME NEW i \in Tabs, AnswerStep(i), PortalLogin(i)
    PROVE  BrowserInv'
<1>1. CASE \E view \in {"portal", "portalChange"}, seed \in {Nothing, page[i].ref},
              u \in {None, call[i].user} : Again(i, view, seed, u)
  BY <1>1, ShownAgain
<1>2. CASE Ticket(i, call[i].user)
  BY <1>2, Ticketed
<1>3. CASE SeedMatches(i, "portal") /\ SsoSuccess(i, call[i].user, {"portal"}, "settings")
  BY <1>3, SeedForms, SsoSucceeded DEF AnswerStep, Addresses
<1> QED BY <1>1, <1>2, <1>3 DEF PortalLogin

LEMMA PortalChangeKeeps ==
    ASSUME NEW i \in Tabs, AnswerStep(i), PortalChange(i)
    PROVE  BrowserInv'
<1>1. CASE \E seed \in {Nothing, page[i].ref} : Again(i, "portalChange", seed, page[i].user)
  BY <1>1, ShownAgain
<1>2. CASE Ticket(i, page[i].user)
  BY <1>2, Ticketed
<1>3. CASE SeedMatches(i, "portal") /\ SsoSuccess(i, page[i].user, {"portal"}, "settings")
  BY <1>3, SeedForms, SsoSucceeded DEF AnswerStep, Addresses
<1> QED BY <1>1, <1>2, <1>3 DEF PortalChange

LEMMA ChangeBookmarkKeeps ==
    ASSUME NEW i \in Tabs, AnswerStep(i), ChangeBookmark(i)
    PROVE  BrowserInv'
<1>1. PICK path \in {"loginPage", "adminLoginPage"} : Show(i, Found(page[i].tenant, path))
  BY DEF ChangeBookmark
<1> QED BY <1>1, ShownFound DEF AnswerStep, Addresses

LEMMA PortalMfaKeeps ==
    ASSUME NEW i \in Tabs, AnswerStep(i), PortalMfaPage(i) \/ PortalMfa(i)
    PROVE  BrowserInv'
<1> USE DEF AnswerStep
<1>1. PICK t, u, seed : /\ t = page[i].tenant /\ u = call[i].jar["ticket"]
                        /\ seed = Ref("portal", call[i].jar["portal"])
  OBVIOUS
<1>2. CASE Show(i, Found(t, "loginPage"))
  BY <1>2, ShownFound DEF Addresses
<1>3. CASE Show(i, Page("portalMfa", t, seed, None))
  BY <1>3, ShownPage
<1>4. CASE Again(i, "portalMfa", seed, None)
  BY <1>4, ShownAgain
<1>5. CASE Reply(i, [ticket |-> None], Found(t, "loginPage")) /\ UNCHANGED api
  <2>1. Fits(page[i], [ticket |-> None], Found(t, "loginPage"), None, sso)
    BY PlainFound DEF Addresses
  <2> QED BY <1>5, <2>1, Shown DEF Reply
<1>6. CASE SeedMatches(i, "portal") /\ SsoSuccess(i, u, {"portal", "ticket"}, "settings")
  BY <1>6, SeedForms, SsoSucceeded DEF Addresses
<1> QED BY <1>1, <1>2, <1>3, <1>4, <1>5, <1>6 DEF PortalMfaPage, PortalMfa

\* The settings belong to no form, so they may act for whoever is signed in.
LEMMA SettingsKeep ==
    ASSUME NEW i \in Tabs, AnswerStep(i), Settings(i) \/ SettingsForm(i)
    PROVE  BrowserInv'
<1> USE DEF AnswerStep
<1>1. CASE Settings(i)
  BY <1>1, ShownPage DEF Settings
<1>2. CASE SettingsForm(i)
  <2>1. PICK t, u : t = page[i].tenant /\ u = SsoUser(call[i].jar["sso"])
    OBVIOUS
  <2>2. page[i].view \notin Forms
    BY <1>2 DEF SettingsForm, Sent, BrowserInv, TabInv, CallOK, PlainOps
  <2>3. PageOK(Found(t, "settings"), sso)
    BY PlainFound DEF Addresses
  <2>4. Fits(page[i], NoCookies, Found(t, "settings"), u, sso)
    BY <2>2, <2>3 DEF Fits, NoCookies, Forms
  <2> QED BY <1>2, <2>1, <2>4, Shown DEF SettingsForm
<1> QED BY <1>1, <1>2

LEMMA LogoutKeeps ==
    ASSUME NEW i \in Tabs, AnswerStep(i), Logout(i)
    PROVE  BrowserInv'
<1> USE DEF AnswerStep
<1>1. PICK t, k : t = page[i].tenant /\ k = call[i].jar["sso"]
  OBVIOUS
<1>2. PICK path \in {"loginPage", "adminLoginPage"} : Reply(i, [sso |-> None], Found(t, path))
  BY <1>1 DEF Logout, AfterLogout
<1>3. Fits(page[i], [sso |-> None], Found(t, path), None, sso')
  BY PlainFound DEF Addresses
<1>4. sso' = [sso EXCEPT ![k] = None] \/ sso' = sso
  BY <1>1 DEF Logout
<1>5. SessionsKept /\ sso' = [x \in SsoIds |-> sso'[x]]
  BY <1>4 DEF SessionsKept, BrowserInv, BrowserShape
<1> QED BY <1>2, <1>3, <1>5, Answered DEF Reply

LEMMA AdminLoginPageKeeps ==
    ASSUME NEW i \in Tabs, AnswerStep(i), AdminLoginPage(i)
    PROVE  BrowserInv'
<1> USE DEF AnswerStep
<1>1. PICK t, seed : t = page[i].tenant /\ seed = Fresh(Seeds)
  OBVIOUS
<1>2. CASE Show(i, Found(t, "home"))
  BY <1>2, ShownFound DEF Addresses
<1>3. CASE /\ Reply(i, [admin |-> seed], Page("adminLogin", t, Ref("admin", seed), None))
           /\ UNCHANGED api
  <2>1. Fits(page[i], [admin |-> seed], Page("adminLogin", t, Ref("admin", seed), None), None, sso)
    BY PlainPage
  <2> QED BY <1>3, <2>1, Shown DEF Reply
<1> QED BY <1>1, <1>2, <1>3 DEF AdminLoginPage

LEMMA AdminLoginKeeps ==
    ASSUME NEW i \in Tabs, AnswerStep(i), AdminLogin(i) \/ AdminChange(i)
    PROVE  BrowserInv'
<1>1. CASE \E view \in {"adminLogin", "adminChange"}, seed \in {Nothing, page[i].ref},
              u \in {None, call[i].user, page[i].user} : Again(i, view, seed, u)
  BY <1>1, ShownAgain
<1>2. CASE SeedMatches(i, "admin") /\ \E u : SsoSuccess(i, u, {"admin"}, "home")
  BY <1>2, SeedForms, SsoSucceeded DEF AnswerStep, Addresses
<1>3. CASE AdminLogin(i)
  BY <1>1, <1>2, <1>3 DEF AdminLogin
<1>4. CASE AdminChange(i)
  BY <1>1, <1>2, <1>4 DEF AdminChange
<1> QED BY <1>3, <1>4

\* A page with a console token is for the account of the cookie's session.
LEMMA TokenPage ==
    ASSUME NEW i \in Tabs, AnswerStep(i), NEW view \in {"console", "invite"}, NEW t,
           NEW k \in SsoIds, Show(i, Page(view, t, Ref("console", k), sso[k]))
    PROVE  BrowserInv'
<1>1. PICK next : next = Page(view, t, Ref("console", k), sso[k])
  OBVIOUS
<1>2. PageOK(next, sso) /\ next.view = view
  BY <1>1 DEF PageOK, Page, Ref
<1>3. Fits(page[i], NoCookies, next, None, sso)
  BY <1>2 DEF Fits, Serves, NoCookies
<1> QED BY <1>1, <1>3, Shown DEF AnswerStep, Show, Reply

\* With the token of the page the API acts for the account of the page.
LEMMA TokenAccount ==
    ASSUME NEW i \in Tabs, AnswerStep(i), ConsoleToken(i),
           NEW k, k = call[i].jar["sso"], sso[k] # None,
           NEW next, ReplyAs(i, NoCookies, next, sso[k]), UNCHANGED api,
           PageOK(next, sso), next.view # "client"
    PROVE  BrowserInv'
<1>1. page[i].ref.of = k
  BY DEF ConsoleToken, Ref
<1>2. page[i].view \in {"console", "invite"} => sso[k] = page[i].user
  BY <1>1 DEF AnswerStep, BrowserInv, TabInv, PageOK
<1>3. Fits(page[i], NoCookies, next, sso[k], sso)
  BY <1>2 DEF Fits, Serves, NoCookies
<1> QED BY <1>3, Shown DEF AnswerStep

\* The cookie of a request that waits for its answer.
LEMMA SsoOfCall ==
    ASSUME NEW i \in Tabs, AnswerStep(i), call[i].op # "reply"
    PROVE  call[i].jar["sso"] \in SsoIds \cup {None}
  BY DEF AnswerStep, BrowserInv, TabInv, CallOK

LEMMA ConsoleKeeps ==
    ASSUME NEW i \in Tabs, AnswerStep(i), Console(i)
    PROVE  BrowserInv'
<1>1. PICK t, k : t = page[i].tenant /\ k = call[i].jar["sso"]
  OBVIOUS
<1>2. k \in SsoIds \cup {None}
  BY <1>1, SsoOfCall DEF Console, Sent
<1>3. CASE Show(i, Found(t, "adminLoginPage"))
  BY <1>3, ShownFound DEF AnswerStep, Addresses
<1>4. CASE Show(i, Message(t))
  BY <1>4, ShownMessage DEF AnswerStep
<1>5. CASE SsoUser(k) # None /\ Show(i, ConsolePage(t, k))
  <2>1. k \in SsoIds
    BY <1>2, <1>5 DEF SsoUser
  <2> QED BY <1>5, <2>1, TokenPage DEF ConsolePage
<1>6. CASE /\ SsoUser(k) # None /\ ConsoleToken(i)
           /\ ReplyAs(i, NoCookies, Found(t, "home"), SsoUser(k)) /\ UNCHANGED api
  <2>1. SsoUser(k) = sso[k]
    BY <1>6 DEF SsoUser
  <2>2. PageOK(Found(t, "home"), sso) /\ Found(t, "home").view # "client"
    BY PlainFound DEF Addresses
  <2> QED BY <1>1, <1>6, <2>1, <2>2, TokenAccount
<1> QED BY <1>1, <1>3, <1>4, <1>5, <1>6 DEF Console

LEMMA InviteKeeps ==
    ASSUME NEW i \in Tabs, AnswerStep(i), InvitePage(i) \/ InviteAccept(i)
    PROVE  BrowserInv'
<1>1. PICK t, k : t = page[i].tenant /\ k = call[i].jar["sso"]
  OBVIOUS
<1>2. k \in SsoIds \cup {None}
  BY <1>1, SsoOfCall DEF InvitePage, InviteAccept, Sent
<1>3. CASE Show(i, Message(t))
  BY <1>3, ShownMessage DEF AnswerStep
<1>4. CASE k # None /\ Show(i, Page("invite", t, Ref("console", k), sso[k]))
  BY <1>2, <1>4, TokenPage
<1>5. CASE /\ ConsoleToken(i) /\ sso[k] # None
           /\ ReplyAs(i, NoCookies, Message(t), sso[k]) /\ UNCHANGED api
  <2>1. PageOK(Message(t), sso) /\ Message(t).view # "client"
    BY PlainMessage DEF Message, Page
  <2> QED BY <1>1, <1>5, <2>1, TokenAccount
<1>6. CASE InvitePage(i)
  BY <1>1, <1>3, <1>4, <1>6 DEF InvitePage
<1>7. CASE InviteAccept(i)
  BY <1>1, <1>3, <1>4, <1>5, <1>7 DEF InviteAccept
<1> QED BY <1>6, <1>7

LEMMA AnswerKeeps ==
    ASSUME BrowserInv, NEW i \in Tabs, Answer(i)
    PROVE  BrowserInv'
<1>1. AnswerStep(i)
  BY DEF AnswerStep, Answer, Authorize, LoginPage, Login, StepPage, Totp, PasswordChange, ConsentPage,
         Consent, PasskeyBegin, PasskeyComplete, PortalLogin, PortalChange, ChangeBookmark,
         PortalMfaPage, PortalMfa, Settings, SettingsForm, Logout, AdminLoginPage, AdminLogin,
         AdminChange, Console, InvitePage, InviteAccept, Sent
<1> QED BY <1>1, AuthorizeKeeps, LoginPageKeeps, LoginKeeps, StepPageKeeps, TotpKeeps,
           PasswordChangeKeeps, ConsentKeeps, PasskeyKeeps, PortalLoginKeeps, PortalChangeKeeps,
           ChangeBookmarkKeeps, PortalMfaKeeps, SettingsKeep, LogoutKeeps, AdminLoginPageKeeps,
           AdminLoginKeeps, ConsoleKeeps, InviteKeeps DEF Answer
-----------------------------------------------------------------------------
(* The steps of the browser.                                                *)

\* Sessions that nobody can name any more are forgotten.
LEMMA Forgotten ==
    ASSUME Forget
    PROVE  sso' = [k \in SsoIds |-> sso'[k]] /\ SessionsKept
  BY DEF Forget, SessionsKept

LEMMA KeptSessions ==
    ASSUME BrowserInv, UNCHANGED sso
    PROVE  sso' = [k \in SsoIds |-> sso'[k]] /\ SessionsKept
  BY DEF BrowserInv, BrowserShape, SessionsKept

\* The tab goes to an address.
LEMMA Went ==
    ASSUME BrowserInv, NEW i \in Tabs, call[i] = None, NEW t, NEW path \in Addresses,
           page' = [page EXCEPT ![i] = Found(t, path)], UNCHANGED <<jar, call>>, Forget
    PROVE  BrowserInv'
<1>1. call' = [call EXCEPT ![i] = None]
  BY DEF BrowserInv, BrowserShape
<1>2. jar' = [c \in Cookies |-> jar'[c]] /\ jar'["sso"] \in SsoIds \cup {None}
  BY DEF BrowserInv, BrowserShape
<1>3. PageOK(Found(t, path), sso')
  BY PlainFound
<1>4. sso' = [k \in SsoIds |-> sso'[k]] /\ SessionsKept
  BY Forgotten
<1>5. PICK p, a : p = Found(t, path) /\ a = None
  OBVIOUS
<1> QED BY <1>1, <1>2, <1>3, <1>4, <1>5, TabStep

\* The tab sends a request.
LEMMA Requested ==
    ASSUME BrowserInv, NEW i \in Tabs, NEW op, NEW u, NEW ok, Send(i, op, u, ok),
           UNCHANGED <<jar, page, sso>>, op # "reply", op \in PlainOps => page[i].view \notin Forms
    PROVE  BrowserInv'
<1>1. PICK a : a = [op |-> op, jar |-> jar, user |-> u, ok |-> ok]
  OBVIOUS
<1>2. page' = [page EXCEPT ![i] = page[i]] /\ call' = [call EXCEPT ![i] = a]
  BY <1>1 DEF BrowserInv, BrowserShape, Send
<1>3. jar' = [c \in Cookies |-> jar'[c]] /\ jar'["sso"] \in SsoIds \cup {None}
  BY DEF BrowserInv, BrowserShape
<1>4. PageOK(page[i], sso')
  BY DEF BrowserInv, TabInv
<1>5. CallOK(page[i], a, sso')
  BY <1>1 DEF CallOK, BrowserInv, BrowserShape
<1>6. sso' = [k \in SsoIds |-> sso'[k]] /\ SessionsKept
  BY KeptSessions
<1> QED BY <1>2, <1>3, <1>4, <1>5, <1>6, TabStep

LEMMA OpenKeeps ==
    ASSUME BrowserInv, NEW i \in Tabs, NEW o \in Openings, Open(i, o[1], o[2])
    PROVE  BrowserInv'
<1>1. PICK t, path : t = o[1] /\ path = o[2]
  OBVIOUS
<1>2. path \in Addresses
  BY <1>1, BrowserAssumptions
<1> QED BY <1>1, <1>2, Went DEF Open

LEMMA RetryKeeps ==
    ASSUME BrowserInv, Retry
    PROVE  BrowserInv'
<1>1. Persistent \in Tabs /\ "loginPage" \in Addresses
  BY BrowserAssumptions DEF Addresses
<1> QED BY <1>1, Went DEF Retry

LEMMA LoadKeeps ==
    ASSUME BrowserInv, NEW i \in Tabs, Load(i)
    PROVE  BrowserInv'
<1>1. PICK op : op = page[i].ref.kind
  OBVIOUS
<1>2. op \in Addresses
  BY <1>1 DEF Load, BrowserInv, TabInv, PageOK
<1>3. op # "reply" /\ page[i].view \notin Forms
  BY <1>2 DEF Addresses, Load, Forms, NameForms
<1> QED BY <1>1, <1>3, Requested DEF Load, api

LEMMA SubmitKeeps ==
    ASSUME BrowserInv, NEW i \in Tabs, NEW u, NEW ok, Submit(i, u, ok)
    PROVE  BrowserInv'
<1>1. PICK op : op = page[i].view
  OBVIOUS
<1>2. op # "reply" /\ op \notin PlainOps
  BY <1>1 DEF Submit, PlainOps, Addresses, Forms, NameForms
<1> QED BY <1>1, <1>2, Requested DEF Submit, api

LEMMA PressKeeps ==
    ASSUME BrowserInv, NEW i \in Tabs, NEW op \in {"pkBegin", "settingsForm", "logout"}, Press(i, op)
    PROVE  BrowserInv'
<1>1. op \in PlainOps => page[i].view = "account"
  BY DEF Press, PlainOps, Addresses
<1>2. op # "reply" /\ (op \in PlainOps => page[i].view \notin Forms)
  BY <1>1 DEF Forms, NameForms
<1> QED BY <1>2, Requested DEF Press, api

LEMMA SignKeeps ==
    ASSUME BrowserInv, NEW i \in Tabs, NEW u, Sign(i, u)
    PROVE  BrowserInv'
<1>1. "pkComplete" # "reply" /\ "pkComplete" \notin PlainOps
  BY DEF PlainOps, Addresses
<1> QED BY <1>1, Requested DEF Sign, api

LEMMA DeliverKeeps ==
    ASSUME BrowserInv, NEW i \in Tabs, Deliver(i)
    PROVE  BrowserInv'
<1>1. PICK p, a, set : p = call[i].next /\ a = None /\ set = call[i].set
  OBVIOUS
<1>2. Fits(page[i], set, p, call[i].by, sso)
  BY <1>1 DEF Deliver, Sent, BrowserInv, TabInv, CallOK
<1>3. jar' = Applied(set) /\ page' = [page EXCEPT ![i] = p] /\ call' = [call EXCEPT ![i] = a]
  BY <1>1 DEF Deliver
<1>4. jar' = [c \in Cookies |-> jar'[c]]
  BY <1>3 DEF Applied
<1>5. jar'["sso"] \in SsoIds \cup {None}
  BY <1>2, <1>3 DEF Applied, Fits, Cookies, BrowserInv, BrowserShape
<1>6. sso' = [k \in SsoIds |-> sso'[k]] /\ SessionsKept
  BY Forgotten DEF Deliver
<1>7. \A k \in SsoIds : sso'[k] \in {sso[k], None}
  BY DEF Deliver, Forget
<1>8. PageOK(p, sso')
  BY <1>2, <1>7, PageKept DEF Fits
<1> QED BY <1>1, <1>3, <1>4, <1>5, <1>6, <1>8, TabStep

LEMMA LostKeeps ==
    ASSUME BrowserInv, NEW i \in Tabs, Lost(i)
    PROVE  BrowserInv'
<1>1. PICK p, a : p = Message(page[i].tenant) /\ a = None
  OBVIOUS
<1>2. page' = [page EXCEPT ![i] = p] /\ call' = [call EXCEPT ![i] = a]
  BY <1>1 DEF Lost, BrowserInv, BrowserShape
<1>3. jar' = [c \in Cookies |-> jar'[c]] /\ jar'["sso"] \in SsoIds \cup {None}
  BY DEF Lost, BrowserInv, BrowserShape
<1>4. PageOK(p, sso')
  BY <1>1, PlainMessage
<1>5. sso' = [k \in SsoIds |-> sso'[k]] /\ SessionsKept
  BY Forgotten DEF Lost
<1> QED BY <1>1, <1>2, <1>3, <1>4, <1>5, TabStep

LEMMA ApiFailsKeeps ==
    ASSUME BrowserInv, NEW i \in Tabs, ApiFails(i)
    PROVE  BrowserInv'
<1>1. Fits(page[i], NoCookies, Message(page[i].tenant), None, sso)
  BY PlainMessage
<1> QED BY <1>1, Shown DEF ApiFails, Reply

\* Steps that no tab takes.
LEMMA Expired ==
    ASSUME BrowserInv, UNCHANGED <<page, call>>, sso' = [k \in SsoIds |-> sso'[k]], SessionsKept,
           jar' = [c \in Cookies |-> jar'[c]], jar'["sso"] \in SsoIds \cup {None}
    PROVE  BrowserInv'
<1>1. BrowserShape'
  BY DEF BrowserInv, BrowserShape
<1>2. ASSUME NEW j \in Tabs PROVE TabInv(j)'
  <2>1. PageOK(page[j], sso) /\ (call[j] # None => CallOK(page[j], call[j], sso))
    BY DEF BrowserInv, TabInv
  <2>2. PageOK(page[j], sso')
    BY <2>1, PageKept, RefsAreHeld DEF SessionsKept
  <2>3. call[j] # None => CallOK(page[j], call[j], sso')
    BY <2>1, CallKept, RefsAreHeld DEF SessionsKept
  <2> QED BY <2>2, <2>3 DEF TabInv
<1> QED BY <1>1, <1>2 DEF BrowserInv

LEMMA CookieExpiresKeeps ==
    ASSUME BrowserInv, NEW c \in Cookies, CookieExpires(c)
    PROVE  BrowserInv'
<1>1. jar' = [d \in Cookies |-> jar'[d]] /\ jar'["sso"] \in SsoIds \cup {None}
  BY DEF CookieExpires, BrowserInv, BrowserShape, Cookies
<1> QED BY <1>1, Forgotten, Expired DEF CookieExpires

LEMMA SessionExpiresKeeps ==
    ASSUME BrowserInv, NEW s, SessionExpires(s)
    PROVE  BrowserInv'
<1>1. sso' = sso \/ sso' = [sso EXCEPT ![s] = None]
  BY DEF SessionExpires
<1>2. sso' = [k \in SsoIds |-> sso'[k]] /\ SessionsKept
  BY <1>1 DEF SessionsKept, BrowserInv, BrowserShape
<1>3. jar' = [c \in Cookies |-> jar'[c]] /\ jar'["sso"] \in SsoIds \cup {None}
  BY DEF SessionExpires, BrowserInv, BrowserShape
<1> QED BY <1>2, <1>3, Expired DEF SessionExpires

LEMMA BrowserStart == BrowserInit => BrowserInv
<1> SUFFICES ASSUME BrowserInit PROVE BrowserInv
  OBVIOUS
<1>1. BrowserShape
  BY DEF BrowserInit, BrowserShape, Cookies
<1>2. ASSUME NEW i \in Tabs PROVE TabInv(i)
  <2>1. PICK o \in Openings : page[i] = Found(o[1], o[2]) \/ page[i] = Message(o[1])
    BY DEF BrowserInit
  <2>2. o[2] \in Addresses
    BY BrowserAssumptions
  <2>3. PageOK(page[i], sso)
    BY <2>1, <2>2, PlainFound, PlainMessage
  <2> QED BY <2>3 DEF TabInv, BrowserInit
<1> QED BY <1>1, <1>2 DEF BrowserInv

LEMMA BrowserStep == BrowserInv /\ [BrowserNext]_browserVars => BrowserInv'
<1> SUFFICES ASSUME BrowserInv, [BrowserNext]_browserVars PROVE BrowserInv'
  OBVIOUS
<1>1. CASE UNCHANGED browserVars
  BY <1>1 DEF browserVars, BrowserInv, BrowserShape, TabInv
<1>2. CASE BrowserNext
  BY <1>2, RetryKeeps, LoadKeeps, DeliverKeeps, LostKeeps, ApiFailsKeeps, AnswerKeeps, OpenKeeps,
     SubmitKeeps, SignKeeps, PressKeeps, CookieExpiresKeeps, SessionExpiresKeeps DEF BrowserNext
<1> QED BY <1>1, <1>2

\* What the two properties say of one response is part of Fits.
LEMMA BrowserSafe == BrowserInv => SignInServesItsForm /\ ActsForTheAccountOfItsPage
<1> SUFFICES ASSUME BrowserInv, NEW i \in Tabs, Sent(i, {"reply"})
             PROVE  /\ page[i].view \in Forms => Serves(page[i], call[i].set, call[i].next)
                    /\ page[i].view \in {"console", "invite"} /\ call[i].by # None =>
                          call[i].by = page[i].user
  BY DEF SignInServesItsForm, ActsForTheAccountOfItsPage, Serves
<1> QED BY DEF BrowserInv, TabInv, CallOK, Fits, Sent

\* Whatever other tabs have put into the cookies, and whatever expired or was
\* lost: a login step or a code is for the AuthSession of the form or of its
\* challenge, and a session of the portal or of the console comes from a form
\* of theirs whose seed the browser still holds.
THEOREM FormsServeTheirSignIn == BrowserSpec => []SignInServesItsForm
<1>1. BrowserInv => SignInServesItsForm
  BY BrowserSafe
<1> QED BY <1>1, BrowserStart, BrowserStep, PTL DEF BrowserSpec

\* A form of the console or of the invitation page takes effect in the name
\* of the account it was made for, or not at all, whoever else has signed in
\* through another tab since.
THEOREM PagesActForTheirAccount == BrowserSpec => []ActsForTheAccountOfItsPage
<1>1. BrowserInv => ActsForTheAccountOfItsPage
  BY BrowserSafe
<1> QED BY <1>1, BrowserStart, BrowserStep, PTL DEF BrowserSpec
=============================================================================
