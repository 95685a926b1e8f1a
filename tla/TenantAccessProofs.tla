------------------------- MODULE TenantAccessProofs -------------------------
(***************************************************************************)
(* Proofs about TenantAccess, for any tenants, accounts, calls and bounds: *)
(* who takes part in a tenant has accepted, permissions need a membership, *)
(* system.admin comes only from system.admin, and what the cache may say.  *)
(***************************************************************************)
EXTENDS TenantAccess, TLAPS

\* What a call was made with, and keeps.
SameCall(i, j) == /\ i.kind = j.kind /\ i.actor = j.actor /\ i.tenant = j.tenant
                  /\ i.target = j.target /\ i.code = j.code /\ i.link = j.link

\* The arguments each handler has.
ArgsOK(j) ==
    /\ j.kind \in {"grant", "revoke", "invite", "expel", "create", "delete"} => j.target \in Users
    /\ j.kind \in {"grant", "revoke"} => j.code \in Codes
    /\ j.kind = "accept" => j.link \in Requests \cup Guests
    /\ j.system => j.kind \in {"grant", "revoke"} /\ j.ask = "system.admin"

\* Which handlers stand where.
Fits(l, j) ==
    /\ l = "user" => ~j.system
    /\ l \in {"get", "select", "put"} => j.kind # "accept"
    /\ l \in {"member", "write"} => j.kind \in {"grant", "revoke"}
    /\ l = "invalidate" => j.kind \in {"grant", "revoke", "expel"}
    /\ l \in {"wipe", "remove"} => j.kind = "expel"
    /\ l = "insert" => j.kind \in {"invite", "create"}
    /\ l = "home" => j.kind = "create"
    /\ l = "delete" => j.kind = "delete"
    /\ l = "activate" => j.kind = "accept" /\ j.time \in Int
    /\ l \in {"insert", "ok"} /\ j.kind = "invite" => j.time \in Int
    /\ l = "ok" /\ j.kind = "accept" => j.time \in Int

JobInv ==
    \A r \in Requests :
        /\ pc[r] \notin Ended \cup {"new"} => job[r] # None
        /\ pc[r] \in {"new", "failed"} => job[r] = None
        /\ job[r] # None => ArgsOK(job[r]) /\ Fits(pc[r], job[r])

TInv == TypeOK /\ JobInv
-----------------------------------------------------------------------------
(* The inductive invariants.                                                *)

\* The token in a row is that of an invitation that was sent for this place,
\* and expires when that one does.
TokenOK(p) ==
    LET x == members[p].token IN
    x \in Sent /\ SentFor(x) = p /\ members[p].expires = SentAt(x) + InviteTtl

TokenInv == \A p \in Places : members[p] # None /\ members[p].token # None => TokenOK(p)

\* A call that found an invitation presented the token of it in time.
InTime(r) ==
    /\ job[r].link \in Sent /\ SentFor(job[r].link) = <<job[r].tenant, job[r].actor>>
    /\ job[r].time < SentAt(job[r].link) + InviteTtl

AcceptInv ==
    \A r \in Requests :
        job[r] # None /\ job[r].kind = "accept" /\ pc[r] \in {"activate", "ok"} => InTime(r)

IsActive(p) == members[p] # None /\ members[p].status = "ACTIVE"
HasNone(p) == \A k \in perms : <<k[1], k[2]>> # p

\* While no grant and expulsion overlapped at a place: a permission and a grant
\* that is under way have their membership, and past its wipe an expulsion
\* finds no permission.
PlaceInv ==
    \A p \in Places \ overtaken :
        /\ ~HasNone(p) => IsActive(p)
        /\ Granting(p) # {} => (IsActive(p) \/ users[p[2]] = "deleted") /\ Expelling(p) = {}
        /\ \A q \in Expelling(p) : pc[q] # "wipe" => HasNone(p)

\* Whatever says that an account is a system administrator, it was one.
SystemInv ==
    /\ \A u \in Users : <<Root, u, "system.admin">> \in perms => u \in sysadmins
    /\ \A k \in DOMAIN cache : k[3] = "system.admin" /\ cache[k].held => k[2] \in sysadmins
    /\ \A r \in Requests :
          /\ pc[r] = "put" /\ job[r].held /\ job[r].ask = "system.admin" => job[r].actor \in sysadmins
          /\ pc[r] = "write" /\ job[r].code = "system.admin" => job[r].actor \in sysadmins

\* A check that has selected and has yet to tell the cache has the row's state,
\* and so has the cache unless a call is about to correct it.
CacheInv ==
    /\ \A q \in Requests : pc[q] = "put" /\ Asked(q) \notin raced => job[q].held = (Asked(q) \in perms)
    /\ \A k \in DOMAIN cache \ raced :
          cache[k].held # (k \in perms) => \E q \in Requests : pc[q] = "invalidate" /\ k \in Written(q)

\* Since when a decision is wrong.
StaleInv ==
    \A k \in DOMAIN cache :
        /\ cache[k].expires <= now + CacheTtl
        /\ Live(k) /\ cache[k].held # (k \in perms) =>
              k \in DOMAIN stale /\ cache[k].expires <= stale[k] + CacheTtl
-----------------------------------------------------------------------------
(* Tables of the cache and the history.                                     *)

LEMMA WithIs ==
    ASSUME NEW f, NEW K, NEW v
    PROVE  /\ DOMAIN With(f, K, v) = DOMAIN f \cup K
           /\ \A k \in K : With(f, K, v)[k] = v
           /\ \A k \in DOMAIN f \ K : With(f, K, v)[k] = f[k]
  BY DEF With

LEMMA WithoutIs ==
    ASSUME NEW f, NEW K
    PROVE  /\ DOMAIN Without(f, K) = DOMAIN f \ K
           /\ \A k \in DOMAIN f \ K : Without(f, K)[k] = f[k]
  BY DEF Without

\* The locals a call changes, and what that leaves as it was.
Asks(j, c) == [j EXCEPT !.ask = c, !.held = FALSE]
Holds(j, b) == [j EXCEPT !.held = b]
Escalates(j) == [j EXCEPT !.system = TRUE, !.ask = "system.admin"]
Touches(j, S) == [j EXCEPT !.touched = S]
Stamps(j, n) == [j EXCEPT !.time = n]

LEMMA AsksIs ==
    ASSUME NEW j \in Job, NEW c \in Codes
    PROVE  /\ Asks(j, c) \in Job /\ SameCall(Asks(j, c), j) /\ Asks(j, c).ask = c
           /\ Asks(j, c).system = j.system /\ Asks(j, c).time = j.time /\ ~Asks(j, c).held
  BY DEF Job, Asks, SameCall

LEMMA HoldsIs ==
    ASSUME NEW j \in Job, NEW b \in BOOLEAN
    PROVE  /\ Holds(j, b) \in Job /\ SameCall(Holds(j, b), j) /\ Holds(j, b).held = b
           /\ Holds(j, b).system = j.system /\ Holds(j, b).ask = j.ask /\ Holds(j, b).time = j.time
  BY DEF Job, Holds, SameCall

LEMMA EscalatesIs ==
    ASSUME NEW j \in Job
    PROVE  /\ Escalates(j) \in Job /\ SameCall(Escalates(j), j) /\ Escalates(j).ask = "system.admin"
           /\ Escalates(j).system /\ Escalates(j).time = j.time /\ Escalates(j).held = j.held
  BY DEF Job, Escalates, SameCall, Codes

LEMMA TouchesIs ==
    ASSUME NEW j \in Job, NEW S \in SUBSET Codes
    PROVE  /\ Touches(j, S) \in Job /\ SameCall(Touches(j, S), j) /\ Touches(j, S).touched = S
           /\ Touches(j, S).system = j.system /\ Touches(j, S).ask = j.ask /\ Touches(j, S).time = j.time
  BY DEF Job, Touches, SameCall

LEMMA StampsIs ==
    ASSUME NEW j \in Job, NEW n \in Int
    PROVE  /\ Stamps(j, n) \in Job /\ SameCall(Stamps(j, n), j) /\ Stamps(j, n).time = n
           /\ Stamps(j, n).system = j.system /\ Stamps(j, n).ask = j.ask
  BY DEF Job, Stamps, SameCall
-----------------------------------------------------------------------------
(* Typing.                                                                  *)

\* How a step of a call changes where it stands and its locals.
Becomes(r) ==
    \E l \in Pcs \ {"new"}, j \in Job :
        Become(r, l, j) /\ ArgsOK(j) /\ Fits(l, j) /\ SameCall(j, job[r])

LEMMA BecomeTyped ==
    ASSUME TInv, NEW r \in Requests, NEW l \in Pcs \ {"new"}, NEW j \in Job,
           Become(r, l, j), ArgsOK(j), Fits(l, j)
    PROVE  /\ pc' \in [Requests -> Pcs] /\ job' \in [Requests -> Job \cup {None}] /\ JobInv'
<1>1. /\ pc' = [pc EXCEPT ![r] = l]
      /\ job' = [job EXCEPT ![r] = j] \/ job' = [job EXCEPT ![r] = None]
      /\ l \notin Ended => job' = [job EXCEPT ![r] = j]
      /\ l = "failed" => job' = [job EXCEPT ![r] = None]
  BY DEF Become, Ended
<1>2. pc' \in [Requests -> Pcs] /\ job' \in [Requests -> Job \cup {None}]
  BY <1>1 DEF TInv, TypeOK
<1>3. JobInv'
  BY <1>1, NoneIsNoRecord DEF TInv, TypeOK, JobInv, Ended
<1> QED BY <1>2, <1>3

\* A call under way has its locals.
LEMMA UnderWay ==
    ASSUME TInv, NEW r \in Requests, Step(r) \/ CallFails(r)
    PROVE  /\ pc[r] \notin Ended \cup {"new"} /\ pc[r] \in Pcs
           /\ job[r] \in Job /\ job[r] # None /\ ArgsOK(job[r]) /\ Fits(pc[r], job[r])
<1>1. pc[r] \notin Ended \cup {"new"}
  BY DEF Step, CallFails, ResolveSessionUser, CacheGet, SelectPermission, CachePut, CheckMember,
         WritePermission, Invalidate, FindInvitee, InsertInvitation, FindInvitation, Activate, FindGuest,
         RevokeAll, RemoveMember, InsertUser, InsertHome, DeleteUser, Ended
<1> QED BY <1>1 DEF TInv, TypeOK, JobInv

LEMMA SameArgs ==
    ASSUME NEW i \in Job, NEW j \in Job, SameCall(i, j), i.system = j.system, i.ask = j.ask, ArgsOK(j)
    PROVE  ArgsOK(i)
  BY DEF SameCall, ArgsOK

\* An answer leads on to the next question, the handler or the write.
LEMMA AnswerBecomes ==
    ASSUME TInv, NEW r \in Requests, NEW held \in BOOLEAN, job[r] \in Job, ArgsOK(job[r]),
           job[r].kind # "accept", Answer(r, job[r], held)
    PROVE  Becomes(r)
<1> DEFINE j == job[r]
           again == ~held /\ ~j.system /\ j.ask = "tenant.admin"
           l == IF again THEN "get" ELSE IF ~held THEN "failed"
                ELSE IF j.system THEN "write" ELSE FirstStep(j.kind)
           c == IF again THEN "system.admin" ELSE j.ask
<1>1. c \in Codes
  BY DEF Codes, Job
<1>2. Become(r, l, Asks(j, c))
  BY DEF Answer, Asks, Job
<1>3. Asks(j, c) \in Job /\ SameCall(Asks(j, c), j) /\ Asks(j, c).ask = c /\ Asks(j, c).system = j.system
  BY <1>1, AsksIs
<1>4. ArgsOK(Asks(j, c))
  BY <1>3 DEF ArgsOK, SameCall
<1>5. l \in Pcs \ {"new"}
  BY DEF FirstStep, Pcs
<1>6. Fits(l, Asks(j, c))
  <2>1. FirstStep(j.kind) \in {"member", "find", "insert", "delete", "ok"}
    BY DEF FirstStep
  <2>2. CASE l # FirstStep(j.kind)
    BY <1>3, <2>2 DEF Fits, SameCall, ArgsOK
  <2>3. CASE l = FirstStep(j.kind)
    BY <1>3, <2>1, <2>3 DEF Fits, FirstStep, SameCall
  <2> QED BY <2>2, <2>3
<1> HIDE DEF l, c, j
<1> QED BY <1>2, <1>3, <1>4, <1>5, <1>6 DEF Becomes, j

LEMMA StepBecomes ==
    ASSUME TInv, NEW r \in Requests, Step(r) \/ CallFails(r)
    PROVE  Becomes(r)
<1> DEFINE j == job[r]
<1>0. /\ pc[r] \notin Ended \cup {"new"} /\ pc[r] \in Pcs
      /\ j \in Job /\ j # None /\ ArgsOK(j) /\ Fits(pc[r], j)
  BY UnderWay
<1>1. SameCall(j, j) /\ now \in Int
  BY DEF SameCall, TInv, TypeOK
\* A step that keeps the locals.
<1>2. ASSUME NEW l \in Pcs \ {"new"}, Goto(r, l), Fits(l, j) PROVE Becomes(r)
  BY <1>0, <1>1, <1>2 DEF Goto, Becomes
<1>3. ASSUME NEW l \in Pcs \ {"new"}, NEW n \in Int, Become(r, l, Stamps(j, n)), Fits(l, Stamps(j, n))
      PROVE  Becomes(r)
  BY <1>0, <1>3, StampsIs, SameArgs DEF Becomes
<1>4. ASSUME NEW S \in SUBSET Codes, Become(r, "invalidate", Touches(j, S)), j.kind \in {"grant", "revoke", "expel"}
      PROVE  Becomes(r)
  <2>1. Fits("invalidate", Touches(j, S))
    BY <1>0, <1>4, TouchesIs DEF Fits, SameCall
  <2> QED BY <1>0, <1>4, <2>1, TouchesIs, SameArgs DEF Becomes, Pcs
<1> HIDE DEF j
<1>5. CASE CallFails(r)
  BY <1>2, <1>5 DEF CallFails, Fits, Pcs
<1>6. CASE ResolveSessionUser(r)
  BY <1>0, <1>2, <1>6 DEF ResolveSessionUser, Fits, Pcs, j
<1>7. CASE CacheGet(r)
  <2>1. CASE Live(Asked(r))
    <3>1. cache[Asked(r)].held \in BOOLEAN
      BY <2>1 DEF Live, TInv, TypeOK, Entry
    <3> QED BY <1>0, <1>7, <2>1, <3>1, AnswerBecomes DEF CacheGet, Fits, j
  <2>2. CASE ~Live(Asked(r))
    BY <1>0, <1>2, <1>7, <2>2 DEF CacheGet, Fits, Pcs, j
  <2> QED BY <2>1, <2>2
<1>8. CASE SelectPermission(r)
  <2> DEFINE b == Asked(r) \in perms
  <2>1. Become(r, "put", Holds(j, b)) /\ b \in BOOLEAN
    BY <1>8 DEF SelectPermission, Holds, j
  <2> HIDE DEF b
  <2>2. Fits("put", Holds(j, b))
    BY <1>0, <1>8, <2>1, HoldsIs DEF Fits, SelectPermission, SameCall
  <2> QED BY <1>0, <2>1, <2>2, HoldsIs, SameArgs DEF Becomes, Pcs, j
<1>9. CASE CachePut(r)
  <2>1. job[r].held \in BOOLEAN
    BY <1>0 DEF Job, j
  <2> QED BY <1>0, <1>9, <2>1, AnswerBecomes DEF CachePut, Fits, j
<1>10. CASE CheckMember(r)
  <2>1. CASE Become(r, "get", Escalates(j))
    <3>1. ArgsOK(Escalates(j)) /\ Fits("get", Escalates(j))
      BY <1>0, <1>10, EscalatesIs DEF ArgsOK, SameCall, CheckMember, Fits
    <3> QED BY <1>0, <2>1, <3>1, EscalatesIs DEF Becomes, Pcs, j
  <2> QED BY <1>0, <1>2, <1>10, <2>1 DEF CheckMember, Escalates, Fits, Pcs, j
<1>11. CASE WritePermission(r)
  <2>1. {j.code} \in SUBSET Codes
    BY <1>0, <1>11 DEF WritePermission, ArgsOK, j, Fits
  <2> QED BY <1>0, <1>2, <1>4, <1>11, <2>1 DEF WritePermission, Touches, Fits, Pcs, j
<1>12. CASE Invalidate(r) \/ FindGuest(r) \/ RemoveMember(r)
  BY <1>0, <1>2, <1>12 DEF Invalidate, FindGuest, RemoveMember, AfterFind, Fits, Pcs, j
<1>13. CASE FindInvitee(r)
  <2>1. Fits("insert", Stamps(j, now))
    BY <1>0, <1>1, <1>13, StampsIs DEF FindInvitee, Fits, SameCall, j
  <2> QED BY <1>1, <1>2, <1>3, <1>13, <2>1 DEF FindInvitee, Stamps, Fits, Pcs, j
<1>14. CASE FindInvitation(r)
  <2>1. Fits("activate", Stamps(j, now)) /\ Fits("failed", Stamps(j, now))
    BY <1>0, <1>1, <1>14, StampsIs DEF FindInvitation, Fits, SameCall, j
  <2> QED BY <1>1, <1>3, <1>14, <2>1 DEF FindInvitation, Stamps, Pcs, j
<1>15. CASE InsertInvitation(r) \/ Activate(r)
  BY <1>0, <1>2, <1>15 DEF InsertInvitation, Activate, Fits, Pcs, j
<1>16. CASE RevokeAll(r)
  <2> DEFINE S == {k[3] : k \in {k \in perms : <<k[1], k[2]>> = Place(r)}}
  <2>1. S \in SUBSET Codes
    BY DEF TInv, TypeOK, Key
  <2>2. Become(r, "invalidate", Touches(j, S)) /\ pc[r] = "wipe"
    BY <1>16 DEF RevokeAll, Touches, j
  <2> QED BY <1>0, <1>4, <2>1, <2>2 DEF Fits
<1>17. CASE InsertUser(r) \/ InsertHome(r) \/ DeleteUser(r)
  BY <1>0, <1>2, <1>17 DEF InsertUser, InsertHome, DeleteUser, Fits, Pcs, j
<1> QED BY <1>5, <1>6, <1>7, <1>8, <1>9, <1>10, <1>11, <1>12, <1>13, <1>14, <1>15, <1>16, <1>17 DEF Step

\* TypeOK, without the calls.
RowOK(p) ==
    /\ users[p[2]] = "live"
    /\ members[p].status = "INVITED" <=> members[p].token # None
    /\ members[p].token # None <=> members[p].expires # None

RowsOK ==
    /\ users \in [Users -> {"none", "live", "deleted"}]
    /\ members \in [Places -> Member \cup {None}]
    /\ perms \subseteq Key /\ \A k \in perms : ScopeAllowed(k) /\ users[k[2]] = "live"
    /\ \A p \in Places : members[p] # None => RowOK(p)

CacheOK ==
    /\ DOMAIN cache \subseteq Key /\ \A k \in DOMAIN cache : cache[k] \in Entry
    /\ raced \subseteq Key /\ DOMAIN stale \subseteq Key /\ \A k \in DOMAIN stale : stale[k] \in Int
    /\ joined \subseteq Guests /\ overtaken \subseteq Places /\ sysadmins \subseteq Users

LEMMA TypeParts ==
    TypeOK <=> /\ now \in 0..MaxNow /\ RowsOK /\ CacheOK
               /\ pc \in [Requests -> Pcs] /\ job \in [Requests -> Job \cup {None}]
  BY DEF TypeOK, RowsOK, RowOK, CacheOK

\* Rows as the statements make them.
LEMMA NewRows ==
    /\ \A type \in {"HOME", "GUEST"} :
          /\ Active(type) \in Member /\ Active(type).type = type /\ Active(type).status = "ACTIVE"
          /\ Active(type).token = None /\ Active(type).expires = None
    /\ \A x \in Requests \cup Guests, n \in Int :
          /\ Invitation(x, n) \in Member /\ Invitation(x, n).status = "INVITED"
          /\ Invitation(x, n).type = "GUEST" /\ Invitation(x, n).token = x
          /\ Invitation(x, n).expires = n + InviteTtl /\ n + InviteTtl \in Int
          /\ Invitation(x, n).token # None /\ Invitation(x, n).expires # None
  BY AccessAssumption DEF Active, Invitation, Member

LEMMA ActivatedRow ==
    ASSUME NEW x \in Member
    PROVE  /\ Activated(x) \in Member /\ Activated(x).type = x.type /\ Activated(x).status = "ACTIVE"
           /\ Activated(x).token = None /\ Activated(x).expires = None
  BY DEF Activated, Member

LEMMA TypeInit == Init => TInv
<1> SUFFICES ASSUME Init PROVE TInv
  OBVIOUS
<1>1. PICK invited \in SUBSET (Guests \ joined) :
          members = [p \in Places |-> IF p[2] \in Existing /\ p[1] = Home[p[2]] THEN Active("HOME")
                                      ELSE IF p \in joined THEN Active("GUEST")
                                      ELSE IF p \in invited THEN Invitation(p, 0) ELSE None]
  BY DEF Init
<1>2. \A p \in Places : \/ members[p] = None
                        \/ p[2] \in Existing /\ members[p] \in {Active("HOME"), Active("GUEST")}
                        \/ p[2] \in Existing /\ p \in Guests /\ members[p] = Invitation(p, 0)
  BY <1>1, AccessAssumption DEF Init
<1>3. members \in [Places -> Member \cup {None}]
  BY <1>1, <1>2, NewRows
<1>4. \A p \in Places : members[p] # None => RowOK(p)
  BY <1>2, NewRows, AccessAssumption DEF Init, RowOK, Places
<1>5. perms \subseteq Key /\ \A k \in perms : ScopeAllowed(k)
  BY AccessAssumption DEF Init
<1>6. \A k \in perms : users[k[2]] = "live"
  <2> SUFFICES ASSUME NEW k \in perms PROVE users[k[2]] = "live"
    OBVIOUS
  <2>1. k \in Key /\ <<k[1], k[2]>> \in Places /\ members[<<k[1], k[2]>>] \in {Active("HOME"), Active("GUEST")}
    BY <1>5 DEF Init, Key, Places
  <2>2. members[<<k[1], k[2]>>] # None
    BY <2>1, NewRows, NoneIsNoRecord
  <2> QED BY <1>4, <2>1, <2>2 DEF RowOK
<1>7. RowsOK
  BY <1>3, <1>4, <1>5, <1>6 DEF RowsOK, Init
<1>8. CacheOK
  BY DEF Init, CacheOK
<1> QED BY <1>7, <1>8, TypeParts, AccessAssumption DEF Init, TInv, JobInv, Pcs, Ended

LEMMA SetPermsTyped ==
    ASSUME TInv, NEW P \in SUBSET Key, NEW blind \in BOOLEAN, SetPerms(P, blind),
           joined' = joined, overtaken' = overtaken, cache' = cache
    PROVE  perms' = P /\ CacheOK'
<1> DEFINE changed == (perms \ P) \cup (P \ perms)
           K == {k \in changed : Live(k)}
<1>1. CacheOK /\ perms \subseteq Key /\ now \in Int
  BY TypeParts DEF TInv, RowsOK
<1>2. stale' = With(stale, K, now) /\ K \subseteq Key
  BY <1>1 DEF SetPerms
<1>3. DOMAIN stale' \subseteq Key /\ \A k \in DOMAIN stale' : stale'[k] \in Int
  <2> HIDE DEF K
  <2>1. /\ DOMAIN stale' = DOMAIN stale \cup K
        /\ \A k \in K : stale'[k] = now
        /\ \A k \in DOMAIN stale \ K : stale'[k] = stale[k]
    BY <1>2 DEF With
  <2> QED BY <1>1, <1>2, <2>1 DEF CacheOK
<1>4. raced' \subseteq Key /\ sysadmins' \subseteq Users
  BY <1>1 DEF SetPerms, CacheOK
<1> QED BY <1>1, <1>3, <1>4 DEF SetPerms, CacheOK

\* Statements that change no row.
LEMMA RowsUnchanged ==
    ASSUME TInv, UNCHANGED rows
    PROVE  RowsOK'
  BY TypeParts DEF TInv, RowsOK, RowOK, rows

LEMMA HistoryUnchanged ==
    ASSUME TInv, UNCHANGED <<cache, history>>
    PROVE  CacheOK'
  BY TypeParts DEF TInv, CacheOK, history

\* One membership changes.
LEMMA MemberChanged ==
    ASSUME TInv, NEW p \in Places, NEW m \in Member \cup {None}, members' = [members EXCEPT ![p] = m],
           users' = users, perms' = perms,
           m # None => /\ users[p[2]] = "live"
                       /\ m.status = "INVITED" <=> m.token # None
                       /\ m.token # None <=> m.expires # None
    PROVE  RowsOK'
<1>1. RowsOK
  BY TypeParts DEF TInv
<1> QED BY <1>1 DEF RowsOK, RowOK

LEMMA PlaceTyped ==
    ASSUME TInv, NEW r \in Requests, job[r] \in Job
    PROVE  /\ job[r].target \in Users => Place(r) \in Places
           /\ Asked(r) \in Key /\ <<job[r].tenant, job[r].actor>> \in Places
  BY DEF Job, Place, Places, Asked, Key

LEMMA TypeStep ==
    ASSUME TInv, NEW r \in Requests, Step(r) \/ CallFails(r)
    PROVE  TInv'
<1> DEFINE j == job[r]
<1>0. /\ pc[r] \in Pcs /\ j \in Job /\ ArgsOK(j) /\ Fits(pc[r], j)
      /\ now \in Int /\ now \in 0..MaxNow /\ RowsOK /\ CacheOK
  BY UnderWay, TypeParts DEF TInv
<1> HIDE DEF j
<1>1. pc' \in [Requests -> Pcs] /\ job' \in [Requests -> Job \cup {None}] /\ JobInv'
  BY StepBecomes, BecomeTyped DEF Becomes
<1> SUFFICES now' = now /\ RowsOK' /\ CacheOK'
  <2>1. now' = now /\ RowsOK' /\ CacheOK' => TypeOK'
    BY <1>0, <1>1 DEF TypeOK, RowsOK, RowOK, CacheOK
  <2> QED BY <1>1, <2>1 DEF TInv
<1>2. CASE ResolveSessionUser(r) \/ SelectPermission(r) \/ FindInvitee(r) \/ FindInvitation(r)
  BY <1>2, RowsUnchanged, HistoryUnchanged
     DEF ResolveSessionUser, SelectPermission, FindInvitee, FindInvitation
<1>3. CASE CacheGet(r) \/ Invalidate(r)
  <2>1. \E K : cache' = Without(cache, K) \/ cache' = cache
    BY <1>3 DEF CacheGet, Invalidate
  <2>2. DOMAIN cache' \subseteq DOMAIN cache /\ \A k \in DOMAIN cache' : cache'[k] = cache[k]
    BY <2>1 DEF Without
  <2>3. CacheOK'
    BY <1>0, <1>3, <2>2 DEF CacheGet, Invalidate, CacheOK, history
  <2> QED BY <1>3, <2>3, RowsUnchanged DEF CacheGet, Invalidate
<1>4. CASE CachePut(r)
  <2> DEFINE k == Asked(r)
             e == [held |-> job[r].held, expires |-> now + CacheTtl]
  <2>1. k \in Key
    BY <1>0, PlaceTyped DEF j
  <2>2. e \in Entry
    <3>1. job[r].held \in BOOLEAN /\ now + CacheTtl \in Int
      BY <1>0, AccessAssumption DEF Job, j
    <3> QED BY <3>1 DEF Entry
  <2>3. cache' = With(cache, {k}, e) /\ stale' \in {Without(stale, {k}), With(stale, {k}, now)}
    BY <1>4 DEF CachePut
  <2> HIDE DEF k, e
  <2>4. DOMAIN cache' \subseteq Key /\ \A x \in DOMAIN cache' : cache'[x] \in Entry
    <3>1. DOMAIN cache' = DOMAIN cache \cup {k} /\ cache'[k] = e /\ \A x \in DOMAIN cache \ {k} : cache'[x] = cache[x]
      BY <2>3 DEF With
    <3> QED BY <1>0, <2>1, <2>2, <3>1 DEF CacheOK
  <2>5. DOMAIN stale' \subseteq Key /\ \A x \in DOMAIN stale' : stale'[x] \in Int
    <3>1. CASE stale' = With(stale, {k}, now)
      <4>1. /\ DOMAIN stale' = DOMAIN stale \cup {k} /\ stale'[k] = now
            /\ \A x \in DOMAIN stale \ {k} : stale'[x] = stale[x]
        BY <3>1 DEF With
      <4> QED BY <1>0, <2>1, <4>1 DEF CacheOK
    <3>2. CASE stale' = Without(stale, {k})
      <4>1. DOMAIN stale' = DOMAIN stale \ {k} /\ \A x \in DOMAIN stale \ {k} : stale'[x] = stale[x]
        BY <3>2 DEF Without
      <4> QED BY <1>0, <4>1 DEF CacheOK
    <3> QED BY <2>3, <3>1, <3>2
  <2>6. CacheOK'
    BY <1>0, <1>4, <2>4, <2>5 DEF CachePut, CacheOK
  <2> QED BY <1>4, <2>6, RowsUnchanged DEF CachePut
<1>5. CASE CheckMember(r) \/ FindGuest(r)
  <2>1. Place(r) \in Places
    <3>1. job[r].target \in Users
      BY <1>0, <1>5 DEF CheckMember, FindGuest, Fits, ArgsOK, j
    <3> QED BY <1>0, <3>1, PlaceTyped DEF j
  <2>2. CacheOK'
    BY <1>0, <1>5, <2>1 DEF CheckMember, FindGuest, CacheOK
  <2> QED BY <1>5, <2>2, RowsUnchanged DEF CheckMember, FindGuest
<1>6. CASE WritePermission(r)
  <2> DEFINE k == <<j.tenant, j.target, j.code>>
  <2>1. k \in Key
    BY <1>0, <1>6 DEF WritePermission, Fits, ArgsOK, Job, Key, j
  <2>2. CASE SetPerms(perms \cup {k}, FALSE) /\ users[j.target] = "live" /\ ScopeAllowed(k)
    <3>1. perms' = perms \cup {k} /\ CacheOK'
      BY <1>0, <1>6, <2>1, <2>2, SetPermsTyped DEF WritePermission, RowsOK
    <3>2. k[2] = j.target
      OBVIOUS
    <3>3. RowsOK'
      BY <1>0, <1>6, <2>1, <2>2, <3>1, <3>2 DEF WritePermission, RowsOK, RowOK
    <3> QED BY <1>6, <3>1, <3>3 DEF WritePermission
  <2>3. CASE SetPerms(perms \ {k}, FALSE)
    <3>1. perms' = perms \ {k} /\ CacheOK'
      BY <1>0, <1>6, <2>3, SetPermsTyped DEF WritePermission, RowsOK
    <3>2. RowsOK'
      BY <1>0, <1>6, <3>1 DEF WritePermission, RowsOK, RowOK
    <3> QED BY <1>6, <3>1, <3>2 DEF WritePermission
  <2>4. CASE UNCHANGED <<perms, stale, raced, sysadmins>>
    BY <1>6, <2>4, RowsUnchanged, HistoryUnchanged DEF WritePermission, rows, history
  <2> QED BY <1>6, <2>2, <2>3, <2>4 DEF WritePermission, j
<1>7. CASE InsertInvitation(r) \/ InsertHome(r) \/ RemoveMember(r)
  <2>1. Place(r) \in Places
    <3>1. job[r].target \in Users
      BY <1>0, <1>7 DEF InsertInvitation, InsertHome, RemoveMember, Fits, ArgsOK, j
    <3> QED BY <1>0, <3>1, PlaceTyped DEF j
  <2>2. CASE RemoveMember(r)
    BY <2>1, <2>2, MemberChanged, HistoryUnchanged DEF RemoveMember
  <2>3. CASE InsertInvitation(r)
    <3>1. j.time \in Int /\ Invitation(r, j.time) \in Member
      BY <1>0, <2>3, NewRows DEF InsertInvitation, Fits, j
    <3>2. RowsOK'
      BY <2>1, <2>3, <3>1, MemberChanged, RowsUnchanged, NewRows DEF InsertInvitation, rows, j
    <3> QED BY <2>3, <3>2, HistoryUnchanged DEF InsertInvitation
  <2>4. CASE InsertHome(r)
    <3>1. RowsOK'
      BY <2>1, <2>4, MemberChanged, RowsUnchanged, NewRows DEF InsertHome, rows
    <3> QED BY <2>4, <3>1, HistoryUnchanged DEF InsertHome
  <2> QED BY <1>7, <2>2, <2>3, <2>4
<1>8. CASE Activate(r)
  <2>1. PICK p \in Places : p = <<job[r].tenant, job[r].actor>>
    BY <1>0, PlaceTyped DEF j
  <2>2. RowsOK'
    <3>1. CASE members[p] = None
      BY <1>8, <2>1, <3>1, RowsUnchanged DEF Activate, rows
    <3>2. CASE members[p] # None
      <4>1. members' = [members EXCEPT ![p] = Activated(members[p])] /\ members[p] \in Member /\ RowOK(p)
        BY <1>0, <1>8, <2>1, <3>2 DEF Activate, RowsOK
      <4> QED BY <1>8, <4>1, MemberChanged, ActivatedRow DEF Activate, RowOK
    <3> QED BY <3>1, <3>2
  <2> QED BY <1>8, <2>2, HistoryUnchanged DEF Activate
<1>9. CASE RevokeAll(r)
  <2> DEFINE P == perms \ {k \in perms : <<k[1], k[2]>> = Place(r)}
  <2>1. P \in SUBSET Key /\ P \subseteq perms
    BY <1>0 DEF RowsOK
  <2>2. SetPerms(P, FALSE) /\ UNCHANGED <<now, users, members, cache, joined, overtaken>>
    BY <1>9 DEF RevokeAll
  <2> HIDE DEF P
  <2>3. perms' = P /\ CacheOK'
    BY <2>1, <2>2, SetPermsTyped
  <2> QED BY <1>0, <2>1, <2>2, <2>3 DEF RowsOK, RowOK
<1>10. CASE InsertUser(r)
  <2>1. /\ users' \in [Users -> {"none", "live", "deleted"}]
        /\ \A v \in Users : users[v] = "live" => users'[v] = "live"
    BY <1>0, <1>10 DEF InsertUser, RowsOK
  <2>2. members' = members /\ perms' = perms /\ now' = now /\ UNCHANGED <<cache, history>>
    BY <1>10 DEF InsertUser
  <2>3. (\A k \in perms : k[2] \in Users) /\ (\A p \in Places : p[2] \in Users)
    BY <1>0 DEF RowsOK, Key, Places
  <2>4. RowsOK'
    BY <1>0, <2>1, <2>2, <2>3 DEF RowsOK, RowOK
  <2> QED BY <2>2, <2>4, HistoryUnchanged
<1>11. CASE DeleteUser(r)
  <2> DEFINE u == job[r].target
             P == {k \in perms : k[2] # u}
  <2>1. CASE users[u] = "live" /\ Home[u] = job[r].tenant /\ u # job[r].actor
    <3>1. P \in SUBSET Key /\ P \subseteq perms /\ \A k \in P : k[2] # u
      BY <1>0 DEF RowsOK
    <3>2. /\ SetPerms(P, TRUE) /\ UNCHANGED <<now, cache, joined, overtaken>>
          /\ users' = [users EXCEPT ![u] = "deleted"]
          /\ members' = [p \in Places |-> IF p[2] = u THEN None ELSE members[p]]
      BY <1>11, <2>1 DEF DeleteUser
    <3> HIDE DEF P
    <3>3. perms' = P /\ CacheOK'
      BY <3>1, <3>2, SetPermsTyped
    <3>4. \A v \in Users : v # u => users'[v] = users[v]
      BY <1>0, <3>2 DEF RowsOK
    <3>5. \A p \in Places : members'[p] # None => p[2] \in Users /\ p[2] # u /\ members'[p] = members[p]
      BY <3>2 DEF Places
    <3>6. users' \in [Users -> {"none", "live", "deleted"}] /\ members' \in [Places -> Member \cup {None}]
      BY <1>0, <3>2 DEF RowsOK
    <3>7. \A p \in Places : members'[p] # None => RowOK(p)'
      BY <1>0, <3>4, <3>5 DEF RowsOK, RowOK
    <3>8. \A k \in P : k[2] \in Users
      BY <3>1 DEF Key
    <3> QED BY <1>0, <3>1, <3>2, <3>3, <3>4, <3>6, <3>7, <3>8 DEF RowsOK
  <2>2. CASE ~(users[u] = "live" /\ Home[u] = job[r].tenant /\ u # job[r].actor)
    <3>1. UNCHANGED <<now, rows>> /\ UNCHANGED <<cache, history>>
      BY <1>11, <2>2 DEF DeleteUser, history
    <3> QED BY <3>1, RowsUnchanged, HistoryUnchanged
  <2> QED BY <2>1, <2>2
<1>12. CASE CallFails(r)
  <2>1. pc[r] = "invalidate" => Written(r) \subseteq Key
    BY <1>0 DEF Written, Fits, ArgsOK, Job, Key, j
  <2>2. CacheOK'
    BY <1>0, <1>12, <2>1 DEF CallFails, CacheOK
  <2> QED BY <1>12, <2>2, RowsUnchanged DEF CallFails
<1> QED BY <1>2, <1>3, <1>4, <1>5, <1>6, <1>7, <1>8, <1>9, <1>10, <1>11, <1>12 DEF Step

\* A call begins with its arguments.
Arrives(r) ==
    \E k \in Kinds, a \in Users, t \in Tenants, u \in Users \cup {None}, c \in Codes \cup {None},
       x \in Requests \cup Guests \cup {None} :
        /\ Begin(r, k, a, t, u, c, x) /\ pc[r] = "new"
        /\ k \in {"grant", "revoke", "invite", "expel", "create", "delete"} => u \in Users
        /\ k \in {"grant", "revoke"} => c \in Codes
        /\ k = "accept" => x \in Requests \cup Guests

LEMMA Arrival ==
    ASSUME NEW r \in Requests, NewCall(r)
    PROVE  Arrives(r)
<1>1. PICK a \in Users, t \in Tenants :
          \/ CallProtected(r, a, t)
          \/ \E u \in Users : CallOnAccount(r, a, t, u)
          \/ \E x \in Sent : CallAccept(r, a, t, x)
  BY AccessAssumption DEF NewCall
<1>2. pc[r] = "new"
  BY DEF NewCall
<1>3. CASE CallProtected(r, a, t)
  BY <1>2, <1>3 DEF CallProtected, Begin, Arrives
<1>4. CASE \E u \in Users : CallOnAccount(r, a, t, u)
  <2>1. PICK u \in Users : CallOnAccount(r, a, t, u)
    BY <1>4
  <2>2. CASE CallPermission(r, a, t, u)
    BY <1>2, <2>2 DEF CallPermission, Begin, Arrives
  <2>3. ASSUME NEW k \in {"invite", "expel", "create", "delete"}, Begin(r, k, a, t, u, None, None)
        PROVE  Arrives(r)
    <3>1. k \in Kinds
      BY <2>3 DEF Begin
    <3> QED BY <1>2, <2>3, <3>1 DEF Arrives
  <2> QED BY <2>1, <2>2, <2>3 DEF CallOnAccount, CallInvite, CallExpel, CallCreate, CallDelete
<1>5. CASE \E x \in Sent : CallAccept(r, a, t, x)
  <2>1. PICK x \in Requests \cup Guests : CallAccept(r, a, t, x)
    BY <1>5 DEF Sent
  <2> QED BY <1>2, <2>1 DEF CallAccept, Begin, Arrives
<1> QED BY <1>1, <1>3, <1>4, <1>5

LEMMA ArrivesAt ==
    ASSUME TInv, NEW r \in Requests, NewCall(r)
    PROVE  pc'[r] = "user" /\ UNCHANGED <<now, rows, cache, history>>
  BY Arrival DEF Arrives, Begin, Become, TInv, TypeOK

LEMMA TypeArrival ==
    ASSUME TInv, NEW r \in Requests, NewCall(r)
    PROVE  TInv'
<1>1. PICK k \in Kinds, a \in Users, t \in Tenants, u \in Users \cup {None}, c \in Codes \cup {None},
           x \in Requests \cup Guests \cup {None} :
          /\ Begin(r, k, a, t, u, c, x) /\ pc[r] = "new"
          /\ k \in {"grant", "revoke", "invite", "expel", "create", "delete"} => u \in Users
          /\ k \in {"grant", "revoke"} => c \in Codes
          /\ k = "accept" => x \in Requests \cup Guests
  BY Arrival DEF Arrives
<1> DEFINE j == [kind |-> k, actor |-> a, tenant |-> t, target |-> u, code |-> c, link |-> x,
                 time |-> None, ask |-> IF k = "settings" THEN "system.admin" ELSE "tenant.admin",
                 system |-> FALSE, held |-> FALSE, touched |-> {}]
<1>2. j \in Job /\ ArgsOK(j) /\ Fits("user", j)
  BY <1>1 DEF Job, ArgsOK, Fits, Codes
<1>3. Become(r, "user", j) /\ UNCHANGED <<now, rows, cache, history>>
  BY <1>1 DEF Begin
<1> HIDE DEF j
<1>4. pc' \in [Requests -> Pcs] /\ job' \in [Requests -> Job \cup {None}] /\ JobInv'
  BY <1>2, <1>3, BecomeTyped DEF Pcs
<1>5. TypeOK'
  BY <1>3, <1>4 DEF TInv, TypeOK, rows, history
<1> QED BY <1>4, <1>5 DEF TInv

LEMMA TypeRestart == TInv /\ Restart => TInv'
<1> SUFFICES ASSUME TInv, Restart PROVE TInv'
  OBVIOUS
<1>1. /\ pc' = [r \in Requests |-> IF pc[r] \in {"new", "ok"} THEN pc[r] ELSE "failed"]
      /\ job' = [r \in Requests |-> IF pc[r] = "ok" THEN job[r] ELSE None]
      /\ cache' = [k \in {} |-> None] /\ UNCHANGED <<now, rows, history>>
  BY DEF Restart
<1>2. TypeOK'
  BY <1>1 DEF TInv, TypeOK, rows, history, Pcs
<1>3. JobInv'
  BY <1>1 DEF TInv, TypeOK, JobInv, Ended
<1> QED BY <1>2, <1>3 DEF TInv

LEMMA TypeNext == TInv /\ [Next]_vars => TInv'
<1> SUFFICES ASSUME TInv, [Next]_vars PROVE TInv'
  OBVIOUS
<1>1. CASE UNCHANGED vars
  BY <1>1 DEF vars, rows, history, TInv, TypeOK, JobInv
<1>2. CASE Tick
  BY <1>2, AccessAssumption DEF Tick, rows, history, TInv, TypeOK, JobInv
<1> QED BY <1>1, <1>2, TypeRestart, TypeArrival, TypeStep DEF Next

\* Rows keep the constraints of their tables, an invitation token exists only
\* while the guest is INVITED, permissions and memberships go with their
\* account, and the locals of every call are of their types.
THEOREM TypeCorrect == Spec => []TypeOK
<1> QED BY TypeInit, TypeNext, PTL DEF Spec, TInv
-----------------------------------------------------------------------------
(* Invitations.                                                             *)

\* A step is one call's, or touches none but in a restart.
LEMMA WhoseStep ==
    ASSUME TInv, [Next]_vars, NEW q \in Requests
    PROVE  \/ pc'[q] = pc[q] /\ job'[q] = job[q]
           \/ NewCall(q) \/ Step(q) \/ CallFails(q) \/ Restart
<1>1. ASSUME NEW r \in Requests, NewCall(r) \/ Step(r) \/ CallFails(r), r # q
      PROVE  pc'[q] = pc[q] /\ job'[q] = job[q]
  <2>1. \E l, j : Become(r, l, j)
    <3>1. CASE NewCall(r)
      BY <3>1, Arrival DEF Arrives, Begin
    <3> QED BY <1>1, <3>1, StepBecomes DEF Becomes
  <2> QED BY <1>1, <2>1 DEF Become, TInv, TypeOK
<1>2. CASE UNCHANGED vars \/ Tick
  BY <1>2 DEF vars, Tick
<1> QED BY <1>1, <1>2 DEF Next

\* A call that succeeded stays as it is.
LEMMA OkStays ==
    ASSUME TInv, [Next]_vars, NEW q \in Requests, pc[q] = "ok"
    PROVE  pc'[q] = "ok" /\ job'[q] = job[q]
<1>1. CASE Restart
  BY <1>1 DEF Restart
<1> QED BY <1>1, WhoseStep, UnderWay DEF NewCall, Ended

LEMMA SentStays ==
    ASSUME TInv, [Next]_vars, NEW x \in Sent
    PROVE  x \in Sent' /\ SentFor(x)' = SentFor(x) /\ SentAt(x)' = SentAt(x)
  BY OkStays DEF Sent, SentFor, SentAt

\* The statements that change a membership.
MemberChange(p) ==
    \/ /\ members'[p] = None
       /\ users'[p[2]] = "deleted" \/ \E r \in Requests : RemoveMember(r) /\ p = Place(r)
    \/ members'[p] = Active("HOME")
    \/ \E r \in Requests : /\ Activate(r) /\ p = <<job[r].tenant, job[r].actor>>
                           /\ members[p] # None /\ members'[p] = Activated(members[p])
    \/ \E r \in Requests : /\ InsertInvitation(r) /\ p = Place(r) /\ members[p] = None
                           /\ members'[p] = Invitation(r, job[r].time) /\ pc'[r] = "ok"

LEMMA MembersChange ==
    ASSUME TInv, [Next]_vars, NEW p \in Places, members'[p] # members[p]
    PROVE  MemberChange(p)
<1>0. members \in [Places -> Member \cup {None}]
  BY DEF TInv, TypeOK
<1>1. CASE UNCHANGED members
  BY <1>1
<1>2. ASSUME NEW r \in Requests, Activate(r) PROVE MemberChange(p)
  <2>1. /\ members[<<job[r].tenant, job[r].actor>>] # None
        /\ members' = [members EXCEPT ![<<job[r].tenant, job[r].actor>>] = Activated(@)]
    BY <1>2 DEF Activate
  <2> QED BY <1>0, <1>2, <2>1 DEF MemberChange
<1>3. ASSUME NEW r \in Requests, InsertInvitation(r) PROVE MemberChange(p)
  <2>1. /\ members' = [members EXCEPT ![Place(r)] = Invitation(r, job[r].time)] /\ pc'[r] = "ok"
        /\ members[Place(r)] = None
    BY <1>3 DEF InsertInvitation, Goto, Become, TInv, TypeOK
  <2> QED BY <1>0, <1>3, <2>1 DEF MemberChange
<1>4. ASSUME NEW r \in Requests, InsertHome(r) \/ RemoveMember(r) \/ DeleteUser(r) PROVE MemberChange(p)
  <2>1. CASE DeleteUser(r)
    <3>1. /\ p[2] = job[r].target /\ p[2] \in Users /\ members'[p] = None
          /\ users' = [users EXCEPT ![job[r].target] = "deleted"]
      BY <2>1 DEF DeleteUser, rows, Places
    <3> QED BY <3>1 DEF MemberChange, TInv, TypeOK
  <2> QED BY <1>0, <1>4, <2>1 DEF InsertHome, RemoveMember, MemberChange
<1>5. ASSUME NEW r \in Requests, Step(r) \/ CallFails(r),
             ~(\/ Activate(r) \/ InsertInvitation(r) \/ InsertHome(r) \/ RemoveMember(r) \/ DeleteUser(r))
      PROVE  UNCHANGED members
  BY <1>5 DEF Step, CallFails, ResolveSessionUser,
         CacheGet, SelectPermission, CachePut, CheckMember, WritePermission, Invalidate, FindInvitee,
         FindInvitation, FindGuest, RevokeAll, InsertUser, rows
<1>6. ASSUME NEW r \in Requests, NewCall(r) PROVE UNCHANGED members
  BY <1>6, ArrivesAt DEF rows
<1>7. CASE UNCHANGED vars \/ Tick \/ Restart
  BY <1>1, <1>7 DEF vars, Tick, Restart, rows
<1> QED BY <1>1, <1>2, <1>3, <1>4, <1>5, <1>6, <1>7 DEF Next

LEMMA TokenNext == TInv /\ TokenInv /\ [Next]_vars => TokenInv'
<1> SUFFICES ASSUME TInv, TokenInv, [Next]_vars, NEW p \in Places, members'[p] # None, members'[p].token # None
             PROVE  TokenOK(p)'
  BY DEF TokenInv
<1>1. CASE members'[p] = members[p]
  <2>1. PICK x \in Sent : x = members[p].token /\ TokenOK(p)
    BY <1>1 DEF TokenInv, TokenOK
  <2> QED BY <1>1, <2>1, SentStays DEF TokenOK, Sent, SentFor, SentAt
<1>2. CASE MemberChange(p)
  <2>1. members'[p] # Active("HOME")
    BY NewRows
  <2>2. \A r \in Requests : ~(members[p] # None /\ members'[p] = Activated(members[p]))
    BY ActivatedRow DEF TInv, TypeOK
  <2>3. PICK r \in Requests : /\ InsertInvitation(r) /\ p = Place(r)
                              /\ members'[p] = Invitation(r, job[r].time) /\ pc'[r] = "ok"
    BY <1>2, <2>1, <2>2 DEF MemberChange
  <2>4. job[r] \in Job /\ job[r].kind = "invite" /\ job[r].time \in Int /\ job[r] # None
    BY <2>3, UnderWay DEF Step, InsertInvitation, Fits
  <2>5. job'[r] = job[r]
    BY <2>3, <2>4 DEF InsertInvitation, Goto, Become, TInv, TypeOK
  <2>6. r \in Sent' /\ r \notin Guests
    BY <2>3, <2>4, <2>5, AccessAssumption DEF Sent
  <2>7. SentFor(r)' = p /\ SentAt(r)' = job[r].time
    BY <2>3, <2>5, <2>6 DEF SentFor, SentAt, Place
  <2>8. members'[p].token = r /\ members'[p].expires = job[r].time + InviteTtl
    BY <2>3, <2>4, NewRows
  <2> QED BY <2>6, <2>7, <2>8 DEF TokenOK, Sent, SentFor, SentAt
<1> QED BY <1>1, <1>2, MembersChange

\* Being in time rests on locals that stay.
LEMMA InTimeStays ==
    ASSUME TInv, [Next]_vars, NEW r \in Requests, InTime(r), job'[r] = job[r]
    PROVE  InTime(r)'
<1>1. PICK x \in Sent : x = job[r].link
  BY DEF InTime
<1> QED BY <1>1, SentStays DEF InTime, Sent, SentFor, SentAt

LEMMA AcceptNext == TInv /\ TokenInv /\ AcceptInv /\ [Next]_vars => AcceptInv'
<1> SUFFICES ASSUME TInv, TokenInv, AcceptInv, [Next]_vars, NEW r \in Requests,
                    job'[r] # None, job'[r].kind = "accept", pc'[r] \in {"activate", "ok"}
             PROVE  InTime(r)'
  BY DEF AcceptInv
<1>1. CASE pc'[r] = pc[r] /\ job'[r] = job[r]
  BY <1>1, InTimeStays DEF AcceptInv
<1>2. CASE Restart
  BY <1>1, <1>2 DEF Restart
<1>3. CASE NewCall(r)
  BY <1>3, ArrivesAt
<1>4. CASE Step(r) \/ CallFails(r)
  <2>1. job[r] \in Job /\ job[r] # None /\ ArgsOK(job[r]) /\ Fits(pc[r], job[r]) /\ now \in Int
    BY <1>4, UnderWay DEF TInv, TypeOK
  <2>2. job[r].kind = "accept"
    BY <1>4, StepBecomes DEF Becomes, Become, SameCall, TInv, TypeOK
  <2>3. pc[r] \in {"find", "activate"}
    BY <1>4, <2>1, <2>2 DEF Fits, Step, CallFails, ResolveSessionUser, CacheGet, SelectPermission, CachePut,
           CheckMember, WritePermission, Invalidate, FindInvitee, InsertInvitation, FindInvitation, Activate,
           FindGuest, RevokeAll, RemoveMember, InsertUser, InsertHome, DeleteUser, Goto, Become, TInv, TypeOK
  <2>4. CASE Activate(r)
    <3>1. job'[r] = job[r]
      BY <2>1, <2>2, <2>4 DEF Activate, Goto, Become, TInv, TypeOK
    <3> QED BY <2>1, <2>2, <2>4, <3>1, InTimeStays DEF AcceptInv, Activate
  <2>5. CASE FindInvitation(r)
    <3>1. pc'[r] = "activate" /\ job'[r] = Stamps(job[r], now)
      BY <2>5 DEF FindInvitation, Become, Stamps, Ended, TInv, TypeOK
    <3>2. PICK p \in Places : members[p] # None /\ members[p].token = job[r].link /\ Acceptable(job[r], p)
      BY <2>5, <3>1 DEF FindInvitation, Become, TInv, TypeOK
    <3>3. job[r].link # None
      BY <2>1, <2>2, AccessAssumption DEF ArgsOK
    <3>4. /\ job[r].link \in Sent /\ SentFor(job[r].link) = p
          /\ members[p].expires = SentAt(job[r].link) + InviteTtl
      BY <3>2, <3>3 DEF TokenInv, TokenOK
    <3>5. p = <<job[r].tenant, job[r].actor>> /\ now < members[p].expires
      BY <2>1, <3>2, <3>3 DEF Acceptable, Places, TInv, TypeOK, Member
    <3>6. /\ job'[r].link = job[r].link /\ job'[r].tenant = job[r].tenant /\ job'[r].actor = job[r].actor
          /\ job'[r].time = now
      BY <2>1, <3>1, StampsIs DEF SameCall
    <3>7. PICK x \in Sent : x = job[r].link
      BY <3>4
    <3> QED BY <3>4, <3>5, <3>6, <3>7, SentStays DEF InTime, Sent, SentFor, SentAt
  <2> QED BY <1>4, <2>2, <2>3, <2>4, <2>5 DEF Step, CallFails, ResolveSessionUser, CacheGet, SelectPermission,
             CachePut, CheckMember, WritePermission, Invalidate, FindInvitee, InsertInvitation, FindGuest,
             RevokeAll, RemoveMember, InsertUser, InsertHome, DeleteUser, Goto, Become, TInv, TypeOK
<1> QED BY <1>1, <1>2, <1>3, <1>4, WhoseStep

\* Accepted(p), of GuestHasAccepted.
Accepted(p) ==
    \E r \in Requests :
        /\ pc[r] = "ok" /\ job[r] # None /\ job[r].kind = "accept" /\ <<job[r].tenant, job[r].actor>> = p
        /\ InTime(r)

IsGuest(p) == members[p] # None /\ members[p].type = "GUEST" /\ members[p].status = "ACTIVE"

GuestInv == \A p \in Places \ joined : IsGuest(p) => Accepted(p)

LEMMA AcceptedStays ==
    ASSUME TInv, [Next]_vars, NEW p \in Places, Accepted(p)
    PROVE  Accepted(p)'
  BY OkStays, InTimeStays DEF Accepted

LEMMA GuestNext == TInv /\ AcceptInv /\ GuestInv /\ [Next]_vars => GuestInv'
<1> SUFFICES ASSUME TInv, AcceptInv, GuestInv, [Next]_vars, NEW p \in Places \ joined', IsGuest(p)'
             PROVE  Accepted(p)'
  BY DEF GuestInv
<1>1. joined' = joined
  <2>1. ASSUME NEW r \in Requests, NewCall(r) PROVE joined' = joined
    BY <2>1, ArrivesAt DEF history
  <2>2. ASSUME NEW r \in Requests, Step(r) \/ CallFails(r) PROVE joined' = joined
    BY <2>2 DEF Step, CallFails, ResolveSessionUser, CacheGet, SelectPermission, CachePut, CheckMember,
           WritePermission, Invalidate, FindInvitee, InsertInvitation, FindInvitation, Activate, FindGuest,
           RevokeAll, RemoveMember, InsertUser, InsertHome, DeleteUser, history
  <2> QED BY <2>1, <2>2 DEF Next, vars, Tick, Restart, history
<1>2. CASE IsGuest(p)
  BY <1>1, <1>2, AcceptedStays DEF GuestInv
<1>3. CASE ~IsGuest(p)
  <2>1. MemberChange(p)
    BY <1>3, MembersChange DEF IsGuest
  <2>2. members'[p] # None /\ members'[p] # Active("HOME")
    BY NewRows DEF IsGuest
  <2>3. \A r \in Requests : InsertInvitation(r) => members'[p] # Invitation(r, job[r].time)
    <3>1. \A r \in Requests : InsertInvitation(r) => job[r].time \in Int
      BY UnderWay DEF Step, InsertInvitation, Fits
    <3> QED BY <3>1, NewRows DEF IsGuest
  <2>4. PICK r \in Requests : Activate(r) /\ p = <<job[r].tenant, job[r].actor>>
    BY <2>1, <2>2, <2>3 DEF MemberChange
  <2>5. job[r] # None /\ job[r].kind = "accept" /\ pc[r] = "activate"
    BY <2>4, UnderWay DEF Step, Activate, Fits
  <2>6. pc'[r] = "ok" /\ job'[r] = job[r]
    BY <2>4, <2>5 DEF Activate, Goto, Become, TInv, TypeOK
  <2>7. InTime(r)
    BY <2>5 DEF AcceptInv
  <2> QED BY <2>4, <2>5, <2>6, <2>7, InTimeStays DEF Accepted
<1> QED BY <1>2, <1>3

LEMMA GuestInit == Init => TokenInv /\ AcceptInv /\ GuestInv
<1> SUFFICES ASSUME Init PROVE TokenInv /\ AcceptInv /\ GuestInv
  OBVIOUS
<1>1. \A p \in Places : \/ members[p] = None \/ members[p] = Active("HOME")
                        \/ p \in joined /\ members[p] = Active("GUEST")
                        \/ p \in Guests /\ members[p] = Invitation(p, 0)
  BY AccessAssumption DEF Init
<1>2. TokenInv
  BY <1>1, NewRows, AccessAssumption DEF TokenInv, TokenOK, Sent, SentFor, SentAt
<1>3. GuestInv
  BY <1>1, NewRows DEF GuestInv, IsGuest
<1> QED BY <1>2, <1>3 DEF Init, AcceptInv

\* An account takes part in a foreign tenant as an active guest only after it
\* presented there, itself and in time, the token of an invitation that this
\* tenant sent for this account; although activate selects its row by tenant
\* and account and not by the token that was checked a statement earlier.
THEOREM GuestsHaveAccepted == Spec => []GuestHasAccepted
<1>1. GuestInv => GuestHasAccepted
  BY DEF GuestInv, IsGuest, Accepted, InTime, GuestHasAccepted
<1> QED BY <1>1, TypeInit, TypeNext, GuestInit, TokenNext, AcceptNext, GuestNext, PTL DEF Spec
-----------------------------------------------------------------------------
(* Permissions and memberships.                                             *)

\* Where an answer leads.
LEMMA AnswerIs ==
    ASSUME TInv, NEW r \in Requests, NEW held \in BOOLEAN, job[r] \in Job, Answer(r, job[r], held)
    PROVE  \/ /\ pc'[r] = "get" /\ ~held /\ ~job[r].system /\ job'[r] \in Job /\ SameCall(job'[r], job[r])
              /\ ~job'[r].system
           \/ pc'[r] = "write" /\ held /\ job[r].system /\ job'[r] \in Job /\ SameCall(job'[r], job[r])
           \/ pc'[r] \in {"member", "find", "insert", "delete"} \cup Ended
<1> DEFINE j == job[r]
           again == ~held /\ ~j.system /\ j.ask = "tenant.admin"
           l == IF again THEN "get" ELSE IF ~held THEN "failed"
                ELSE IF j.system THEN "write" ELSE FirstStep(j.kind)
           c == IF again THEN "system.admin" ELSE j.ask
<1>1. Become(r, l, Asks(j, c)) /\ c \in Codes
  BY DEF Answer, Asks, Job, Codes
<1>2. Asks(j, c) \in Job /\ SameCall(Asks(j, c), j) /\ Asks(j, c).system = j.system
  BY <1>1, AsksIs
<1>3. pc'[r] = l /\ (l \notin Ended => job'[r] = Asks(j, c))
  BY <1>1 DEF Become, TInv, TypeOK
<1>4. FirstStep(j.kind) \in {"member", "find", "insert", "delete", "ok"}
  BY DEF FirstStep
<1> QED BY <1>2, <1>3, <1>4 DEF Ended

\* A grant is under way from the check of its membership on.
LEMMA GrantingGrows ==
    ASSUME TInv, [Next]_vars, NEW p \in Places, NEW q \in Requests, q \in Granting(p)', q \notin Granting(p)
    PROVE  CheckMember(q) /\ job[q].kind = "grant" /\ Place(q) = p /\ IsActive(p)
<1> USE DEF TInv, TypeOK
<1>1. /\ pc'[q] \in {"get", "select", "put", "write"} /\ job'[q].kind = "grant"
      /\ <<job'[q].tenant, job'[q].target>> = p /\ (pc'[q] = "write" \/ job'[q].system)
  BY DEF Granting, Place
<1>2. ~(pc'[q] = pc[q] /\ job'[q] = job[q]) /\ ~Restart
  BY <1>1 DEF Granting, Place, Restart
<1>3. ~NewCall(q)
  BY <1>1, ArrivesAt
<1>4. Step(q) \/ CallFails(q)
  BY <1>2, <1>3, WhoseStep
<1>5. job[q] \in Job /\ Fits(pc[q], job[q]) /\ job'[q] \in {job'[q]}
  BY <1>4, UnderWay
<1>6. SameCall(job'[q], job[q])
  <2>1. PICK l \in Pcs \ {"new"}, j \in Job : Become(q, l, j) /\ SameCall(j, job[q])
    BY <1>4, StepBecomes DEF Becomes
  <2> QED BY <1>1, <2>1 DEF Become, Ended
<1>7. job[q].kind = "grant" /\ Place(q) = p
  BY <1>1, <1>6 DEF SameCall, Place
<1>8. CASE CacheGet(q) \/ CachePut(q)
  <2>1. CASE \E held \in BOOLEAN : Answer(q, job[q], held)
    BY <1>1, <1>5, <1>7, <1>8, <2>1, AnswerIs DEF Granting, CacheGet, CachePut, Ended
  <2>2. CASE CacheGet(q) /\ Live(Asked(q))
    <3>1. cache[Asked(q)].held \in BOOLEAN
      BY <2>2 DEF Live, Entry
    <3> QED BY <2>1, <2>2, <3>1 DEF CacheGet
  <2>3. CASE CachePut(q)
    <3>1. job[q].held \in BOOLEAN
      BY <1>5 DEF Job
    <3> QED BY <2>1, <2>3, <3>1 DEF CachePut
  <2>4. CASE CacheGet(q) /\ ~Live(Asked(q))
    BY <1>1, <1>7, <2>4 DEF Granting, CacheGet, Goto, Become, Ended
  <2> QED BY <1>8, <2>2, <2>3, <2>4
<1>9. CASE SelectPermission(q)
  <2> DEFINE b == Asked(q) \in perms
  <2>1. job'[q] = Holds(job[q], b) /\ b \in BOOLEAN
    BY <1>9 DEF SelectPermission, Become, Holds, Ended
  <2> HIDE DEF b
  <2>2. job'[q].system = job[q].system
    BY <1>5, <2>1, HoldsIs
  <2> QED BY <1>1, <1>7, <1>9, <2>2 DEF Granting, SelectPermission, Become
<1>10. CASE ResolveSessionUser(q)
  BY <1>1, <1>5, <1>10 DEF ResolveSessionUser, Goto, Become, Ended, Fits
<1>11. CASE CheckMember(q)
  <2>1. CASE IsActive(p)
    BY <1>7, <1>11, <2>1
  <2>2. CASE ~IsActive(p)
    BY <1>1, <1>7, <1>11, <2>2 DEF CheckMember, IsActive, Goto, Become
  <2> QED BY <2>1, <2>2
<1>12. CASE \/ WritePermission(q) \/ Invalidate(q) \/ FindInvitee(q) \/ InsertInvitation(q) \/ FindInvitation(q)
            \/ Activate(q) \/ FindGuest(q) \/ RevokeAll(q) \/ RemoveMember(q) \/ InsertUser(q) \/ InsertHome(q)
            \/ DeleteUser(q) \/ CallFails(q)
  BY <1>1, <1>12 DEF WritePermission, Invalidate, FindInvitee, InsertInvitation, FindInvitation, Activate,
         FindGuest, RevokeAll, RemoveMember, InsertUser, InsertHome, DeleteUser, CallFails, AfterFind, Goto, Become
<1> QED BY <1>4, <1>8, <1>9, <1>10, <1>11, <1>12 DEF Step

\* An expulsion is under way from the finding of its guest on, and past the
\* wipe once that is done.
LEMMA ExpellingGrows ==
    ASSUME TInv, [Next]_vars, NEW p \in Places, NEW q \in Requests, q \in Expelling(p)'
    PROVE  \/ q \in Expelling(p) /\ (pc'[q] # "wipe" => pc[q] # "wipe")
           \/ FindGuest(q) /\ Place(q) = p /\ pc'[q] = "wipe" /\ (Granting(p) # {} => p \in overtaken')
           \/ RevokeAll(q) /\ Place(q) = p /\ q \in Expelling(p)
<1> USE DEF TInv, TypeOK
<1>1. /\ pc'[q] \in {"wipe", "invalidate", "remove"} /\ job'[q].kind = "expel"
      /\ <<job'[q].tenant, job'[q].target>> = p
  BY DEF Expelling, Place
<1>2. CASE pc'[q] = pc[q] /\ job'[q] = job[q]
  BY <1>1, <1>2 DEF Expelling, Place
<1>3. ~Restart
  BY <1>1 DEF Restart
<1>4. ~NewCall(q)
  BY <1>1, ArrivesAt
<1>5. CASE Step(q) \/ CallFails(q)
  <2>1. job[q] \in Job /\ Fits(pc[q], job[q])
    BY <1>5, UnderWay
  <2>2. SameCall(job'[q], job[q])
    <3>1. PICK l \in Pcs \ {"new"}, j \in Job : Become(q, l, j) /\ SameCall(j, job[q])
      BY <1>5, StepBecomes DEF Becomes
    <3> QED BY <1>1, <3>1 DEF Become, Ended
  <2>3. job[q].kind = "expel" /\ Place(q) = p
    BY <1>1, <2>2 DEF SameCall, Place
  <2>4. CASE FindGuest(q) \/ Invalidate(q) \/ RevokeAll(q)
    BY <1>1, <2>3, <2>4 DEF FindGuest, Invalidate, RevokeAll, AfterFind, Goto, Become, Expelling
  <2>5. CASE CacheGet(q) \/ CachePut(q)
    <3>1. CASE \E held \in BOOLEAN : Answer(q, job[q], held)
      BY <1>1, <2>1, <3>1, AnswerIs DEF Ended
    <3>2. CASE CacheGet(q) /\ Live(Asked(q))
      <4>1. cache[Asked(q)].held \in BOOLEAN
        BY <3>2 DEF Live, Entry
      <4> QED BY <3>1, <3>2, <4>1 DEF CacheGet
    <3>3. CASE CachePut(q)
      <4>1. job[q].held \in BOOLEAN
        BY <2>1 DEF Job
      <4> QED BY <3>1, <3>3, <4>1 DEF CachePut
    <3>4. CASE CacheGet(q) /\ ~Live(Asked(q))
      BY <1>1, <3>4 DEF CacheGet, Goto, Become
    <3> QED BY <2>5, <3>2, <3>3, <3>4
  <2>6. CASE \/ ResolveSessionUser(q) \/ SelectPermission(q) \/ CheckMember(q) \/ WritePermission(q)
             \/ FindInvitee(q) \/ InsertInvitation(q) \/ FindInvitation(q) \/ Activate(q) \/ RemoveMember(q)
             \/ InsertUser(q) \/ InsertHome(q) \/ DeleteUser(q) \/ CallFails(q)
    BY <1>1, <2>1, <2>3, <2>6 DEF ResolveSessionUser, SelectPermission, CheckMember, WritePermission, FindInvitee,
           InsertInvitation, FindInvitation, Activate, RemoveMember, InsertUser, InsertHome, DeleteUser, CallFails,
           Goto, Become, Fits
  <2> QED BY <1>5, <2>4, <2>5, <2>6 DEF Step
<1> QED BY <1>2, <1>3, <1>4, <1>5, WhoseStep

LEMMA ActiveStays ==
    ASSUME TInv, [Next]_vars, NEW p \in Places, IsActive(p), ~IsActive(p)'
    PROVE  \/ users'[p[2]] = "deleted"
           \/ \E e \in Requests : e \in Expelling(p) /\ pc[e] = "remove"
<1>1. MemberChange(p) /\ members[p] \in Member
  BY MembersChange DEF IsActive, TInv, TypeOK
<1>2. members'[p] # Active("HOME") /\ members'[p] # Activated(members[p])
  BY <1>1, NewRows, ActivatedRow, NoneIsNoRecord DEF IsActive
<1>3. ASSUME NEW e \in Requests, RemoveMember(e), p = Place(e) PROVE e \in Expelling(p) /\ pc[e] = "remove"
  BY <1>3, UnderWay DEF Step, RemoveMember, Expelling, Fits
<1> QED BY <1>1, <1>2, <1>3 DEF MemberChange, IsActive

\* Accounts do not come back.
LEMMA DeletedStays ==
    ASSUME TInv, [Next]_vars, NEW u \in Users, users[u] = "deleted"
    PROVE  users'[u] = "deleted"
<1>1. ASSUME NEW r \in Requests, NewCall(r) PROVE UNCHANGED users
  BY <1>1, ArrivesAt DEF rows
<1>2. ASSUME NEW r \in Requests, InsertUser(r) \/ DeleteUser(r) PROVE users'[u] = "deleted"
  BY <1>2 DEF InsertUser, DeleteUser, rows, TInv, TypeOK
<1>3. ASSUME NEW r \in Requests, Step(r) \/ CallFails(r), ~(InsertUser(r) \/ DeleteUser(r)) PROVE UNCHANGED users
  BY <1>3 DEF Step, CallFails, ResolveSessionUser, CacheGet, SelectPermission, CachePut, CheckMember,
         WritePermission, Invalidate, FindInvitee, InsertInvitation, FindInvitation, Activate, FindGuest,
         RevokeAll, RemoveMember, InsertHome, rows
<1>4. CASE UNCHANGED vars \/ Tick \/ Restart
  BY <1>4 DEF vars, Tick, Restart, rows
<1> QED BY <1>1, <1>2, <1>3, <1>4 DEF Next

\* A permission appears only by the INSERT of a grant.
Grants(r, k) ==
    /\ WritePermission(r) /\ job[r].kind = "grant" /\ pc[r] = "write"
    /\ k = <<job[r].tenant, job[r].target, job[r].code>> /\ users[job[r].target] = "live"
    /\ members' = members /\ pc'[r] = "invalidate"

LEMMA PermsGrow ==
    ASSUME TInv, [Next]_vars, NEW k \in perms', k \notin perms
    PROVE  \E r \in Requests : Grants(r, k)
<1>1. ~UNCHANGED perms
  OBVIOUS
<1>2. ASSUME NEW r \in Requests, NewCall(r) PROVE UNCHANGED perms
  BY <1>2, ArrivesAt DEF rows
<1>3. ASSUME NEW r \in Requests, RevokeAll(r) \/ DeleteUser(r) PROVE perms' \subseteq perms
  BY <1>3 DEF RevokeAll, DeleteUser, SetPerms, rows
<1>4. ASSUME NEW r \in Requests, WritePermission(r) PROVE Grants(r, k)
  BY <1>1, <1>4 DEF WritePermission, SetPerms, Grants, Become, TInv, TypeOK
<1>5. ASSUME NEW r \in Requests, Step(r) \/ CallFails(r), ~(WritePermission(r) \/ RevokeAll(r) \/ DeleteUser(r))
      PROVE  UNCHANGED perms
  BY <1>5 DEF Step, CallFails, ResolveSessionUser, CacheGet, SelectPermission, CachePut, CheckMember,
         Invalidate, FindInvitee, InsertInvitation, FindInvitation, Activate, FindGuest,
         RemoveMember, InsertUser, InsertHome, rows
<1>6. CASE UNCHANGED vars \/ Tick \/ Restart
  BY <1>1, <1>6 DEF vars, Tick, Restart, rows
<1> QED BY <1>1, <1>2, <1>3, <1>4, <1>5, <1>6 DEF Next

LEMMA OvertakenGrows == TInv /\ [Next]_vars => overtaken \subseteq overtaken'
<1> SUFFICES ASSUME TInv, [Next]_vars PROVE overtaken \subseteq overtaken'
  OBVIOUS
<1>1. ASSUME NEW r \in Requests, NewCall(r) PROVE UNCHANGED overtaken
  BY <1>1, ArrivesAt DEF history
<1>2. ASSUME NEW r \in Requests, CheckMember(r) \/ FindGuest(r) PROVE overtaken \subseteq overtaken'
  BY <1>2 DEF CheckMember, FindGuest
<1>3. ASSUME NEW r \in Requests, Step(r) \/ CallFails(r), ~(CheckMember(r) \/ FindGuest(r)) PROVE UNCHANGED overtaken
  BY <1>3 DEF Step, CallFails, ResolveSessionUser, CacheGet, SelectPermission, CachePut, WritePermission,
         Invalidate, FindInvitee, InsertInvitation, FindInvitation, Activate, RevokeAll,
         RemoveMember, InsertUser, InsertHome, DeleteUser, history
<1> QED BY <1>1, <1>2, <1>3 DEF Next, vars, Tick, Restart, history

\* A grant that has passed its check is the one that writes.
LEMMA GrantingWrites ==
    ASSUME TInv, NEW p \in Places, NEW k \in Key, <<k[1], k[2]>> = p, NEW r \in Requests, Grants(r, k)
    PROVE  r \in Granting(p) /\ users[p[2]] = "live"
  BY DEF Grants, Granting, Place, Key, Places

LEMMA PlaceNext == TInv /\ PlaceInv /\ [Next]_vars => PlaceInv'
<1> SUFFICES ASSUME TInv, PlaceInv, [Next]_vars, NEW p \in Places \ overtaken'
             PROVE  /\ (~HasNone(p) => IsActive(p))'
                    /\ (Granting(p) # {} => (IsActive(p) \/ users[p[2]] = "deleted") /\ Expelling(p) = {})'
                    /\ (\A q \in Expelling(p) : pc[q] # "wipe" => HasNone(p))'
  BY DEF PlaceInv
<1>0. TInv'
  BY TypeNext
<1>1. /\ ~HasNone(p) => IsActive(p)
      /\ Granting(p) # {} => (IsActive(p) \/ users[p[2]] = "deleted") /\ Expelling(p) = {}
      /\ \A q \in Expelling(p) : pc[q] # "wipe" => HasNone(p)
  BY OvertakenGrows DEF PlaceInv
<1>2. p[2] \in Users /\ Expelling(p) \subseteq Requests /\ Granting(p) \subseteq Requests
  BY DEF Places, Expelling, Granting
<1>3. ASSUME HasNone(p), ~HasNone(p)' PROVE Granting(p) # {} /\ users[p[2]] = "live" /\ IsActive(p)' = IsActive(p)
  <2>1. PICK k \in perms' : <<k[1], k[2]>> = p /\ k \notin perms /\ k \in Key
    BY <1>0, <1>3 DEF HasNone, TInv, TypeOK
  <2>2. PICK r \in Requests : Grants(r, k)
    BY <2>1, PermsGrow
  <2> QED BY <2>1, <2>2, GrantingWrites DEF Grants, IsActive
<1>4. (~HasNone(p) => IsActive(p))'
  <2>1. SUFFICES ASSUME ~HasNone(p)' PROVE IsActive(p)'
    OBVIOUS
  <2>2. users'[p[2]] = "live"
    BY <1>0, <2>1 DEF HasNone, TInv, TypeOK, Key
  <2>3. CASE HasNone(p)
    BY <1>1, <1>3, <2>1, <2>3
  <2>4. CASE ~HasNone(p)
    BY <1>1, <2>2, <2>4, ActiveStays
  <2> QED BY <2>3, <2>4
<1>5. ASSUME Granting(p)' # {} PROVE (IsActive(p)' \/ users'[p[2]] = "deleted") /\ Expelling(p)' = {}
  <2>1. PICK q \in Requests : q \in Granting(p)'
    BY <1>5 DEF Granting
  <2>2. CASE Granting(p) # {}
    <3>1. Expelling(p) = {}
      BY <1>1, <2>2
    <3>2. IsActive(p)' \/ users'[p[2]] = "deleted"
      BY <1>1, <1>2, <2>2, <3>1, ActiveStays, DeletedStays
    <3>3. Expelling(p)' = {}
      BY <2>2, <3>1, ExpellingGrows DEF Expelling
    <3> QED BY <3>2, <3>3
  <2>3. CASE Granting(p) = {}
    <3>1. CheckMember(q) /\ job[q].kind = "grant" /\ Place(q) = p /\ IsActive(p)
      BY <2>1, <2>3, GrantingGrows
    <3>2. Expelling(p) = {} /\ UNCHANGED members
      BY <3>1 DEF CheckMember, IsActive, rows
    <3>3. pc' = [pc EXCEPT ![q] = pc'[q]] /\ pc[q] = "member"
      BY <3>1 DEF CheckMember, Goto, Become, TInv, TypeOK
    <3>4. \A e \in Requests : ~(FindGuest(e) /\ pc'[e] = "wipe")
      BY <3>3 DEF FindGuest, TInv, TypeOK
    <3>5. Expelling(p)' = {}
      BY <3>2, <3>4, ExpellingGrows DEF Expelling
    <3> QED BY <3>1, <3>2, <3>5 DEF IsActive
  <2> QED BY <2>2, <2>3
<1>6. ASSUME NEW q \in Expelling(p)', pc'[q] # "wipe" PROVE HasNone(p)'
  <2>1. q \in Requests
    BY <1>6 DEF Expelling
  <2>2. CASE q \in Expelling(p) /\ pc[q] # "wipe"
    BY <1>1, <1>3, <2>2
  <2>3. CASE RevokeAll(q) /\ Place(q) = p
    BY <2>3 DEF RevokeAll, SetPerms, HasNone
  <2> QED BY <1>6, <2>1, <2>2, <2>3, ExpellingGrows
<1> QED BY <1>4, <1>5, <1>6

LEMMA PlaceInit == Init => PlaceInv
<1> SUFFICES ASSUME Init, NEW p \in Places, ~HasNone(p) PROVE IsActive(p)
  BY DEF Init, PlaceInv, Granting, Expelling
<1>1. members[p] \in {Active("HOME"), Active("GUEST")}
  BY DEF Init, HasNone
<1> QED BY <1>1, NewRows, NoneIsNoRecord DEF IsActive

\* No permission without an active membership: an expulsion leaves none behind,
\* wherever it stops, and neither does the deletion of the account; unless a
\* grant at that place overlapped the expulsion.
THEOREM PermissionsNeedMembership == Spec => []PermissionNeedsMembership
<1>1. TInv /\ PlaceInv => PermissionNeedsMembership
  <2> SUFFICES ASSUME TInv, PlaceInv, NEW k \in perms, <<k[1], k[2]>> \notin overtaken
               PROVE  IsActive(<<k[1], k[2]>>)
    BY DEF PermissionNeedsMembership, IsActive
  <2>1. <<k[1], k[2]>> \in Places
    BY DEF TInv, TypeOK, Key, Places
  <2>2. ~HasNone(<<k[1], k[2]>>)
    BY DEF HasNone
  <2> QED BY <2>1, <2>2 DEF PlaceInv
<1> QED BY <1>1, TypeInit, TypeNext, PlaceInit, PlaceNext, PTL DEF Spec
-----------------------------------------------------------------------------
(* The cache, and what is decided through it.                               *)

\* The three places a call can only come to by certain steps.
LEMMA ReachesPut ==
    ASSUME TInv, [Next]_vars, NEW q \in Requests, pc'[q] = "put"
    PROVE  \/ pc[q] = "put" /\ job'[q] = job[q]
           \/ SelectPermission(q) /\ job[q] \in Job /\ job'[q] = Holds(job[q], Asked(q) \in perms)
<1> USE DEF TInv, TypeOK
<1>1. ~Restart
  BY DEF Restart
<1>2. ~NewCall(q)
  BY ArrivesAt
<1>3. CASE Step(q) \/ CallFails(q)
  <2>1. job[q] \in Job
    BY <1>3, UnderWay
  <2>2. CASE SelectPermission(q)
    BY <2>1, <2>2 DEF SelectPermission, Become, Holds, Ended
  <2>3. CASE CacheGet(q) \/ CachePut(q)
    <3>1. CASE \E held \in BOOLEAN : Answer(q, job[q], held)
      BY <2>1, <3>1, AnswerIs DEF Ended
    <3>2. CASE CacheGet(q) /\ Live(Asked(q))
      <4>1. cache[Asked(q)].held \in BOOLEAN
        BY <3>2 DEF Live, Entry
      <4> QED BY <3>1, <3>2, <4>1 DEF CacheGet
    <3>3. CASE CachePut(q)
      <4>1. job[q].held \in BOOLEAN
        BY <2>1 DEF Job
      <4> QED BY <3>1, <3>3, <4>1 DEF CachePut
    <3>4. CASE CacheGet(q) /\ ~Live(Asked(q))
      BY <3>4 DEF CacheGet, Goto, Become
    <3> QED BY <2>3, <3>2, <3>3, <3>4
  <2>4. CASE \/ ResolveSessionUser(q) \/ CheckMember(q) \/ WritePermission(q) \/ Invalidate(q) \/ FindInvitee(q)
             \/ InsertInvitation(q) \/ FindInvitation(q) \/ Activate(q) \/ FindGuest(q) \/ RevokeAll(q)
             \/ RemoveMember(q) \/ InsertUser(q) \/ InsertHome(q) \/ DeleteUser(q) \/ CallFails(q)
    BY <2>4 DEF ResolveSessionUser, CheckMember, WritePermission, Invalidate, FindInvitee, InsertInvitation,
           FindInvitation, Activate, FindGuest, RevokeAll, RemoveMember, InsertUser, InsertHome, DeleteUser,
           CallFails, AfterFind, Goto, Become
  <2> QED BY <1>3, <2>2, <2>3, <2>4 DEF Step
<1> QED BY <1>1, <1>2, <1>3, WhoseStep

LEMMA ReachesWrite ==
    ASSUME TInv, [Next]_vars, NEW q \in Requests, pc'[q] = "write"
    PROVE  \/ pc[q] = "write" /\ job'[q] = job[q]
           \/ CheckMember(q) /\ job'[q] = job[q] /\ MayChange(job[q])
           \/ /\ CacheGet(q) /\ Live(Asked(q)) /\ cache[Asked(q)].held
              /\ job[q] \in Job /\ ArgsOK(job[q]) /\ job[q].system /\ SameCall(job'[q], job[q])
           \/ /\ CachePut(q) /\ job[q].held
              /\ job[q] \in Job /\ ArgsOK(job[q]) /\ job[q].system /\ SameCall(job'[q], job[q])
<1> USE DEF TInv, TypeOK
<1>1. ~Restart
  BY DEF Restart
<1>2. ~NewCall(q)
  BY ArrivesAt
<1>3. CASE Step(q) \/ CallFails(q)
  <2>1. job[q] \in Job /\ ArgsOK(job[q])
    BY <1>3, UnderWay
  <2>2. CASE CacheGet(q) /\ Live(Asked(q))
    <3>1. cache[Asked(q)].held \in BOOLEAN /\ Answer(q, job[q], cache[Asked(q)].held)
      BY <2>2 DEF Live, Entry, CacheGet
    <3> QED BY <2>1, <2>2, <3>1, AnswerIs DEF Ended
  <2>3. CASE CachePut(q)
    <3>1. job[q].held \in BOOLEAN /\ Answer(q, job[q], job[q].held)
      BY <2>1, <2>3 DEF Job, CachePut
    <3> QED BY <2>1, <2>3, <3>1, AnswerIs DEF Ended
  <2>4. CASE CacheGet(q) /\ ~Live(Asked(q))
    BY <2>4 DEF CacheGet, Goto, Become
  <2>5. CASE CheckMember(q)
    BY <2>5 DEF CheckMember, Goto, Become, Ended
  <2>6. CASE \/ ResolveSessionUser(q) \/ SelectPermission(q) \/ WritePermission(q) \/ Invalidate(q) \/ FindInvitee(q)
             \/ InsertInvitation(q) \/ FindInvitation(q) \/ Activate(q) \/ FindGuest(q) \/ RevokeAll(q)
             \/ RemoveMember(q) \/ InsertUser(q) \/ InsertHome(q) \/ DeleteUser(q) \/ CallFails(q)
    BY <2>6 DEF ResolveSessionUser, SelectPermission, WritePermission, Invalidate, FindInvitee, InsertInvitation,
           FindInvitation, Activate, FindGuest, RevokeAll, RemoveMember, InsertUser, InsertHome, DeleteUser,
           CallFails, AfterFind, Goto, Become
  <2> QED BY <1>3, <2>2, <2>3, <2>4, <2>5, <2>6 DEF Step
<1> QED BY <1>1, <1>2, <1>3, WhoseStep

\* An entry of the cache is old, or what a check has just put there.
LEMMA CacheChanges ==
    ASSUME TInv, [Next]_vars, NEW k \in DOMAIN cache'
    PROVE  \/ k \in DOMAIN cache /\ cache'[k] = cache[k] /\ \A r \in Requests : ~(CachePut(r) /\ Asked(r) = k)
           \/ \E r \in Requests :
                 /\ CachePut(r) /\ k = Asked(r) /\ pc[r] = "put"
                 /\ cache'[k] = [held |-> job[r].held, expires |-> now + CacheTtl]
<1>1. ASSUME NEW r \in Requests, CachePut(r), k = Asked(r)
      PROVE  pc[r] = "put" /\ cache'[k] = [held |-> job[r].held, expires |-> now + CacheTtl]
  BY <1>1 DEF CachePut, With
<1>2. ASSUME NEW r \in Requests, CachePut(r), k # Asked(r) PROVE k \in DOMAIN cache /\ cache'[k] = cache[k]
  BY <1>2 DEF CachePut, With
<1>3. ASSUME NEW r \in Requests, CacheGet(r) \/ Invalidate(r) PROVE k \in DOMAIN cache /\ cache'[k] = cache[k]
  BY <1>3 DEF CacheGet, Invalidate, Without
<1>4. ASSUME NEW r \in Requests, NewCall(r) PROVE UNCHANGED cache
  BY <1>4, ArrivesAt
<1>5. ASSUME NEW r \in Requests, Step(r) \/ CallFails(r), ~(CachePut(r) \/ CacheGet(r) \/ Invalidate(r))
      PROVE  UNCHANGED cache
  BY <1>5 DEF Step, CallFails, ResolveSessionUser, SelectPermission, CheckMember,
         WritePermission, FindInvitee, InsertInvitation, FindInvitation, Activate, FindGuest,
         RevokeAll, RemoveMember, InsertUser, InsertHome, DeleteUser
<1>6. CASE UNCHANGED vars \/ Tick \/ Restart
  <2>1. k \in DOMAIN cache /\ cache'[k] = cache[k]
    BY <1>6 DEF vars, Tick, Restart
  <2> QED BY <1>1, <2>1
<1> QED BY <1>1, <1>2, <1>3, <1>4, <1>5, <1>6 DEF Next

\* Who has held system.admin, and which keys have raced, is not forgotten.
LEMMA HistoryGrows == TInv /\ [Next]_vars => sysadmins \subseteq sysadmins' /\ raced \subseteq raced'
<1> SUFFICES ASSUME TInv, [Next]_vars PROVE sysadmins \subseteq sysadmins' /\ raced \subseteq raced'
  OBVIOUS
<1>1. ASSUME NEW r \in Requests, NewCall(r) PROVE UNCHANGED <<sysadmins, raced>>
  BY <1>1, ArrivesAt DEF history
<1>2. ASSUME NEW r \in Requests, WritePermission(r) \/ RevokeAll(r) \/ DeleteUser(r) \/ CallFails(r)
      PROVE  sysadmins \subseteq sysadmins' /\ raced \subseteq raced'
  BY <1>2 DEF WritePermission, RevokeAll, DeleteUser, CallFails, SetPerms
<1>3. ASSUME NEW r \in Requests, Step(r), ~(WritePermission(r) \/ RevokeAll(r) \/ DeleteUser(r))
      PROVE  UNCHANGED <<sysadmins, raced>>
  <2>1. CASE CachePut(r) \/ CheckMember(r) \/ FindGuest(r)
    BY <2>1 DEF CachePut, CheckMember, FindGuest
  <2>2. CASE ~(CachePut(r) \/ CheckMember(r) \/ FindGuest(r))
    BY <1>3, <2>2 DEF Step, ResolveSessionUser, CacheGet, SelectPermission, Invalidate, FindInvitee,
           InsertInvitation, FindInvitation, Activate, RemoveMember, InsertUser, InsertHome, history
  <2> QED BY <2>1, <2>2
<1> QED BY <1>1, <1>2, <1>3 DEF Next, vars, Tick, Restart, history

LEMMA SystemNext == TInv /\ SystemInv /\ [Next]_vars => SystemInv'
<1> SUFFICES ASSUME TInv, SystemInv, [Next]_vars PROVE SystemInv'
  OBVIOUS
<1>0. sysadmins \subseteq sysadmins' /\ TInv'
  BY HistoryGrows, TypeNext
<1>1. ASSUME NEW u \in Users, <<Root, u, "system.admin">> \in perms' PROVE u \in sysadmins'
  <2>1. CASE <<Root, u, "system.admin">> \in perms
    BY <1>0, <2>1 DEF SystemInv
  <2>2. CASE <<Root, u, "system.admin">> \notin perms
    <3>1. PICK r \in Requests : Grants(r, <<Root, u, "system.admin">>)
      BY <1>1, <2>2, PermsGrow
    <3>2. sysadmins' = sysadmins \cup {v \in Users : <<Root, v, "system.admin">> \in perms'}
      BY <2>2, <3>1, <1>1 DEF Grants, WritePermission, SetPerms
    <3> QED BY <1>1, <3>2
  <2> QED BY <2>1, <2>2
<1>2. ASSUME NEW k \in DOMAIN cache', k[3] = "system.admin", cache'[k].held PROVE k[2] \in sysadmins'
  <2>1. CASE k \in DOMAIN cache /\ cache'[k] = cache[k]
    BY <1>0, <1>2, <2>1 DEF SystemInv
  <2>2. ASSUME NEW r \in Requests, k = Asked(r), pc[r] = "put",
               cache'[k] = [held |-> job[r].held, expires |-> now + CacheTtl]
        PROVE  k[2] \in sysadmins'
    <3>1. job[r].held /\ job[r].ask = "system.admin" /\ k[2] = job[r].actor
      BY <1>2, <2>2 DEF Asked
    <3> QED BY <1>0, <2>2, <3>1 DEF SystemInv
  <2> QED BY <2>1, <2>2, CacheChanges
<1>3. ASSUME NEW r \in Requests, pc'[r] = "put", job'[r].held, job'[r].ask = "system.admin"
      PROVE  job'[r].actor \in sysadmins'
  <2>1. CASE pc[r] = "put" /\ job'[r] = job[r]
    BY <1>0, <1>3, <2>1 DEF SystemInv
  <2>2. CASE SelectPermission(r) /\ job[r] \in Job /\ job'[r] = Holds(job[r], Asked(r) \in perms)
    <3> DEFINE b == Asked(r) \in perms
    <3>1. job[r] \in Job /\ job'[r] = Holds(job[r], b) /\ b \in BOOLEAN
      BY <2>2
    <3>2. job'[r].held = b /\ job'[r].ask = job[r].ask /\ job'[r].actor = job[r].actor
      <4> HIDE DEF b
      <4> QED BY <3>1, HoldsIs DEF SameCall
    <3>3. <<job[r].tenant, job[r].actor, "system.admin">> \in perms
      BY <1>3, <3>2 DEF Asked
    <3>4. job[r].tenant = Root /\ job[r].actor \in Users
      BY <3>1, <3>3 DEF TInv, TypeOK, ScopeAllowed, Job
    <3> QED BY <1>0, <3>2, <3>3, <3>4 DEF SystemInv
  <2> QED BY <1>3, <2>1, <2>2, ReachesPut
<1>4. ASSUME NEW r \in Requests, pc'[r] = "write", job'[r].code = "system.admin" PROVE job'[r].actor \in sysadmins'
  <2>1. CASE pc[r] = "write" /\ job'[r] = job[r]
    BY <1>0, <1>4, <2>1 DEF SystemInv
  <2>2. CASE CheckMember(r) /\ job'[r] = job[r] /\ MayChange(job[r])
    BY <1>4, <2>2 DEF MayChange
  <2>3. CASE /\ CacheGet(r) /\ Live(Asked(r)) /\ cache[Asked(r)].held
             /\ job[r] \in Job /\ ArgsOK(job[r]) /\ job[r].system /\ SameCall(job'[r], job[r])
    <3>1. Asked(r)[3] = "system.admin" /\ Asked(r)[2] = job'[r].actor /\ Asked(r) \in DOMAIN cache
      BY <2>3 DEF Asked, ArgsOK, SameCall, Live
    <3> QED BY <1>0, <2>3, <3>1 DEF SystemInv
  <2>4. CASE /\ CachePut(r) /\ job[r].held
             /\ job[r] \in Job /\ ArgsOK(job[r]) /\ job[r].system /\ SameCall(job'[r], job[r])
    BY <1>0, <2>4 DEF SystemInv, CachePut, ArgsOK, SameCall
  <2> QED BY <1>4, <2>1, <2>2, <2>3, <2>4, ReachesWrite
<1> QED BY <1>1, <1>2, <1>3, <1>4 DEF SystemInv

LEMMA SystemInit == Init => SystemInv
  BY DEF Init, SystemInv

\* system.admin is granted only by accounts that have held it themselves, on
\* the answer of the database or of a cache that got it from there, however
\* grants, revocations and the checks of other calls interleave.
THEOREM SystemAdminsFromSystemAdmins == Spec => SystemAdminFromSystemAdmin
<1> DEFINE A == \A u \in Users : <<Root, u, "system.admin">> \in perms' \ perms =>
                  \E r \in Requests : pc[r] = "write" /\ pc'[r] = "invalidate" /\ job[r].actor \in sysadmins
<1>1. TInv /\ SystemInv /\ [Next]_vars => [A]_vars
  <2> SUFFICES ASSUME TInv, SystemInv, [Next]_vars, NEW u \in Users, <<Root, u, "system.admin">> \in perms' \ perms
               PROVE  \E r \in Requests : pc[r] = "write" /\ pc'[r] = "invalidate" /\ job[r].actor \in sysadmins
    OBVIOUS
  <2>1. PICK r \in Requests : Grants(r, <<Root, u, "system.admin">>)
    BY PermsGrow
  <2>2. job[r].code = "system.admin" /\ pc[r] = "write" /\ pc'[r] = "invalidate"
    BY <2>1 DEF Grants
  <2> QED BY <2>2 DEF SystemInv
<1> QED BY <1>1, TypeInit, TypeNext, SystemInit, SystemNext, PTL DEF Spec, SystemAdminFromSystemAdmin

\* What every change of a permission leaves behind it.
LEMMA PermChanges ==
    ASSUME TInv, [Next]_vars, NEW k \in Key, (k \in perms) # (k \in perms')
    PROVE  /\ cache' = cache /\ now' = now
           /\ (\E q \in Requests : pc[q] = "put" /\ Asked(q) = k) => k \in raced'
           /\ Live(k) => k \in DOMAIN stale' /\ stale'[k] = now
           /\ k \in raced' \/ \E r \in Requests : pc'[r] = "invalidate" /\ k \in Written(r)'
<1>0. perms' # perms
  OBVIOUS
<1>1. ASSUME NEW P, NEW blind \in BOOLEAN, SetPerms(P, blind)
      PROVE  /\ (\E q \in Requests : pc[q] = "put" /\ Asked(q) = k) => k \in raced'
             /\ Live(k) => k \in DOMAIN stale' /\ stale'[k] = now
             /\ blind => k \in raced'
  <2>1. (k \in perms \ P \/ k \in P \ perms) /\ perms' = P
    BY <1>1 DEF SetPerms
  <2> QED BY <1>1, <2>1 DEF SetPerms, With
<1>2. ASSUME NEW r \in Requests, WritePermission(r)
      PROVE  /\ \E P : SetPerms(P, FALSE) /\ cache' = cache /\ now' = now
             /\ pc'[r] = "invalidate" /\ k \in Written(r)'
  <2>1. job[r] \in Job /\ ArgsOK(job[r]) /\ job[r].kind \in {"grant", "revoke"}
    BY <1>2, UnderWay DEF Step, WritePermission, Fits
  <2>2. {job[r].code} \in SUBSET Codes
    BY <2>1 DEF ArgsOK
  <2> DEFINE x == <<job[r].tenant, job[r].target, job[r].code>>
  <2>3. /\ SetPerms(perms \cup {x}, FALSE) \/ SetPerms(perms \ {x}, FALSE)
        /\ Become(r, "invalidate", Touches(job[r], {job[r].code})) /\ cache' = cache /\ now' = now
    BY <1>0, <1>2 DEF WritePermission, Touches
  <2>4. k = x
    BY <2>3 DEF SetPerms
  <2>5. pc'[r] = "invalidate" /\ job'[r] = Touches(job[r], {job[r].code})
    BY <2>3 DEF Become, Ended, TInv, TypeOK
  <2>6. job'[r].tenant = job[r].tenant /\ job'[r].target = job[r].target /\ job'[r].touched = {job[r].code}
    BY <2>1, <2>2, <2>5, TouchesIs DEF SameCall
  <2> QED BY <2>3, <2>4, <2>5, <2>6 DEF Written
<1>3. ASSUME NEW r \in Requests, RevokeAll(r)
      PROVE  /\ \E P : SetPerms(P, FALSE) /\ cache' = cache /\ now' = now
             /\ pc'[r] = "invalidate" /\ k \in Written(r)'
  <2> DEFINE mine == {x \in perms : <<x[1], x[2]>> = Place(r)}
             S == {x[3] : x \in mine}
  <2>1. job[r] \in Job
    BY <1>3, UnderWay DEF Step
  <2>2. S \in SUBSET Codes
    BY DEF TInv, TypeOK, Key
  <2>3. /\ SetPerms(perms \ mine, FALSE) /\ perms' = perms \ mine
        /\ Become(r, "invalidate", Touches(job[r], S)) /\ cache' = cache /\ now' = now
    BY <1>3 DEF RevokeAll, SetPerms, Touches
  <2>4. <<k[1], k[2]>> = Place(r) /\ k[3] \in S
    BY <2>3
  <2> HIDE DEF S
  <2>5. pc'[r] = "invalidate" /\ job'[r] = Touches(job[r], S)
    BY <2>3 DEF Become, Ended, TInv, TypeOK
  <2>6. job'[r].tenant = job[r].tenant /\ job'[r].target = job[r].target /\ job'[r].touched = S
    BY <2>1, <2>2, <2>5, TouchesIs DEF SameCall
  <2>7. k = <<job'[r].tenant, job'[r].target, k[3]>>
    BY <2>4, <2>6 DEF Place, Key
  <2> QED BY <2>3, <2>4, <2>5, <2>6, <2>7 DEF Written
<1>4. ASSUME NEW r \in Requests, DeleteUser(r)
      PROVE  \E P : SetPerms(P, TRUE) /\ cache' = cache /\ now' = now
  BY <1>0, <1>4 DEF DeleteUser, rows
<1>5. ASSUME NEW r \in Requests, NewCall(r) PROVE UNCHANGED perms
  BY <1>5, ArrivesAt DEF rows
<1>6. ASSUME NEW r \in Requests, Step(r) \/ CallFails(r), ~(WritePermission(r) \/ RevokeAll(r) \/ DeleteUser(r))
      PROVE  UNCHANGED perms
  BY <1>6 DEF Step, CallFails, ResolveSessionUser, CacheGet, SelectPermission, CachePut, CheckMember,
         Invalidate, FindInvitee, InsertInvitation, FindInvitation, Activate, FindGuest,
         RemoveMember, InsertUser, InsertHome, rows
<1>7. PICK r \in Requests : WritePermission(r) \/ RevokeAll(r) \/ DeleteUser(r)
  BY <1>0, <1>5, <1>6 DEF Next, vars, Tick, Restart, rows
<1>8. CASE WritePermission(r) \/ RevokeAll(r)
  BY <1>1, <1>2, <1>3, <1>8
<1>9. CASE DeleteUser(r)
  BY <1>1, <1>4, <1>9
<1> QED BY <1>7, <1>8, <1>9

LEMMA CacheInvNext == TInv /\ CacheInv /\ [Next]_vars => CacheInv'
<1> SUFFICES ASSUME TInv, CacheInv, [Next]_vars PROVE CacheInv'
  OBVIOUS
<1>0. raced \subseteq raced' /\ TInv'
  BY HistoryGrows, TypeNext
<1>1. ASSUME NEW q \in Requests, pc'[q] = "put", Asked(q)' \notin raced'
      PROVE  job'[q].held = (Asked(q)' \in perms')
  <2>1. CASE pc[q] = "put" /\ job'[q] = job[q]
    <3>1. PICK k \in Key : k = Asked(q) /\ k = Asked(q)'
      <4>1. job[q] \in Job
        BY <2>1 DEF TInv, TypeOK, JobInv, Ended
      <4> QED BY <2>1, <4>1, PlaceTyped DEF Asked
    <3>2. job[q].held = (k \in perms)
      BY <1>0, <1>1, <2>1, <3>1 DEF CacheInv
    <3>3. (k \in perms) = (k \in perms')
      BY <1>1, <2>1, <3>1, PermChanges
    <3> QED BY <2>1, <3>1, <3>2, <3>3
  <2>2. CASE SelectPermission(q) /\ job[q] \in Job /\ job'[q] = Holds(job[q], Asked(q) \in perms)
    <3> DEFINE b == Asked(q) \in perms
    <3>1. job[q] \in Job /\ job'[q] = Holds(job[q], b) /\ b \in BOOLEAN /\ perms' = perms
      BY <2>2 DEF SelectPermission, rows
    <3>2. job'[q].held = b /\ job'[q].ask = job[q].ask /\ job'[q].actor = job[q].actor /\ job'[q].tenant = job[q].tenant
      <4> HIDE DEF b
      <4> QED BY <3>1, HoldsIs DEF SameCall
    <3> QED BY <3>1, <3>2 DEF Asked
  <2> QED BY <1>1, <2>1, <2>2, ReachesPut
<1>2. ASSUME NEW k \in DOMAIN cache' \ raced', cache'[k].held # (k \in perms')
      PROVE  \E q \in Requests : pc'[q] = "invalidate" /\ k \in Written(q)'
  <2>0. k \in Key
    BY <1>0 DEF TInv, TypeOK
  <2>1. CASE (k \in perms) # (k \in perms')
    BY <1>2, <2>0, <2>1, PermChanges
  <2>2. CASE (k \in perms) = (k \in perms') /\ k \in DOMAIN cache /\ cache'[k] = cache[k]
    <3>1. PICK q \in Requests : pc[q] = "invalidate" /\ k \in Written(q)
      BY <1>0, <1>2, <2>2 DEF CacheInv
    <3>2. CASE pc'[q] = pc[q] /\ job'[q] = job[q]
      BY <3>1, <3>2 DEF Written
    <3>3. CASE Restart
      BY <1>2, <3>3 DEF Restart
    <3>4. CASE CallFails(q)
      BY <1>2, <3>1, <3>4 DEF CallFails
    <3>5. CASE Step(q)
      <4>1. Invalidate(q)
        BY <3>1, <3>5 DEF Step, ResolveSessionUser, CacheGet, SelectPermission, CachePut, CheckMember,
               WritePermission, FindInvitee, InsertInvitation, FindInvitation, Activate, FindGuest,
               RevokeAll, RemoveMember, InsertUser, InsertHome, DeleteUser
      <4> QED BY <1>2, <3>1, <4>1 DEF Invalidate, Without
    <3> QED BY <3>1, <3>2, <3>3, <3>4, <3>5, WhoseStep DEF NewCall
  <2>3. ASSUME NEW r \in Requests, CachePut(r), k = Asked(r), pc[r] = "put",
               cache'[k] = [held |-> job[r].held, expires |-> now + CacheTtl]
        PROVE  FALSE
    BY <1>0, <1>2, <2>3 DEF CacheInv, CachePut, rows
  <2> QED BY <2>1, <2>2, <2>3, CacheChanges
<1> QED BY <1>1, <1>2 DEF CacheInv

LEMMA CacheInit == Init => CacheInv /\ StaleInv
  BY DEF Init, CacheInv, StaleInv

\* A decision in the cache is that of the database once grant, revoke or the
\* expulsion has come to its end, for every key whose check and change did not
\* overlap: revoked access is not served from the cache, nor new access denied.
THEOREM CacheIsCoherent == Spec => []CacheCoherent
<1>1. CacheInv => CacheCoherent
  BY DEF CacheInv, CacheCoherent
<1> QED BY <1>1, TypeInit, TypeNext, CacheInit, CacheInvNext, PTL DEF Spec

\* Since when a decision is wrong is forgotten only when a check corrects it.
LEMMA StaleChanges ==
    ASSUME TInv, [Next]_vars, NEW k \in DOMAIN stale
    PROVE  \/ k \in DOMAIN stale' /\ stale'[k] \in {stale[k], now}
           \/ \E r \in Requests : CachePut(r) /\ Asked(r) = k
<1>1. ASSUME NEW r \in Requests, CachePut(r), Asked(r) # k PROVE k \in DOMAIN stale' /\ stale'[k] \in {stale[k], now}
  BY <1>1 DEF CachePut, With, Without
<1>2. ASSUME NEW r \in Requests, WritePermission(r) \/ RevokeAll(r) \/ DeleteUser(r)
      PROVE  k \in DOMAIN stale' /\ stale'[k] \in {stale[k], now}
  <2>1. stale' = stale \/ \E K : stale' = With(stale, K, now)
    BY <1>2 DEF WritePermission, RevokeAll, DeleteUser, SetPerms
  <2> QED BY <2>1 DEF With
<1>3. ASSUME NEW r \in Requests, NewCall(r) PROVE UNCHANGED stale
  BY <1>3, ArrivesAt DEF history
<1>4. ASSUME NEW r \in Requests, Step(r) \/ CallFails(r),
             ~(CachePut(r) \/ WritePermission(r) \/ RevokeAll(r) \/ DeleteUser(r))
      PROVE  UNCHANGED stale
  <2>1. CASE CheckMember(r) \/ FindGuest(r) \/ CallFails(r)
    BY <2>1 DEF CheckMember, FindGuest, CallFails
  <2>2. CASE ~(CheckMember(r) \/ FindGuest(r) \/ CallFails(r))
    BY <1>4, <2>2 DEF Step, ResolveSessionUser, CacheGet, SelectPermission, Invalidate, FindInvitee,
           InsertInvitation, FindInvitation, Activate, RemoveMember, InsertUser, InsertHome, history
  <2> QED BY <2>1, <2>2
<1> QED BY <1>1, <1>2, <1>3, <1>4 DEF Next, vars, Tick, Restart, history

LEMMA TimePasses == TInv /\ [Next]_vars => now' \in Int /\ now <= now'
<1> SUFFICES ASSUME TInv, [Next]_vars PROVE now' \in Int /\ now <= now'
  OBVIOUS
<1>1. ASSUME NEW r \in Requests, NewCall(r) PROVE UNCHANGED now
  BY <1>1, ArrivesAt
<1>2. ASSUME NEW r \in Requests, Step(r) \/ CallFails(r) PROVE UNCHANGED now
  BY <1>2 DEF Step, CallFails, ResolveSessionUser, CacheGet, SelectPermission, CachePut, CheckMember,
         WritePermission, Invalidate, FindInvitee, InsertInvitation, FindInvitation, Activate, FindGuest,
         RevokeAll, RemoveMember, InsertUser, InsertHome, DeleteUser
<1> QED BY <1>1, <1>2 DEF Next, vars, Tick, Restart, TInv, TypeOK

LEMMA StaleNext == TInv /\ StaleInv /\ [Next]_vars => StaleInv'
<1> SUFFICES ASSUME TInv, StaleInv, [Next]_vars, NEW k \in DOMAIN cache'
             PROVE  /\ cache'[k].expires <= now' + CacheTtl
                    /\ Live(k)' /\ cache'[k].held # (k \in perms') =>
                          k \in DOMAIN stale' /\ cache'[k].expires <= stale'[k] + CacheTtl
  BY DEF StaleInv
<1>0. TInv' /\ now \in Int /\ now' \in Int /\ now <= now' /\ CacheTtl \in Int
  BY TypeNext, TimePasses, AccessAssumption DEF TInv, TypeOK
<1>1. ASSUME NEW r \in Requests, CachePut(r), k = Asked(r),
             cache'[k] = [held |-> job[r].held, expires |-> now + CacheTtl]
      PROVE  /\ cache'[k].expires <= now' + CacheTtl
             /\ cache'[k].held # (k \in perms') => k \in DOMAIN stale' /\ cache'[k].expires <= stale'[k] + CacheTtl
  <2>1. cache'[k].expires = now + CacheTtl /\ cache'[k].held = job[r].held /\ perms' = perms
    BY <1>1 DEF CachePut, rows
  <2>2. job[r].held # (k \in perms) => k \in DOMAIN stale' /\ stale'[k] = now
    BY <1>1 DEF CachePut, With
  <2> QED BY <1>0, <2>1, <2>2
<1>2. ASSUME k \in DOMAIN cache, cache'[k] = cache[k], \A r \in Requests : ~(CachePut(r) /\ Asked(r) = k)
      PROVE  /\ cache'[k].expires <= now' + CacheTtl
             /\ Live(k)' /\ cache'[k].held # (k \in perms') =>
                   k \in DOMAIN stale' /\ cache'[k].expires <= stale'[k] + CacheTtl
  <2>1. cache[k].expires \in Int /\ cache[k].expires <= now + CacheTtl /\ k \in Key
    BY <1>2 DEF TInv, TypeOK, Entry, StaleInv
  <2>2. cache'[k].expires <= now' + CacheTtl
    BY <1>0, <1>2, <2>1
  <2>3. ASSUME Live(k)', cache'[k].held # (k \in perms')
        PROVE  k \in DOMAIN stale' /\ cache'[k].expires <= stale'[k] + CacheTtl
    <3>1. Live(k)
      BY <1>0, <1>2, <2>1, <2>3 DEF Live
    <3>2. CASE (k \in perms) # (k \in perms')
      BY <1>2, <2>1, <3>1, <3>2, PermChanges
    <3>3. CASE (k \in perms) = (k \in perms')
      <4>1. k \in DOMAIN stale /\ cache[k].expires <= stale[k] + CacheTtl
        BY <1>2, <2>3, <3>1, <3>3 DEF StaleInv
      <4>2. k \in DOMAIN stale' /\ stale'[k] \in {stale[k], now}
        BY <1>2, <4>1, StaleChanges
      <4> QED BY <1>2, <2>1, <4>1, <4>2
    <3> QED BY <3>2, <3>3
  <2> QED BY <2>2, <2>3
<1> QED BY <1>1, <1>2, CacheChanges

\* A wrong decision, wherever it comes from, is served for less than CacheTtl
\* after the change, or after the end of the check that had selected before it.
THEOREM StaleDecisionsExpire == Spec => []StaleDecisionExpires
<1>1. TInv /\ StaleInv => StaleDecisionExpires
  <2> SUFFICES ASSUME TInv, StaleInv, NEW k \in DOMAIN cache, Live(k), cache[k].held # (k \in perms)
               PROVE  k \in DOMAIN stale /\ now < stale[k] + CacheTtl
    BY DEF StaleDecisionExpires
  <2>1. k \in DOMAIN stale /\ cache[k].expires <= stale[k] + CacheTtl /\ now < cache[k].expires
    BY DEF StaleInv, Live, TInv, TypeOK, Entry
  <2>2. stale[k] \in Int /\ cache[k].expires \in Int /\ now \in Int /\ CacheTtl \in Int
    BY <2>1, AccessAssumption DEF TInv, TypeOK, Entry
  <2> QED BY <2>1, <2>2
<1> QED BY <1>1, TypeInit, TypeNext, CacheInit, StaleNext, PTL DEF Spec
=============================================================================
