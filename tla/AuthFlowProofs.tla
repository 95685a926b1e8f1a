--------------------------- MODULE AuthFlowProofs ---------------------------
(***************************************************************************)
(* Proofs about AuthFlow, for any accounts, tenants, calls, workloads and  *)
(* lifetimes: every code rests on a consent, on a membership, on a login   *)
(* that is recent enough and on an SSO session within its lifetime, and    *)
(* its auth_time is genuine.                                               *)
(***************************************************************************)
EXTENDS AuthFlow, FiniteSetTheorems, TLAPS

\* The calls that present a credential, and the calls on an AuthSession.
Factors == {"login", "mfa", "change", "passkey"}
OnSession == Factors \cup {"approve", "deny"}

\* Which call can be at which statement.
PlaceOK(l, j) ==
    /\ l = "sso" => j.kind \in {"authorize", "logout"}
    /\ l = "end" => j.kind = "logout"
    /\ l \in {"expire", "extend", "create"} => j.kind = "authorize"
    /\ l = "user" => j.kind \in {"authorize"} \cup Factors
    /\ l = "member" => j.kind \in {"authorize", "passkey"}
    /\ l \in {"load", "purge", "drop"} => j.kind \in OnSession
    /\ l = "setpwd" => j.kind = "login"
    /\ l = "newpwd" => j.kind = "change"
    /\ l \in {"ssonew", "setauth"} => j.kind \in Factors
    /\ l = "consent" => j.kind \in {"authorize"} \cup Factors
    /\ l = "upsert" => j.kind = "approve"
    /\ l = "issue" => j.kind \in {"authorize", "approve"} \cup Factors

\* The locals that are set at each statement.
LocalsOK(l, j) ==
    /\ l \in {"sso", "end", "expire", "extend"} => j.cookie \in Requests
    /\ l = "sso" => j.user = None /\ j.auth = None
    /\ l \in {"user", "member", "extend", "setpwd", "newpwd", "ssonew", "setauth",
                  "consent", "upsert", "issue"} => j.user \in Users
    /\ j.kind \in {"login", "passkey"} => j.user \in Users
    /\ j.kind = "authorize" => j.scope \in Scopes /\ j.prompt \in Prompts
    /\ l \in {"setpwd", "newpwd", "ssonew", "setauth", "consent", "upsert", "issue"}
          => j.scope \in Scopes
    /\ l = "user" /\ j.kind # "passkey" => j.scope \in Scopes
    /\ j.kind = "authorize" /\ l \in {"user", "member", "extend"} =>
          j.auth \in Int /\ j.cookie \in Requests
    /\ l = "create" => (j.user = None /\ j.auth = None) \/ (j.user \in Users /\ j.auth \in Int)
    /\ l \in {"consent", "upsert", "issue"} => j.auth \in Int
    /\ j.kind \in Factors /\ l \in {"consent", "issue"} => j.auth = j.time
    /\ j.kind \in Factors \ {"login"} /\ l = "ssonew" => j.auth = j.time

\* The AuthSession that a call names was created by an /authorize that answered.
OriginOK(r) ==
    LET s == job[r].sess IN
    job[r].kind \in OnSession =>
        /\ s \in Requests /\ pc[s] = "ok" /\ job[s] # None /\ job[s].kind = "authorize"
        /\ job[s].tenant = job[r].tenant /\ job[s].time <= job[r].time

CallInv == \A r \in Requests :
    /\ pc[r] = "new" <=> job[r] = None
    /\ job[r] # None => PlaceOK(pc[r], job[r]) /\ LocalsOK(pc[r], job[r]) /\ OriginOK(r) /\ job[r].time <= now

\* Rows belong to calls that got that far.
RowInv == \A r \in Requests :
    /\ sess[r] # None => pc[r] = "ok" /\ job[r].kind = "authorize"
    /\ issued[r] # None => /\ pc[r] \in {"drop"} \cup Ended /\ job[r] # None
                           /\ job[r].kind \in {"authorize"} \cup OnSession
                           /\ pc[r] = "drop" => job[r].kind # "authorize"

TInv == TypeOK /\ CallInv /\ RowInv
-----------------------------------------------------------------------------
(* The inductive invariants.                                                *)

\* A recorded consent was given, and a call about to issue has it.
GrantedTo(t, u, scope) == \A e \in scope : <<t, u, e>> \in granted

ConsentInv ==
    /\ \A t \in Tenants, u \in Users : GrantedTo(t, u, consents[<<t, u>>])
    /\ \A r \in Requests : pc[r] = "issue" => GrantedTo(job[r].tenant, job[r].user, job[r].scope)
    /\ ConsentPrecedesCode

\* The membership of a call's account has been looked at.
Vouched(l, j) ==
    \/ j.kind = "authorize" /\ l \in {"extend", "consent", "issue"}
    \/ j.kind = "authorize" /\ l = "create" /\ j.user # None
    \/ j.kind = "login"
    \/ j.kind = "passkey" /\ l \in {"load", "setauth", "ssonew", "consent", "issue"}
    \/ j.kind \in {"mfa", "change", "approve"}
       /\ l \in {"user", "newpwd", "setauth", "ssonew", "consent", "upsert", "issue"}

MemberInv ==
    /\ \A r \in Requests, u \in Users : job[r] # None /\ Member(job[r].tenant, u) => u \in joined[r]
    /\ \A s \in Requests : sess[s] # None /\ sess[s].user # None => sess[s].user \in joined[s]
    /\ \A r \in Requests : job[r] # None /\ Vouched(pc[r], job[r]) => job[r].user \in joined[Origin(r)]
    /\ CodeForMember

\* An SSO session has its absolute limit, and a call that it carries is in time.
Carried(l, j) == j.kind = "authorize" /\ l \in {"user", "member", "extend", "consent", "issue"}

ResumeInv ==
    /\ \A k \in Requests : sso[k] # None => sso[k].absolute = sso[k].auth + AbsoluteTtl
    /\ \A r \in Requests : job[r] # None /\ Carried(pc[r], job[r]) => job[r].auth + AbsoluteTtl > job[r].time
    /\ ResumeWithinLifetime

\* A login at time a satisfies what the /authorize call with locals o asked for.
Recent(o, a) ==
    /\ o.prompt = "login" => a >= o.time
    /\ o.maxAge # None => a >= o.time - o.maxAge

RecentInv ==
    /\ \A r \in Requests : job[r] # None /\ job[r].kind = "authorize" /\ job[r].prompt = "login" =>
          pc[r] \in {"create"} \cup Ended /\ job[r].user = None /\ job[r].auth = None
    /\ \A r \in Requests : /\ job[r] # None /\ job[r].kind = "authorize"
                           /\ pc[r] \in {"create", "consent", "issue"} /\ job[r].user # None
                           => Recent(job[r], job[r].auth)
    /\ \A s \in Requests : sess[s] # None /\ sess[s].auth # None => Recent(job[s], sess[s].auth)
    /\ \A r \in Requests : job[r] # None /\ job[r].kind = "approve" /\ pc[r] \in {"upsert", "issue"} =>
          Recent(job[job[r].sess], job[r].auth)
    /\ ReauthenticationHonoured

\* u completed a login at time a, or shares an AuthSession with who did.
Shared(s, u, a) == u \in seen[s] /\ \E v \in seen[s] : <<v, a>> \in proved
Genuine(s, u, a) == <<u, a>> \in proved \/ Shared(s, u, a)

\* The call's credential was checked, and everything else its account is asked for.
Completed(l, j) ==
    \/ j.kind = "passkey" /\ l \in {"member", "load"}
    \/ j.kind \in Factors /\ l \in {"newpwd", "ssonew", "setauth", "consent", "issue"}

GenuineInv ==
    /\ \A s \in Requests : IsFiniteSet(seen[s])
    /\ \A k \in Requests : sso[k] # None => <<sso[k].user, sso[k].auth>> \in proved
    /\ \A r \in Requests : job[r] # None /\ Carried(pc[r], job[r]) => <<job[r].user, job[r].auth>> \in proved
    /\ \A r \in Requests : job[r] # None /\ pc[r] = "create" /\ job[r].user # None =>
          <<job[r].user, job[r].auth>> \in proved
    /\ \A r \in Requests : job[r] # None /\ Completed(pc[r], job[r]) => <<job[r].user, job[r].time>> \in proved
    /\ \A s \in Requests : sess[s] # None =>
          /\ sess[s].user # None => sess[s].user \in seen[s]
          /\ sess[s].auth # None => \E v \in seen[s] : <<v, sess[s].auth>> \in proved
    /\ \A r \in Requests : job[r] # None /\ job[r].kind = "approve" /\ pc[r] \in {"upsert", "issue"} =>
          Shared(job[r].sess, job[r].user, job[r].auth)
    /\ \A r \in Requests : issued[r] # None => Genuine(Origin(r), issued[r].user, issued[r].auth)
-----------------------------------------------------------------------------
(* Locals and rows.                                                         *)

\* What the statements make of the locals of a call.
Timed(j, n) == [j EXCEPT !.time = n]
Resumed(j, n, u, a) == [j EXCEPT !.time = n, !.user = u, !.auth = a]
Forgetful(j) == [j EXCEPT !.user = None, !.auth = None]
Loaded(j, c, a, u) == [j EXCEPT !.scope = c, !.auth = a, !.user = u]
Logged(j, a) == [j EXCEPT !.auth = a]

\* The locals that no statement changes.
Keeps(i, j) ==
    /\ j.kind = i.kind /\ j.tenant = i.tenant /\ j.prompt = i.prompt
    /\ j.maxAge = i.maxAge /\ j.sess = i.sess /\ j.cookie = i.cookie

LEMMA TimedJob ==
    ASSUME NEW j \in Job, NEW n \in Int
    PROVE  /\ Timed(j, n) \in Job /\ Keeps(j, Timed(j, n)) /\ Timed(j, n).time = n
           /\ Timed(j, n).user = j.user /\ Timed(j, n).auth = j.auth /\ Timed(j, n).scope = j.scope
  BY DEF Job, Timed, Keeps

LEMMA ResumedJob ==
    ASSUME NEW j \in Job, NEW n \in Int, NEW u \in Users, NEW a \in Int
    PROVE  /\ Resumed(j, n, u, a) \in Job /\ Keeps(j, Resumed(j, n, u, a))
           /\ Resumed(j, n, u, a).time = n /\ Resumed(j, n, u, a).user = u
           /\ Resumed(j, n, u, a).auth = a /\ Resumed(j, n, u, a).scope = j.scope
  BY DEF Job, Resumed, Keeps

LEMMA ForgetfulJob ==
    ASSUME NEW j \in Job
    PROVE  /\ Forgetful(j) \in Job /\ Keeps(j, Forgetful(j)) /\ Forgetful(j).time = j.time
           /\ Forgetful(j).user = None /\ Forgetful(j).auth = None /\ Forgetful(j).scope = j.scope
  BY DEF Job, Forgetful, Keeps

LEMMA LoadedJob ==
    ASSUME NEW j \in Job, NEW c \in Scopes, NEW a \in Int \cup {None}, NEW u \in Users \cup {None}
    PROVE  /\ Loaded(j, c, a, u) \in Job /\ Keeps(j, Loaded(j, c, a, u))
           /\ Loaded(j, c, a, u).time = j.time /\ Loaded(j, c, a, u).user = u
           /\ Loaded(j, c, a, u).auth = a /\ Loaded(j, c, a, u).scope = c
  BY DEF Job, Loaded, Keeps

LEMMA LoadedFrom ==
    ASSUME NEW j \in Job, NEW x \in Session, NEW u \in Users \cup {None}
    PROVE  /\ Loaded(j, x.scope, x.auth, u) \in Job /\ Keeps(j, Loaded(j, x.scope, x.auth, u))
           /\ Loaded(j, x.scope, x.auth, u).time = j.time /\ Loaded(j, x.scope, x.auth, u).user = u
           /\ Loaded(j, x.scope, x.auth, u).auth = x.auth /\ Loaded(j, x.scope, x.auth, u).scope = x.scope
<1>1. PICK c \in Scopes, a \in Int \cup {None} : c = x.scope /\ a = x.auth
  BY DEF Session
<1>2. /\ Loaded(j, c, a, u) \in Job /\ Keeps(j, Loaded(j, c, a, u))
      /\ Loaded(j, c, a, u).time = j.time /\ Loaded(j, c, a, u).user = u
      /\ Loaded(j, c, a, u).auth = a /\ Loaded(j, c, a, u).scope = c
  BY LoadedJob
<1> QED BY <1>1, <1>2, Zenon

LEMMA LoggedJob ==
    ASSUME NEW j \in Job, NEW a \in Int
    PROVE  /\ Logged(j, a) \in Job /\ Keeps(j, Logged(j, a)) /\ Logged(j, a).time = j.time
           /\ Logged(j, a).user = j.user /\ Logged(j, a).auth = a /\ Logged(j, a).scope = j.scope
  BY DEF Job, Logged, Keeps

\* What the statements make of the rows of the two session tables.
Anonymous(s) == [s EXCEPT !.user = None]
Waiting(s, u) == [s EXCEPT !.user = u, !.pending = TRUE]
Carrying(s, u, a) == [s EXCEPT !.user = u, !.auth = a]
Extended(x, n) == [x EXCEPT !.idle = n]

LEMMA ChangedSession ==
    ASSUME NEW s \in Session, NEW u \in Users, NEW a \in Int
    PROVE  /\ Anonymous(s) \in Session /\ Anonymous(s).user = None /\ Anonymous(s).auth = s.auth
           /\ Waiting(s, u) \in Session /\ Waiting(s, u).user = u /\ Waiting(s, u).auth = s.auth
           /\ Carrying(s, u, a) \in Session /\ Carrying(s, u, a).user = u /\ Carrying(s, u, a).auth = a
  BY DEF Session, Anonymous, Waiting, Carrying

LEMMA ExtendedSso ==
    ASSUME NEW x \in SsoSession, NEW n \in Int
    PROVE  /\ Extended(x, n) \in SsoSession /\ Extended(x, n).user = x.user
           /\ Extended(x, n).auth = x.auth /\ Extended(x, n).absolute = x.absolute
  BY DEF SsoSession, Extended
-----------------------------------------------------------------------------
(* How a call moves.                                                        *)

\* One statement of a call: it goes on, with what it knows by then.
Moves(r, l, j) ==
    /\ l \in Pcs \ {"new"} /\ j \in Job /\ Set(r, l, j)
    /\ PlaceOK(l, j) /\ LocalsOK(l, j) /\ Keeps(job[r], j) /\ j.time <= now
    /\ j.kind # "authorize" => j.time = job[r].time

LEMMA JobOf ==
    ASSUME TInv, NEW r \in Requests, pc[r] # "new"
    PROVE  /\ job[r] \in Job /\ job[r] # None /\ PlaceOK(pc[r], job[r]) /\ LocalsOK(pc[r], job[r])
           /\ OriginOK(r) /\ job[r].time <= now /\ now \in Int /\ job[r].time \in Int
<1>1. job[r] \in Job /\ job[r] # None
  BY DEF TInv, TypeOK, CallInv
<1>2. now \in Int
  BY InputAssumption DEF TInv, TypeOK, Workload
<1> QED BY <1>1, <1>2 DEF TInv, CallInv, Job

LEMMA MoveStay ==
    ASSUME TInv, NEW r \in Requests, pc[r] # "new", NEW l \in Pcs \ {"new"},
           Goto(r, l), UNCHANGED job, PlaceOK(l, job[r]), LocalsOK(l, job[r])
    PROVE  Moves(r, l, job[r])
<1>1. job' = [job EXCEPT ![r] = job[r]]
  BY DEF TInv, TypeOK
<1> QED BY <1>1, JobOf DEF Moves, Set, Keeps

LEMMA MoveUnresumed ==
    ASSUME TInv, NEW r \in Requests, pc[r] # "new", job[r].kind = "authorize", Unresumed(r)
    PROVE  \E l \in {"create", "failed"} : Moves(r, l, Forgetful(job[r]))
<1>1. PICK l \in {"create", "failed"} : Set(r, l, Forgetful(job[r]))
  BY DEF Unresumed, NoSso, Forgetful
<1>2. PlaceOK(l, Forgetful(job[r])) /\ LocalsOK(l, Forgetful(job[r]))
  BY JobOf, ForgetfulJob DEF PlaceOK, LocalsOK, Keeps, OnSession, Factors
<1>3. Moves(r, l, Forgetful(job[r]))
  BY <1>1, <1>2, JobOf, ForgetfulJob DEF Moves, Keeps, Pcs
<1> QED BY <1>3

LEMMA MoveFindSso ==
    ASSUME TInv, NEW r \in Requests, FindSso(r)
    PROVE  \/ \E l \in {"ok", "failed", "end", "create"} : Moves(r, l, job[r])
           \/ job[r].kind = "authorize" /\ Moves(r, "expire", Timed(job[r], now))
           \/ \E k \in Requests :
                 /\ sso[k] \in SsoSession /\ SsoValidAt(sso[k], now) /\ job[r].kind = "authorize"
                 /\ Moves(r, "user", Resumed(job[r], now, sso[k].user, sso[k].auth))
<1>0. pc[r] = "sso" /\ pc[r] # "new"
  BY DEF FindSso
<1> USE <1>0, JobOf
<1>1. PICK k \in Requests : k = job[r].cookie
  BY DEF LocalsOK
<1>2. sso[k] # None => sso[k] \in SsoSession
  BY DEF TInv, TypeOK
<1>3. ASSUME sso[k] = None
      PROVE  \E l \in {"ok", "failed", "create"} : Moves(r, l, job[r])
  <2>1. PICK l \in {"ok", "failed", "create"} :
           Set(r, l, job[r]) /\ (l = "create" => job[r].kind = "authorize")
    BY <1>1, <1>3 DEF FindSso, NoSso, PlaceOK
  <2>2. PlaceOK(l, job[r]) /\ LocalsOK(l, job[r])
    BY <2>1 DEF PlaceOK, LocalsOK, OnSession, Factors
  <2> QED BY <2>1, <2>2 DEF Moves, Keeps, Pcs
<1>4. ASSUME sso[k] # None, job[r].kind = "logout"
      PROVE  Moves(r, "end", job[r])
  <2>1. Set(r, "end", job[r])
    BY <1>1, <1>4 DEF FindSso
  <2>2. PlaceOK("end", job[r]) /\ LocalsOK("end", job[r])
    BY <1>4 DEF PlaceOK, LocalsOK, OnSession, Factors
  <2> QED BY <2>1, <2>2 DEF Moves, Keeps, Pcs
<1>5. ASSUME sso[k] # None, job[r].kind # "logout", SsoValidAt(sso[k], now)
      PROVE  Moves(r, "user", Resumed(job[r], now, sso[k].user, sso[k].auth))
  <2> DEFINE j == Resumed(job[r], now, sso[k].user, sso[k].auth)
  <2>1. Set(r, "user", j)
    BY <1>1, <1>5 DEF FindSso, Resumed
  <2>2. sso[k].user \in Users /\ sso[k].auth \in Int
    BY <1>2, <1>5 DEF SsoSession
  <2>3. /\ j \in Job /\ Keeps(job[r], j) /\ j.time = now
        /\ j.user = sso[k].user /\ j.auth = sso[k].auth /\ j.scope = job[r].scope
    BY <2>2, ResumedJob
  <2>4. job[r].kind = "authorize"
    BY <1>5 DEF PlaceOK
  <2> HIDE DEF j
  <2>5. PlaceOK("user", j) /\ LocalsOK("user", j)
    BY <2>2, <2>3, <2>4 DEF PlaceOK, LocalsOK, OnSession, Factors, Keeps
  <2>6. Moves(r, "user", j)
    BY <2>1, <2>3, <2>4, <2>5 DEF Moves, Keeps, Pcs
  <2> QED BY <2>6 DEF j
<1>6. ASSUME sso[k] # None, job[r].kind # "logout", ~SsoValidAt(sso[k], now)
      PROVE  Moves(r, "expire", Timed(job[r], now))
  <2> DEFINE j == Timed(job[r], now)
  <2>1. Set(r, "expire", j)
    BY <1>1, <1>6 DEF FindSso, Timed
  <2>2. job[r].kind = "authorize"
    BY <1>6 DEF PlaceOK
  <2>3. /\ j \in Job /\ Keeps(job[r], j) /\ j.time = now /\ j.user = job[r].user
        /\ j.auth = job[r].auth /\ j.scope = job[r].scope
    BY TimedJob
  <2> HIDE DEF j
  <2>4. PlaceOK("expire", j) /\ LocalsOK("expire", j)
    BY <2>2, <2>3 DEF PlaceOK, LocalsOK, OnSession, Factors, Keeps
  <2>5. Moves(r, "expire", j)
    BY <2>1, <2>2, <2>3, <2>4 DEF Moves, Keeps, Pcs
  <2> QED BY <2>5 DEF j
<1>7. job[r].kind \in {"authorize", "logout"}
  BY DEF PlaceOK
<1> QED BY <1>2, <1>3, <1>4, <1>5, <1>6, <1>7

LEMMA MoveFindSession ==
    ASSUME TInv, NEW r \in Requests, FindSession(r)
    PROVE  /\ pc[r] = "load"
           /\ \/ \E l \in {"failed", "purge"} : Moves(r, l, job[r])
              \/ \E s \in Requests, u \in Users \cup {None} :
                    /\ s = job[r].sess /\ sess[s] \in Session /\ Admits(job[r].kind, sess[s])
                    /\ u = IF job[r].kind \in {"login", "passkey"} THEN job[r].user ELSE sess[s].user
                    /\ Moves(r, AfterLoad(job[r].kind), Loaded(job[r], sess[s].scope, sess[s].auth, u))
<1>0. pc[r] = "load" /\ pc[r] # "new"
  BY DEF FindSession
<1> USE <1>0, JobOf
<1>1. job[r].kind \in OnSession
  BY DEF PlaceOK
<1>2. PICK s \in Requests : s = job[r].sess
  BY <1>1 DEF OriginOK
<1>3. sess[s] # None => sess[s] \in Session
  BY DEF TInv, TypeOK
<1>4. ASSUME sess[s] = None \/ ExpiredAt(sess[s], job[r].time) \/ ~Admits(job[r].kind, sess[s])
      PROVE  \E l \in {"failed", "purge"} : Moves(r, l, job[r])
  <2>1. PICK l \in {"failed", "purge"} : Set(r, l, job[r])
    BY <1>2, <1>4 DEF FindSession
  <2>2. PlaceOK(l, job[r]) /\ LocalsOK(l, job[r])
    BY <1>1 DEF PlaceOK, LocalsOK, OnSession, Factors
  <2>3. Moves(r, l, job[r])
    BY <2>1, <2>2 DEF Moves, Keeps, Pcs
  <2> QED BY <2>3
<1>5. ASSUME sess[s] # None, ~ExpiredAt(sess[s], job[r].time), Admits(job[r].kind, sess[s])
      PROVE  \E u \in Users \cup {None} :
                /\ u = IF job[r].kind \in {"login", "passkey"} THEN job[r].user ELSE sess[s].user
                /\ Moves(r, AfterLoad(job[r].kind), Loaded(job[r], sess[s].scope, sess[s].auth, u))
  <2>1. sess[s].user \in Users \cup {None} /\ sess[s].scope \in Scopes /\ sess[s].auth \in Int \cup {None}
    BY <1>3, <1>5 DEF Session
  <2>2. PICK u \in Users \cup {None} :
           u = IF job[r].kind \in {"login", "passkey"} THEN job[r].user ELSE sess[s].user
    BY <2>1 DEF Job
  <2>3. PICK l : l = AfterLoad(job[r].kind)
    OBVIOUS
  <2> DEFINE j == Loaded(job[r], sess[s].scope, sess[s].auth, u)
  <2>4. Set(r, l, j)
    BY <1>2, <1>5, <2>2, <2>3 DEF FindSession, Loaded
  <2>5. /\ j \in Job /\ Keeps(job[r], j) /\ j.time = job[r].time
        /\ j.user = u /\ j.auth = sess[s].auth /\ j.scope = sess[s].scope
    <3>1. PICK c \in Scopes, a \in Int \cup {None} : c = sess[s].scope /\ a = sess[s].auth
      BY <2>1
    <3>2. job[r] \in Job /\ u \in Users \cup {None}
      OBVIOUS
    <3> QED BY ONLY <3>1, <3>2, LoadedJob
  <2> HIDE DEF j
  <2>6. /\ l \in {"upsert", "drop", "setauth", "user"}
        /\ l = "upsert" => job[r].kind = "approve"
        /\ l = "setauth" => job[r].kind = "passkey"
        /\ l = "user" => job[r].kind \in {"login", "mfa", "change"}
    BY <1>1, <2>3 DEF AfterLoad, OnSession, Factors
  <2>7. /\ job[r].kind \in {"approve", "mfa", "change"} => u \in Users
        /\ job[r].kind = "approve" => sess[s].auth \in Int
    BY <1>5, <2>1, <2>2 DEF Admits
  <2>8. job[r].kind \in {"login", "passkey"} => u \in Users
    BY <2>2 DEF LocalsOK
  <2>9. PlaceOK(l, j)
    BY <1>1, <2>5, <2>6 DEF PlaceOK, OnSession, Factors, Keeps
  <2>10. LocalsOK(l, j)
    BY <1>1, <2>1, <2>5, <2>6, <2>7, <2>8 DEF LocalsOK, OnSession, Factors, Keeps
  <2>11. Moves(r, l, j)
    BY <1>1, <2>4, <2>5, <2>6, <2>9, <2>10 DEF Moves, Keeps, Pcs
  <2> QED BY <2>2, <2>3, <2>11 DEF j
<1> QED BY <1>2, <1>3, <1>4, <1>5

LEMMA MoveSetAuthenticatedUser ==
    ASSUME TInv, NEW r \in Requests, SetAuthenticatedUser(r)
    PROVE  \E l \in {"failed", "consent", "ssonew"} :
              /\ pc[r] = "setauth" /\ job[r].kind \in Factors
              /\ Moves(r, l, Logged(job[r], job[r].time))
<1>0. pc[r] = "setauth" /\ pc[r] # "new"
  BY DEF SetAuthenticatedUser
<1> USE <1>0, JobOf
<1> DEFINE j == Logged(job[r], job[r].time)
<1>1. PICK l \in {"failed", "consent", "ssonew"} : Set(r, l, j)
  BY DEF SetAuthenticatedUser, Set, Logged
<1>2. job[r].kind \in Factors
  BY DEF PlaceOK
<1>3. /\ j \in Job /\ Keeps(job[r], j) /\ j.time = job[r].time
      /\ j.user = job[r].user /\ j.auth = job[r].time /\ j.scope = job[r].scope
  BY LoggedJob
<1> HIDE DEF j
<1>4. PlaceOK(l, j) /\ LocalsOK(l, j)
  BY <1>2, <1>3 DEF PlaceOK, LocalsOK, OnSession, Factors, Keeps
<1>5. Moves(r, l, j)
  BY <1>1, <1>2, <1>3, <1>4 DEF Moves, Keeps, Pcs
<1> QED BY <1>2, <1>5 DEF j

\* The other statements leave the locals as they are, or forget the account of
\* an SSO session that does not carry the call.
Forgets(r) == job[r].kind = "authorize" /\ \E l \in {"create", "failed"} : Moves(r, l, Forgetful(job[r]))

LEMMA MoveEnds ==
    ASSUME TInv, NEW r \in Requests,
           CreateSession(r) \/ DropSession(r) \/ SetPasswordVerified(r) \/ CallFails(r)
    PROVE  \E l \in Ended : Moves(r, l, job[r])
<1>1. pc[r] # "new"
  BY DEF CreateSession, DropSession, SetPasswordVerified, CallFails
<1>2. PICK l \in Ended : Goto(r, l) /\ UNCHANGED job
  BY DEF CreateSession, DropSession, SetPasswordVerified, CallFails, Ended
<1>3. PlaceOK(l, job[r]) /\ LocalsOK(l, job[r])
  BY <1>1, JobOf DEF PlaceOK, LocalsOK, Ended
<1> QED BY <1>1, <1>2, <1>3, MoveStay DEF Ended, Pcs

LEMMA MoveDeleteSso ==
    ASSUME TInv, NEW r \in Requests, DeleteSso(r)
    PROVE  \/ pc[r] = "end" /\ Moves(r, "ok", job[r])
           \/ pc[r] = "expire" /\ Forgets(r)
<1>0. pc[r] \in {"end", "expire"} /\ pc[r] # "new"
  BY DEF DeleteSso
<1>1. CASE pc[r] = "end"
  <2>1. PlaceOK("ok", job[r]) /\ LocalsOK("ok", job[r])
    BY <1>0, JobOf DEF PlaceOK, LocalsOK
  <2> QED BY <1>1, <2>1, MoveStay DEF DeleteSso, Pcs
<1>2. CASE pc[r] = "expire"
  <2>1. job[r].kind = "authorize" /\ Unresumed(r)
    BY <1>0, <1>2, JobOf DEF PlaceOK, DeleteSso
  <2> QED BY <1>0, <1>2, <2>1, MoveUnresumed DEF Forgets
<1> QED BY <1>0, <1>1, <1>2

LEMMA MoveCheckMember ==
    ASSUME TInv, NEW r \in Requests, CheckMember(r)
    PROVE  /\ pc[r] = "member"
           /\ \/ Forgets(r)
              \/ Moves(r, "failed", job[r])
              \/ /\ Member(job[r].tenant, job[r].user)
                 /\ \/ job[r].kind = "passkey" /\ Moves(r, "load", job[r])
                    \/ job[r].kind = "authorize" /\ Moves(r, "extend", job[r])
<1>0. pc[r] = "member" /\ pc[r] # "new" /\ job[r].kind \in {"authorize", "passkey"}
  <2>1. pc[r] = "member" /\ pc[r] # "new"
    BY DEF CheckMember
  <2> QED BY <2>1, JobOf DEF PlaceOK
<1>1. CASE Unresumed(r) /\ job[r].kind = "authorize"
  BY <1>0, <1>1, MoveUnresumed DEF Forgets
<1>2. CASE Goto(r, "failed") /\ UNCHANGED job
  <2>1. PlaceOK("failed", job[r]) /\ LocalsOK("failed", job[r])
    BY <1>0, JobOf DEF PlaceOK, LocalsOK
  <2> QED BY <1>0, <1>2, <2>1, MoveStay DEF Pcs
<1>3. ASSUME NEW l \in {"load", "extend"}, Goto(r, l), UNCHANGED job,
             IsActiveMember(job[r].tenant, job[r].user),
             l = IF job[r].kind = "passkey" THEN "load" ELSE "extend"
      PROVE  /\ Member(job[r].tenant, job[r].user) /\ Moves(r, l, job[r])
             /\ \/ job[r].kind = "passkey" /\ l = "load"
                \/ job[r].kind = "authorize" /\ l = "extend"
  <2>1. job[r].cookie \in Requests \/ l # "extend"
    BY <1>0, <1>3, JobOf DEF LocalsOK
  <2>2. PlaceOK(l, job[r]) /\ LocalsOK(l, job[r])
    BY <1>0, <1>3, <2>1, JobOf DEF PlaceOK, LocalsOK, OnSession, Factors
  <2> QED BY <1>0, <1>3, <2>2, MoveStay DEF Pcs, IsActiveMember
<1> QED BY <1>0, <1>1, <1>2, <1>3 DEF CheckMember

LEMMA MoveExtendIdle ==
    ASSUME TInv, NEW r \in Requests, ExtendIdle(r)
    PROVE  /\ pc[r] = "extend" /\ job[r].kind = "authorize"
           /\ \/ Forgets(r)
              \/ ~TooOld(job[r].auth, job[r].maxAge) /\ \E l \in {"create", "consent"} : Moves(r, l, job[r])
<1>0. pc[r] = "extend" /\ pc[r] # "new" /\ job[r].kind = "authorize"
  <2>1. pc[r] = "extend" /\ pc[r] # "new"
    BY DEF ExtendIdle
  <2> QED BY <2>1, JobOf DEF PlaceOK
<1>1. CASE Unresumed(r)
  BY <1>0, <1>1, MoveUnresumed DEF Forgets
<1>2. ASSUME NEW l \in {"create", "consent"}, Goto(r, l), UNCHANGED job
      PROVE  Moves(r, l, job[r])
  <2>1. PlaceOK(l, job[r]) /\ LocalsOK(l, job[r])
    BY <1>0, JobOf DEF PlaceOK, LocalsOK, Factors
  <2> QED BY <1>0, <1>2, <2>1, MoveStay DEF Pcs
<1> QED BY <1>0, <1>1, <1>2 DEF ExtendIdle

LEMMA MoveCheckUser ==
    ASSUME TInv, NEW r \in Requests, CheckUser(r)
    PROVE  /\ pc[r] = "user"
           /\ \/ Forgets(r) /\ proved' = proved
              \/ \E l \in {"member", "setpwd", "ssonew", "setauth", "newpwd", "failed"} :
                    /\ Moves(r, l, job[r])
                    /\ IF l \in {"setpwd", "failed"} \/ job[r].kind = "authorize" THEN proved' = proved
                       ELSE proved' = proved \cup {<<job[r].user, job[r].time>>}
                    /\ l \in {"newpwd", "setauth"} => job[r].kind \in {"mfa", "change"}
<1>0. /\ pc[r] = "user" /\ pc[r] # "new" /\ job[r].kind \in {"authorize"} \cup Factors
  <2>1. pc[r] = "user" /\ pc[r] # "new"
    BY DEF CheckUser
  <2> QED BY <2>1, JobOf DEF PlaceOK
<1>1. CASE users[job[r].user].status # "ACTIVE"
  <2>1. CASE job[r].kind = "authorize"
    BY <1>0, <1>1, <2>1, MoveUnresumed DEF Forgets, CheckUser
  <2>2. CASE job[r].kind # "authorize"
    <3>1. Goto(r, "failed") /\ UNCHANGED job /\ proved' = proved
      BY <1>1, <2>2 DEF CheckUser
    <3>2. PlaceOK("failed", job[r]) /\ LocalsOK("failed", job[r])
      BY <1>0, JobOf DEF PlaceOK, LocalsOK
    <3>3. Moves(r, "failed", job[r])
      BY <1>0, <3>1, <3>2, MoveStay DEF Pcs
    <3> QED BY <1>0, <3>1, <3>3
  <2> QED BY <2>1, <2>2
<1>2. CASE users[job[r].user].status = "ACTIVE"
  <2>1. PICK l \in {"member", "setpwd", "ssonew", "setauth", "newpwd", "failed"} :
           /\ Goto(r, l) /\ UNCHANGED job
           /\ l = "member" => job[r].kind \in {"authorize", "passkey"}
           /\ l \in {"setpwd", "ssonew"} => job[r].kind = "login"
           /\ l = "setauth" => job[r].kind = "mfa"
           /\ l = "newpwd" => job[r].kind = "change"
           /\ IF l \in {"setpwd", "failed"} \/ job[r].kind = "authorize" THEN proved' = proved
              ELSE proved' = proved \cup {<<job[r].user, job[r].time>>}
    <3>1. CASE job[r].kind \in {"authorize", "passkey"}
      BY <1>2, <3>1 DEF CheckUser
    <3>2. CASE job[r].kind = "login"
      BY <1>2, <3>2 DEF CheckUser, AfterPassword
    <3>3. CASE job[r].kind = "mfa"
      BY <1>2, <3>3 DEF CheckUser
    <3>4. CASE job[r].kind = "change"
      BY <1>2, <3>4 DEF CheckUser
    <3> QED BY <1>0, <3>1, <3>2, <3>3, <3>4 DEF Factors
  <2>2. PlaceOK(l, job[r]) /\ LocalsOK(l, job[r])
    BY <1>0, <2>1, JobOf DEF PlaceOK, LocalsOK, OnSession, Factors
  <2>3. Moves(r, l, job[r])
    BY <1>0, <2>1, <2>2, MoveStay DEF Pcs
  <2> QED BY <1>0, <2>1, <2>3
<1> QED BY <1>1, <1>2

LEMMA MoveUpdatePassword ==
    ASSUME TInv, NEW r \in Requests, UpdatePassword(r)
    PROVE  pc[r] = "newpwd" /\ Moves(r, "setauth", job[r])
<1>0. pc[r] = "newpwd" /\ pc[r] # "new" /\ Goto(r, "setauth") /\ UNCHANGED job
  BY DEF UpdatePassword
<1>1. PlaceOK("setauth", job[r]) /\ LocalsOK("setauth", job[r])
  BY <1>0, JobOf DEF PlaceOK, LocalsOK, OnSession, Factors
<1> QED BY <1>0, <1>1, MoveStay DEF Pcs

LEMMA MoveCreateSso ==
    ASSUME TInv, NEW r \in Requests, CreateSso(r)
    PROVE  pc[r] = "ssonew" /\ \E l \in {"failed", "setauth", "consent"} : Moves(r, l, job[r])
<1>0. pc[r] = "ssonew" /\ pc[r] # "new"
  BY DEF CreateSso
<1>1. PICK l \in {"failed", "setauth", "consent"} :
         Goto(r, l) /\ UNCHANGED job /\ (l = "consent" => job[r].kind # "login")
  BY DEF CreateSso
<1>2. PlaceOK(l, job[r]) /\ LocalsOK(l, job[r])
  BY <1>0, <1>1, JobOf DEF PlaceOK, LocalsOK, OnSession, Factors
<1> QED BY <1>0, <1>1, <1>2, MoveStay DEF Pcs

LEMMA MoveCheckConsent ==
    ASSUME TInv, NEW r \in Requests, CheckConsent(r)
    PROVE  /\ pc[r] = "consent"
           /\ \E l \in {"issue", "create", "failed", "ok"} :
                 /\ Moves(r, l, job[r])
                 /\ l = "issue" => Consented(job[r].tenant, job[r].user, job[r].scope)
<1>0. pc[r] = "consent" /\ pc[r] # "new"
  BY DEF CheckConsent
<1>1. PICK l \in {"issue", "create", "failed", "ok"} :
         /\ Goto(r, l) /\ UNCHANGED job /\ (l = "create" => job[r].kind = "authorize")
         /\ l = "issue" => Consented(job[r].tenant, job[r].user, job[r].scope)
  BY DEF CheckConsent, NoSso
<1>2. PlaceOK(l, job[r]) /\ LocalsOK(l, job[r])
  BY <1>0, <1>1, JobOf DEF PlaceOK, LocalsOK, OnSession, Factors
<1> QED BY <1>0, <1>1, <1>2, MoveStay DEF Pcs

LEMMA MoveUpsertConsent ==
    ASSUME TInv, NEW r \in Requests, UpsertConsent(r)
    PROVE  /\ pc[r] = "upsert" /\ job[r].kind = "approve"
           /\ \E l \in {"issue", "failed"} : Moves(r, l, job[r])
<1>0. pc[r] = "upsert" /\ pc[r] # "new"
  BY DEF UpsertConsent
<1>1. PICK l \in {"issue", "failed"} : Goto(r, l) /\ UNCHANGED job
  BY DEF UpsertConsent
<1>2. PlaceOK(l, job[r]) /\ LocalsOK(l, job[r]) /\ job[r].kind = "approve"
  BY <1>0, <1>1, JobOf DEF PlaceOK, LocalsOK, OnSession, Factors
<1> QED BY <1>0, <1>1, <1>2, MoveStay DEF Pcs

LEMMA MoveIssueCode ==
    ASSUME TInv, NEW r \in Requests, IssueCode(r)
    PROVE  /\ pc[r] = "issue" /\ job[r].kind \in {"authorize"} \cup OnSession
           /\ \E l \in {"drop", "ok", "failed"} :
                 Moves(r, l, job[r]) /\ (l = "drop" => job[r].kind # "authorize")
<1>0. pc[r] = "issue" /\ pc[r] # "new"
  BY DEF IssueCode
<1>1. PICK l \in {"drop", "ok", "failed"} :
         Goto(r, l) /\ UNCHANGED job /\ (l = "drop" => job[r].kind # "authorize")
  BY DEF IssueCode
<1>2. PlaceOK(l, job[r]) /\ LocalsOK(l, job[r]) /\ job[r].kind \in {"authorize"} \cup OnSession
  BY <1>0, <1>1, JobOf DEF PlaceOK, LocalsOK, OnSession, Factors
<1> QED BY <1>0, <1>1, <1>2, MoveStay DEF Pcs

LEMMA MoveFallBack ==
    ASSUME TInv, NEW r \in Requests, FallBack(r)
    PROVE  /\ pc[r] \notin Ended \cup {"new"} /\ job[r].kind = "authorize"
           /\ \/ Forgets(r)
              \/ pc[r] = "consent" /\ \E l \in {"create", "failed"} : Moves(r, l, job[r])
<1>0. pc[r] \notin Ended \cup {"new"} /\ job[r].kind = "authorize"
  BY DEF FallBack, Ended
<1>1. CASE Unresumed(r)
  BY <1>0, <1>1, MoveUnresumed DEF Forgets
<1>2. CASE pc[r] = "consent" /\ Goto(r, NoSso(job[r].prompt)) /\ UNCHANGED job
  <2>1. PICK l \in {"create", "failed"} : Goto(r, l)
    BY <1>2 DEF NoSso
  <2>2. PlaceOK(l, job[r]) /\ LocalsOK(l, job[r])
    BY <1>0, <1>2, JobOf DEF PlaceOK, LocalsOK, OnSession, Factors
  <2>3. Moves(r, l, job[r])
    BY <1>0, <1>2, <2>1, <2>2, MoveStay DEF Pcs
  <2> QED BY <1>0, <1>2, <2>3
<1> QED BY <1>0, <1>1, <1>2 DEF FallBack

\* Every statement of a call moves it on, and no call that has ended moves.
LEMMA StepMoves ==
    ASSUME TInv, NEW r \in Requests, Step(r) \/ FallBack(r) \/ CallFails(r)
    PROVE  pc[r] \notin Ended \cup {"new"} /\ \E l, j : Moves(r, l, j)
<1>1. pc[r] \notin Ended \cup {"new"}
  BY DEF Step, FallBack, CallFails, Ended, FindSso, DeleteSso, CheckMember, ExtendIdle, CreateSession,
         FindSession, DropSession, CheckUser, SetPasswordVerified, UpdatePassword, SetAuthenticatedUser,
         CreateSso, CheckConsent, UpsertConsent, IssueCode
<1>2. CASE FindSso(r)
  BY <1>1, <1>2, MoveFindSso
<1>3. CASE FindSession(r)
  BY <1>1, <1>3, MoveFindSession
<1>4. CASE DeleteSso(r) \/ CheckMember(r) \/ ExtendIdle(r)
  BY <1>1, <1>4, MoveDeleteSso, MoveCheckMember, MoveExtendIdle DEF Forgets
<1>5. CASE CheckUser(r) \/ FallBack(r)
  BY <1>1, <1>5, MoveCheckUser, MoveFallBack DEF Forgets
<1>6. CASE CreateSession(r) \/ DropSession(r) \/ SetPasswordVerified(r) \/ CallFails(r)
  BY <1>1, <1>6, MoveEnds
<1>7. CASE SetAuthenticatedUser(r) \/ UpdatePassword(r) \/ CreateSso(r)
  BY <1>1, <1>7, MoveSetAuthenticatedUser, MoveUpdatePassword, MoveCreateSso
<1>8. CASE CheckConsent(r) \/ UpsertConsent(r) \/ IssueCode(r)
  BY <1>1, <1>8, MoveCheckConsent, MoveUpsertConsent, MoveIssueCode
<1> QED BY <1>1, <1>2, <1>3, <1>4, <1>5, <1>6, <1>7, <1>8 DEF Step

\* The first statement of a call, and what it brings along.
Starts(r, l, j) ==
    /\ l \in {"sso", "create", "failed", "load", "user"} /\ j \in Job /\ Begin(r, l, j)
    /\ pc[r] = "new" /\ PlaceOK(l, j) /\ LocalsOK(l, j) /\ j.time = now
    /\ j.kind \in OnSession => /\ j.sess \in Requests /\ HasSession(j.sess)
                              /\ j.tenant = job[j.sess].tenant
    /\ j.kind = "login" => Home[j.user] = j.tenant /\ l = "load"
    /\ j.kind = "authorize" => j.user = None /\ j.auth = None /\ l \in {"sso", "create", "failed"}
    /\ j.kind = "authorize" /\ j.prompt = "login" => l = "create"
    /\ l = "user" => j.kind = "passkey"
    /\ l = "load" => j.kind # "passkey"

LEMMA LoadOK ==
    ASSUME TInv
    PROVE  /\ load.tenants \subseteq Tenants /\ load.scopes \subseteq Scopes /\ load.users \subseteq Users
           /\ load.prompts \subseteq Prompts /\ load.maxAges \subseteq Nat \cup {None} /\ load.until \in Nat
<1>1. load \in Workloads /\ load \in Workload
  BY InputAssumption DEF TInv, TypeOK
<1>2. load.scopes \subseteq Scopes
  BY <1>1 DEF Scopes
<1> QED BY <1>1, <1>2 DEF Workload

LEMMA ArrivalStarts ==
    ASSUME TInv, NEW r \in Requests, Arrival(r)
    PROVE  \E l, j : Starts(r, l, j)
<1>0. pc[r] = "new" /\ now \in Int
  BY LoadOK DEF Arrival, TInv, TypeOK
<1>1. ASSUME NEW t \in Tenants, NEW s \in Scopes, NEW p \in Prompts, NEW a \in Nat \cup {None},
             NEW k \in Requests \cup {None}, Authorize(r, t, s, p, a, k)
      PROVE  \E l, j : Starts(r, l, j)
  <2> DEFINE j == [Fresh("authorize", t) EXCEPT !.scope = s, !.prompt = p, !.maxAge = a, !.cookie = k]
  <2>1. PICK l \in {"sso", "create", "failed"} :
           /\ Begin(r, l, j) /\ (l = "sso" => p # "login" /\ k # None)
           /\ p = "login" => l = "create"
    BY <1>1 DEF Authorize, SsoWanted, NoSso
  <2>2. /\ j \in Job /\ j.kind = "authorize" /\ j.time = now /\ j.user = None /\ j.auth = None
        /\ j.scope = s /\ j.prompt = p /\ j.cookie = k
    BY <1>0 DEF Fresh, Job, Kinds
  <2> HIDE DEF j
  <2>3. PlaceOK(l, j) /\ LocalsOK(l, j)
    BY <2>1, <2>2 DEF PlaceOK, LocalsOK, Factors, OnSession
  <2>4. Starts(r, l, j)
    BY <1>0, <2>1, <2>2, <2>3 DEF Starts, Factors, OnSession
  <2> QED BY <2>4
<1>2. ASSUME NEW s \in Requests, NEW u \in Users, Login(r, s, u)
      PROVE  \E l, j : Starts(r, l, j)
  <2>0. HasSession(s) /\ job[s].tenant \in Tenants /\ Home[u] = job[s].tenant
    BY <1>2, JobOf DEF Login, HasSession, Job
  <2> DEFINE j == [Fresh("login", job[s].tenant) EXCEPT !.sess = s, !.user = u]
  <2>1. Begin(r, "load", j)
    BY <1>2 DEF Login
  <2>2. /\ j \in Job /\ j.kind = "login" /\ j.time = now /\ j.user = u /\ j.sess = s
        /\ j.tenant = job[s].tenant
    BY <1>0, <2>0 DEF Fresh, Job, Kinds
  <2> HIDE DEF j
  <2>3. PlaceOK("load", j) /\ LocalsOK("load", j)
    BY <2>2 DEF PlaceOK, LocalsOK, Factors, OnSession
  <2>4. Starts(r, "load", j)
    BY <1>0, <2>0, <2>1, <2>2, <2>3 DEF Starts, Factors, OnSession
  <2> QED BY <2>4
<1>3. ASSUME NEW s \in Requests, NEW u \in Users, Passkey(r, s, u)
      PROVE  \E l, j : Starts(r, l, j)
  <2>0. HasSession(s) /\ job[s].tenant \in Tenants
    BY <1>3, JobOf DEF Passkey, HasSession, Job
  <2> DEFINE j == [Fresh("passkey", job[s].tenant) EXCEPT !.sess = s, !.user = u]
  <2>1. Begin(r, "user", j)
    BY <1>3 DEF Passkey
  <2>2. /\ j \in Job /\ j.kind = "passkey" /\ j.time = now /\ j.user = u /\ j.sess = s
        /\ j.tenant = job[s].tenant
    BY <1>0, <2>0 DEF Fresh, Job, Kinds
  <2> HIDE DEF j
  <2>3. PlaceOK("user", j) /\ LocalsOK("user", j)
    BY <2>2 DEF PlaceOK, LocalsOK, Factors, OnSession
  <2>4. Starts(r, "user", j)
    BY <1>0, <2>0, <2>1, <2>2, <2>3 DEF Starts, Factors, OnSession
  <2> QED BY <2>4
<1>4. ASSUME NEW s \in Requests, NEW k \in Kinds, SessionCall(r, k, s)
      PROVE  \E l, j : Starts(r, l, j)
  <2>0. HasSession(s) /\ job[s].tenant \in Tenants /\ k \in {"mfa", "change", "approve", "deny"}
    BY <1>4, JobOf DEF SessionCall, HasSession, Job
  <2> DEFINE j == [Fresh(k, job[s].tenant) EXCEPT !.sess = s]
  <2>1. Begin(r, "load", j)
    BY <1>4 DEF SessionCall
  <2>2. /\ j \in Job /\ j.kind = k /\ j.time = now /\ j.user = None /\ j.sess = s
        /\ j.tenant = job[s].tenant
    BY <1>0, <2>0 DEF Fresh, Job, Kinds
  <2> HIDE DEF j
  <2>3. PlaceOK("load", j) /\ LocalsOK("load", j)
    BY <2>0, <2>2 DEF PlaceOK, LocalsOK, Factors, OnSession
  <2>4. Starts(r, "load", j)
    BY <1>0, <2>0, <2>1, <2>2, <2>3 DEF Starts, Factors, OnSession
  <2> QED BY <2>4
<1>5. ASSUME NEW t \in Tenants, NEW k \in Requests, Logout(r, t, k)
      PROVE  \E l, j : Starts(r, l, j)
  <2> DEFINE j == [Fresh("logout", t) EXCEPT !.cookie = k]
  <2>1. Begin(r, "sso", j)
    BY <1>5 DEF Logout
  <2>2. /\ j \in Job /\ j.kind = "logout" /\ j.time = now /\ j.cookie = k
        /\ j.user = None /\ j.auth = None
    BY <1>0 DEF Fresh, Job, Kinds
  <2> HIDE DEF j
  <2>3. PlaceOK("sso", j) /\ LocalsOK("sso", j)
    BY <2>2 DEF PlaceOK, LocalsOK, Factors, OnSession
  <2>4. Starts(r, "sso", j)
    BY <1>0, <2>1, <2>2, <2>3 DEF Starts, Factors, OnSession
  <2> QED BY <2>4
<1> QED BY <1>1, <1>2, <1>3, <1>4, <1>5, LoadOK DEF Arrival
-----------------------------------------------------------------------------
(* What a statement does to the tables.                                     *)

\* auth_sessions, and who was ever named in them
SessionsStep(r) ==
    LET s == job[r].sess
        u == job[r].user IN
    \/ sess' = sess /\ seen' = seen
    \/ /\ pc[r] \in {"purge", "drop"} /\ s \in Requests
       /\ sess' = [sess EXCEPT ![s] = None] /\ seen' = seen
    \/ /\ pc[r] = "create" /\ pc'[r] = "ok" /\ job' = job
       /\ \E x \in Session : x.user = u /\ x.auth = job[r].auth /\ sess' = [sess EXCEPT ![r] = x]
       /\ seen' = [seen EXCEPT ![r] = IF u = None THEN {} ELSE {u}]
    \/ /\ pc[r] = "setpwd" /\ s \in Requests /\ sess[s] \in Session
       /\ sess' = [sess EXCEPT ![s] = Waiting(sess[s], u)]
       /\ seen' = [seen EXCEPT ![s] = seen[s] \cup {u}]
    \/ /\ pc[r] = "setauth" /\ s \in Requests /\ sess[s] \in Session
       /\ sess' = [sess EXCEPT ![s] = Carrying(sess[s], u, job[r].time)]
       /\ seen' = [seen EXCEPT ![s] = seen[s] \cup {u}]

LEMMA SessionRows ==
    ASSUME TInv, NEW r \in Requests, Step(r) \/ FallBack(r) \/ CallFails(r)
    PROVE  SessionsStep(r)
<1>0. pc[r] # "new"
  BY StepMoves
<1> USE <1>0, JobOf
<1>1. CASE CreateSession(r)
  <2>1. CASE UNCHANGED <<sess, seen>>
    BY <2>1 DEF SessionsStep
  <2>2. CASE ~UNCHANGED <<sess, seen>>
    <3> DEFINE x == [tenant |-> job[r].tenant, scope |-> job[r].scope, user |-> job[r].user,
                     auth |-> job[r].auth, pending |-> FALSE, expires |-> now + SessionTtl]
    <3>1. /\ sess' = [sess EXCEPT ![r] = x] /\ pc[r] = "create" /\ Goto(r, "ok") /\ job' = job
          /\ seen' = [seen EXCEPT ![r] = IF job[r].user = None THEN {} ELSE {job[r].user}]
      BY <1>1, <2>2 DEF CreateSession
    <3>2. job[r].kind = "authorize" /\ job[r].scope \in Scopes
      BY <3>1 DEF PlaceOK, LocalsOK
    <3>3. x \in Session
      BY <3>2, TtlAssumption DEF Session, Job
    <3>4. x.user = job[r].user /\ x.auth = job[r].auth
      OBVIOUS
    <3>5. pc'[r] = "ok"
      BY <3>1 DEF Goto, TInv, TypeOK
    <3> HIDE DEF x
    <3> QED BY <3>1, <3>3, <3>4, <3>5 DEF SessionsStep
  <2> QED BY <2>1, <2>2
<1>2. CASE DropSession(r)
  <2>1. pc[r] \in {"purge", "drop"} /\ seen' = seen
    BY <1>2 DEF DropSession, history
  <2>2. job[r].sess \in Requests
    BY <2>1 DEF PlaceOK, OriginOK
  <2> QED BY <1>2, <2>1, <2>2 DEF DropSession, DeleteSession, SessionsStep
<1>3. CASE SetPasswordVerified(r)
  <2>1. pc[r] = "setpwd" /\ job[r].sess \in Requests
    BY <1>3 DEF SetPasswordVerified, PlaceOK, OriginOK, OnSession, Factors
  <2>2. sess[job[r].sess] # None => sess[job[r].sess] \in Session
    BY <2>1 DEF TInv, TypeOK
  <2> QED BY <1>3, <2>1, <2>2 DEF SetPasswordVerified, SessionsStep, PasswordVerified, Waiting
<1>4. CASE SetAuthenticatedUser(r)
  <2>1. pc[r] = "setauth" /\ job[r].sess \in Requests
    BY <1>4 DEF SetAuthenticatedUser, PlaceOK, OriginOK, OnSession, Factors
  <2>2. sess[job[r].sess] # None => sess[job[r].sess] \in Session
    BY <2>1 DEF TInv, TypeOK
  <2> QED BY <1>4, <2>1, <2>2 DEF SetAuthenticatedUser, SessionsStep, Carrying
<1>5. CASE ~(CreateSession(r) \/ DropSession(r) \/ SetPasswordVerified(r) \/ SetAuthenticatedUser(r))
  <2>1. sess' = sess /\ seen' = seen
    BY <1>5 DEF Step, FindSso, DeleteSso, CheckMember, ExtendIdle, FindSession, CheckUser, UpdatePassword,
           CreateSso, CheckConsent, UpsertConsent, IssueCode, FallBack, CallFails, rows, history
  <2> QED BY <2>1 DEF SessionsStep
<1> QED BY <1>1, <1>2, <1>3, <1>4, <1>5

\* sso_sessions
SsoStep(r) ==
    \/ sso' = sso
    \/ \E k \in Requests : sso' = [sso EXCEPT ![k] = None]
    \/ \E k \in Requests, n \in Int : sso[k] \in SsoSession /\ sso' = [sso EXCEPT ![k] = Extended(sso[k], n)]
    \/ /\ pc[r] = "ssonew" /\ job' = job
       /\ \E x \in SsoSession : /\ x.user = job[r].user /\ x.auth = job[r].time
                                /\ x.absolute = x.auth + AbsoluteTtl
                                /\ sso' = [sso EXCEPT ![r] = x]

LEMMA SsoRows ==
    ASSUME TInv, NEW r \in Requests, Step(r) \/ FallBack(r) \/ CallFails(r)
    PROVE  SsoStep(r)
<1>0. pc[r] # "new"
  BY StepMoves
<1> USE <1>0, JobOf
<1>1. CASE DeleteSso(r)
  BY <1>1 DEF DeleteSso, LocalsOK, SsoStep
<1>2. CASE ExtendIdle(r)
  <2>1. pc[r] = "extend" /\ job[r].cookie \in Requests
    BY <1>2 DEF ExtendIdle, LocalsOK
  <2>a. job[r].time + IdleTtl \in Int
    BY TtlAssumption
  <2>2. PICK k \in Requests, n \in Int : k = job[r].cookie /\ n = job[r].time + IdleTtl
    BY <2>1, <2>a, Zenon
  <2>3. sso' = [sso EXCEPT ![k] = IF sso[k] = None THEN sso[k] ELSE Extended(sso[k], n)]
    BY <1>2, <2>2 DEF ExtendIdle, Extended
  <2>4. CASE sso[k] = None
    <3>1. sso' = sso
      BY <2>3, <2>4 DEF TInv, TypeOK
    <3> QED BY <3>1 DEF SsoStep
  <2>5. CASE sso[k] # None
    <3>1. sso[k] \in SsoSession
      BY <2>5 DEF TInv, TypeOK
    <3> QED BY <2>3, <2>5, <3>1 DEF SsoStep
  <2> QED BY <2>4, <2>5
<1>3. CASE CreateSso(r)
  <2>1. CASE sso' = sso
    BY <2>1 DEF SsoStep
  <2>2. CASE sso' # sso
    <3> DEFINE x == [user |-> job[r].user, auth |-> job[r].time,
                     idle |-> job[r].time + IdleTtl, absolute |-> job[r].time + AbsoluteTtl]
    <3>1. sso' = [sso EXCEPT ![r] = x] /\ pc[r] = "ssonew" /\ job' = job
      BY <1>3, <2>2 DEF CreateSso
    <3>2. x \in SsoSession
      BY <3>1, TtlAssumption DEF SsoSession, LocalsOK
    <3>3. x.user = job[r].user /\ x.auth = job[r].time /\ x.absolute = x.auth + AbsoluteTtl
      OBVIOUS
    <3> HIDE DEF x
    <3> QED BY <3>1, <3>2, <3>3 DEF SsoStep
  <2> QED BY <2>1, <2>2
<1>4. CASE ~(DeleteSso(r) \/ ExtendIdle(r) \/ CreateSso(r))
  <2>1. sso' = sso
    BY <1>4 DEF Step, FindSso, CheckMember, CreateSession, FindSession, DropSession, CheckUser,
           SetPasswordVerified, UpdatePassword, SetAuthenticatedUser, CheckConsent, UpsertConsent,
           IssueCode, FallBack, CallFails, rows
  <2> QED BY <2>1 DEF SsoStep
<1> QED BY <1>1, <1>2, <1>3, <1>4

\* authorization_codes
CodesStep(r) ==
    \/ issued' = issued
    \/ /\ pc[r] = "issue" /\ pc'[r] \in {"ok", "drop"} /\ job' = job
       /\ pc'[r] = "drop" => job[r].kind # "authorize"
       /\ \E x \in Issued : /\ x.user = job[r].user /\ x.tenant = job[r].tenant
                            /\ x.scope = job[r].scope /\ x.auth = job[r].auth
                            /\ issued' = [issued EXCEPT ![r] = x]

LEMMA CodeRows ==
    ASSUME TInv, NEW r \in Requests, Step(r) \/ FallBack(r) \/ CallFails(r)
    PROVE  CodesStep(r)
<1>0. pc[r] # "new"
  BY StepMoves
<1> USE <1>0, JobOf
<1>1. CASE IssueCode(r)
  <2>1. CASE issued' = issued
    BY <2>1 DEF CodesStep
  <2>2. CASE issued' # issued
    <3> DEFINE x == [user |-> job[r].user, tenant |-> job[r].tenant, scope |-> job[r].scope,
                     auth |-> job[r].auth]
    <3>1. /\ issued' = [issued EXCEPT ![r] = x] /\ pc[r] = "issue" /\ job' = job
          /\ Goto(r, IF job[r].kind = "authorize" THEN "ok" ELSE "drop")
      BY <1>1, <2>2 DEF IssueCode
    <3>2. x \in Issued
      BY <3>1 DEF Issued, LocalsOK, Job
    <3>3. /\ x.user = job[r].user /\ x.tenant = job[r].tenant
          /\ x.scope = job[r].scope /\ x.auth = job[r].auth
      OBVIOUS
    <3>4. pc'[r] = IF job[r].kind = "authorize" THEN "ok" ELSE "drop"
      BY <3>1 DEF Goto, TInv, TypeOK
    <3> HIDE DEF x
    <3> QED BY <3>1, <3>2, <3>3, <3>4 DEF CodesStep
  <2> QED BY <2>1, <2>2
<1>2. CASE ~IssueCode(r)
  <2>1. issued' = issued
    BY <1>2 DEF Step, FindSso, DeleteSso, CheckMember, ExtendIdle, CreateSession, FindSession, DropSession,
           CheckUser, SetPasswordVerified, UpdatePassword, SetAuthenticatedUser, CreateSso, CheckConsent,
           UpsertConsent, FallBack, CallFails
  <2> QED BY <2>1 DEF CodesStep
<1> QED BY <1>1, <1>2
-----------------------------------------------------------------------------
(* Typing.                                                                  *)

LEMMA TypeInit == Init => TInv
<1> SUFFICES ASSUME Init PROVE TInv
  OBVIOUS
<1>1. load.until \in Nat
  BY InputAssumption DEF Init, Workload
<1>2. TypeOK
  BY <1>1 DEF Init, TypeOK, Pcs
<1>3. CallInv /\ RowInv
  BY DEF Init, CallInv, RowInv
<1> QED BY <1>2, <1>3 DEF TInv

\* The calls that did not move are as they were; those they refer to have ended.
LEMMA CallsMove ==
    ASSUME TInv, NEW r \in Requests, pc[r] \notin Ended \cup {"new"}, NEW l, NEW j, Moves(r, l, j), now' = now
    PROVE  CallInv' /\ pc' \in [Requests -> Pcs] /\ job' \in [Requests -> Job \cup {None}]
<1>1. /\ pc' = [pc EXCEPT ![r] = l] /\ job' = [job EXCEPT ![r] = j] /\ j \in Job /\ j # None
      /\ l \in Pcs /\ l # "new" /\ Keeps(job[r], j)
  BY NoneIsNoRecord DEF Moves, Set, Goto
<1>2. pc' \in [Requests -> Pcs] /\ job' \in [Requests -> Job \cup {None}]
  BY <1>1 DEF TInv, TypeOK
<1>3. pc'[r] = l /\ job'[r] = j /\ \A q \in Requests \ {r} : pc'[q] = pc[q] /\ job'[q] = job[q]
  BY <1>1 DEF TInv, TypeOK
<1>4. ASSUME NEW q \in Requests, job'[q] # None
      PROVE  /\ PlaceOK(pc'[q], job'[q]) /\ LocalsOK(pc'[q], job'[q])
             /\ job'[q].time <= now' /\ pc'[q] # "new"
  <2>1. CASE q = r
    BY <1>1, <1>3, <2>1 DEF Moves
  <2>2. CASE q # r
    BY <1>3, <1>4, <2>2 DEF TInv, CallInv
  <2> QED BY <2>1, <2>2
<1>5. ASSUME NEW q \in Requests, job'[q] # None, job'[q].kind \in OnSession
      PROVE  LET s == job'[q].sess IN
             /\ s \in Requests /\ pc'[s] = "ok" /\ job'[s] # None /\ job'[s].kind = "authorize"
             /\ job'[s].tenant = job'[q].tenant /\ job'[s].time <= job'[q].time
  <2>1. /\ job[q] # None /\ job'[q].kind = job[q].kind /\ job'[q].sess = job[q].sess
        /\ job'[q].tenant = job[q].tenant /\ job'[q].time = job[q].time
    <3>1. CASE q = r
      <4>1. job[r] # None
        BY JobOf DEF Ended
      <4>2. j.time = job[r].time
        BY <1>3, <1>5, <3>1 DEF Moves, OnSession, Factors
      <4> QED BY <1>1, <1>3, <3>1, <4>1, <4>2 DEF Keeps
    <3>2. CASE q # r
      BY <1>3, <1>5, <3>2
    <3> QED BY <3>1, <3>2
  <2>2. PICK s \in Requests : /\ s = job[q].sess /\ pc[s] = "ok" /\ job[s] # None /\ job[s].kind = "authorize"
                             /\ job[s].tenant = job[q].tenant /\ job[s].time <= job[q].time
    BY <1>5, <2>1 DEF TInv, CallInv, OriginOK
  <2>3. s # r
    BY <2>2 DEF Ended
  <2> QED BY <1>3, <2>1, <2>2, <2>3
<1>6. ASSUME NEW q \in Requests PROVE pc'[q] = "new" <=> job'[q] = None
  BY <1>1, <1>3 DEF TInv, CallInv
<1> QED BY <1>2, <1>4, <1>5, <1>6 DEF CallInv, OriginOK

LEMMA RowsStay ==
    ASSUME TInv, NEW r \in Requests, pc[r] # "ok", sess' = sess, issued' = issued,
           \A q \in Requests \ {r} : pc'[q] = pc[q] /\ job'[q] = job[q],
           issued[r] = None
    PROVE  RowInv'
<1>1. sess[r] = None
  BY DEF TInv, RowInv
<1> QED BY <1>1 DEF TInv, RowInv

LEMMA TypeArrival ==
    ASSUME TInv, NEW r \in Requests, Arrival(r)
    PROVE  TInv'
<1>1. PICK l, j : Starts(r, l, j)
  BY ArrivalStarts
<1>2. /\ pc' = [pc EXCEPT ![r] = l] /\ job' = [job EXCEPT ![r] = j] /\ j \in Job /\ j # None
      /\ l \in Pcs /\ l # "new" /\ pc[r] = "new" /\ job[r] = None
      /\ joined' = [joined EXCEPT ![r] = {u \in Users : Member(j.tenant, u)}]
      /\ UNCHANGED <<now, load, rows, issued, proved, seen, granted>>
  BY <1>1, NoneIsNoRecord DEF Starts, Begin, Set, Goto, Pcs, TInv, CallInv
<1>3. pc'[r] = l /\ job'[r] = j /\ \A q \in Requests \ {r} : pc'[q] = pc[q] /\ job'[q] = job[q]
  BY <1>2 DEF TInv, TypeOK
<1>4. TypeOK'
  <2>1. joined' \in [Requests -> SUBSET Users]
    BY <1>2 DEF TInv, TypeOK
  <2> QED BY <1>2, <2>1 DEF TInv, TypeOK, rows
<1>5. RowInv'
  BY <1>2, <1>3, RowsStay DEF TInv, RowInv, rows
<1>6. CallInv'
  <2>1. ASSUME NEW q \in Requests, job'[q] # None
        PROVE  PlaceOK(pc'[q], job'[q]) /\ LocalsOK(pc'[q], job'[q]) /\ job'[q].time <= now' /\ pc'[q] # "new"
    <3>1. CASE q = r
      BY <1>1, <1>2, <1>3, <3>1, <1>4 DEF Starts, Job
    <3>2. CASE q # r
      BY <1>2, <1>3, <2>1, <3>2 DEF TInv, CallInv
    <3> QED BY <3>1, <3>2
  <2>2. ASSUME NEW q \in Requests, job'[q] # None, job'[q].kind \in OnSession
        PROVE  LET s == job'[q].sess IN
               /\ s \in Requests /\ pc'[s] = "ok" /\ job'[s] # None /\ job'[s].kind = "authorize"
               /\ job'[s].tenant = job'[q].tenant /\ job'[s].time <= job'[q].time
    <3>1. CASE q = r
      <4>1. PICK s \in Requests : s = j.sess /\ HasSession(s) /\ j.tenant = job[s].tenant /\ j.time = now
        BY <1>1, <1>3, <2>2, <3>1 DEF Starts
      <4>2. s # r /\ job[s] # None /\ job[s].time <= now
        BY <1>2, <4>1, JobOf DEF HasSession
      <4> QED BY <1>3, <3>1, <4>1, <4>2 DEF HasSession
    <3>2. CASE q # r
      <4>1. PICK s \in Requests : /\ s = job[q].sess /\ pc[s] = "ok" /\ job[s] # None /\ job[s].kind = "authorize"
                                 /\ job[s].tenant = job[q].tenant /\ job[s].time <= job[q].time
        BY <1>3, <2>2, <3>2 DEF TInv, CallInv, OriginOK
      <4>2. s # r
        BY <1>2, <4>1
      <4> QED BY <1>3, <3>2, <4>1, <4>2
    <3> QED BY <3>1, <3>2
  <2>3. ASSUME NEW q \in Requests PROVE pc'[q] = "new" <=> job'[q] = None
    BY <1>2, <1>3 DEF TInv, CallInv
  <2> QED BY <2>1, <2>2, <2>3 DEF CallInv, OriginOK
<1> QED BY <1>4, <1>5, <1>6 DEF TInv

LEMMA TypeStep ==
    ASSUME TInv, NEW r \in Requests, Step(r) \/ FallBack(r) \/ CallFails(r)
    PROVE  TInv'
<1>0. pc[r] \notin Ended \cup {"new"} /\ SessionsStep(r) /\ SsoStep(r) /\ CodesStep(r)
  BY StepMoves, SessionRows, SsoRows, CodeRows
<1> DEFINE All == Step(r) \/ FallBack(r) \/ CallFails(r)
<1>1. PICK l, j : Moves(r, l, j)
  BY StepMoves
<1>2. /\ job[r] \in Job /\ job[r] # None /\ PlaceOK(pc[r], job[r]) /\ LocalsOK(pc[r], job[r])
      /\ job[r].time \in Int
  BY <1>0, JobOf
<1>3. /\ now' = now /\ load' = load /\ guests' = guests /\ wiping' = wiping /\ joined' = joined
  BY DEF Step, FindSso, DeleteSso, CheckMember, ExtendIdle, CreateSession, FindSession, DropSession,
         CheckUser, SetPasswordVerified, UpdatePassword, SetAuthenticatedUser, CreateSso, CheckConsent,
         UpsertConsent, IssueCode, FallBack, CallFails, rows, history
<1>4. CallInv' /\ pc' \in [Requests -> Pcs] /\ job' \in [Requests -> Job \cup {None}]
  BY <1>0, <1>1, <1>3, CallsMove
<1>5. users' \in [Users -> [status : {"ACTIVE", "DISABLED", "DELETED"}, mustChange : BOOLEAN]]
  <2>1. CASE UpdatePassword(r)
    BY <2>1 DEF UpdatePassword, TInv, TypeOK
  <2>2. CASE ~UpdatePassword(r)
    <3>1. users' = users
      BY <2>2 DEF Step, FindSso, DeleteSso, CheckMember, ExtendIdle, CreateSession, FindSession, DropSession,
             CheckUser, SetPasswordVerified, SetAuthenticatedUser, CreateSso, CheckConsent,
             UpsertConsent, IssueCode, FallBack, CallFails, rows
    <3> QED BY <3>1 DEF TInv, TypeOK
  <2> QED BY <2>1, <2>2
<1>6. consents' \in [Tenants \X Users -> SUBSET UNION Scopes] /\ granted' \subseteq Tenants \X Users \X UNION Scopes
  <2>1. CASE UpsertConsent(r)
    <3>1. job[r].tenant \in Tenants /\ job[r].user \in Users /\ job[r].scope \in SUBSET UNION Scopes
      BY <1>2, <2>1 DEF UpsertConsent, LocalsOK, Job
    <3>2. consents' = consents \/ consents' = [consents EXCEPT ![<<job[r].tenant, job[r].user>>] = job[r].scope]
      BY <2>1 DEF UpsertConsent
    <3>3. consents' \in [Tenants \X Users -> SUBSET UNION Scopes]
      BY <3>1, <3>2 DEF TInv, TypeOK
    <3>4. {job[r].tenant} \X {job[r].user} \X job[r].scope \subseteq Tenants \X Users \X UNION Scopes
      BY <3>1
    <3>5. granted' = granted \/ granted' = granted \cup ({job[r].tenant} \X {job[r].user} \X job[r].scope)
      BY <2>1 DEF UpsertConsent
    <3>6. granted' \subseteq Tenants \X Users \X UNION Scopes
      BY <3>4, <3>5, Zenon DEF TInv, TypeOK
    <3> QED BY <3>3, <3>6
  <2>2. CASE ~UpsertConsent(r)
    <3>1. consents' = consents /\ granted' = granted
      BY <2>2 DEF Step, FindSso, DeleteSso, CheckMember, ExtendIdle, CreateSession, FindSession, DropSession,
             CheckUser, SetPasswordVerified, UpdatePassword, SetAuthenticatedUser, CreateSso, CheckConsent,
             IssueCode, FallBack, CallFails, rows, history
    <3> QED BY <3>1 DEF TInv, TypeOK
  <2> QED BY <2>1, <2>2
<1>7. proved' \subseteq Users \X Int
  <2>1. CASE CheckUser(r)
    <3>1. <<job[r].user, job[r].time>> \in Users \X Int
      BY <1>2, <2>1 DEF CheckUser, LocalsOK
    <3>2. proved' \subseteq proved \cup {<<job[r].user, job[r].time>>}
      BY <2>1, MoveCheckUser
    <3> QED BY <3>1, <3>2 DEF TInv, TypeOK
  <2>2. CASE ~CheckUser(r)
    <3>1. proved' = proved
      BY <2>2 DEF Step, FindSso, DeleteSso, CheckMember, ExtendIdle, CreateSession, FindSession, DropSession,
             SetPasswordVerified, UpdatePassword, SetAuthenticatedUser, CreateSso, CheckConsent,
             UpsertConsent, IssueCode, FallBack, CallFails, history
    <3> QED BY <3>1 DEF TInv, TypeOK
  <2> QED BY <2>1, <2>2
<1>8. sess' \in [Requests -> Session \cup {None}] /\ seen' \in [Requests -> SUBSET Users]
  <2>1. job[r].user \in Users \cup {None} /\ (pc[r] \in {"setpwd", "setauth"} => job[r].user \in Users)
    BY <1>2 DEF LocalsOK, Job
  <2>2. sess \in [Requests -> Session \cup {None}] /\ seen \in [Requests -> SUBSET Users]
    BY DEF TInv, TypeOK
  <2>3. \A x \in Session : pc[r] \in {"setpwd", "setauth"} =>
           Waiting(x, job[r].user) \in Session /\ Carrying(x, job[r].user, job[r].time) \in Session
    BY <1>2, <2>1, ChangedSession
  <2> QED BY <1>0, <2>1, <2>2, <2>3 DEF SessionsStep
<1>9. sso' \in [Requests -> SsoSession \cup {None}]
  <2>1. sso \in [Requests -> SsoSession \cup {None}]
    BY DEF TInv, TypeOK
  <2>2. CASE \E k \in Requests, n \in Int : sso[k] \in SsoSession /\ sso' = [sso EXCEPT ![k] = Extended(sso[k], n)]
    <3>1. PICK k \in Requests, n \in Int : sso[k] \in SsoSession /\ sso' = [sso EXCEPT ![k] = Extended(sso[k], n)]
      BY <2>2
    <3>2. Extended(sso[k], n) \in SsoSession
      BY <3>1, ExtendedSso
    <3> QED BY <2>1, <3>1, <3>2
  <2> QED BY <1>0, <2>1, <2>2 DEF SsoStep
<1>10. issued' \in [Requests -> Issued \cup {None}]
  BY <1>0 DEF CodesStep, TInv, TypeOK
<1>11. \A q \in Requests \ {r} : pc'[q] = pc[q] /\ job'[q] = job[q]
  BY <1>1 DEF Moves, Set, Goto, TInv, TypeOK
<1>12. RowInv'
  <2>1. ASSUME NEW s \in Requests, sess'[s] # None PROVE pc'[s] = "ok" /\ job'[s].kind = "authorize"
    <3>1. CASE pc[r] = "create" /\ pc'[r] = "ok" /\ job' = job /\ s = r
      BY <1>2, <3>1 DEF PlaceOK
    <3>2. CASE sess[s] # None
      BY <1>0, <1>11, <3>2 DEF TInv, RowInv, Ended
    <3>3. sess[s] # None \/ (pc[r] = "create" /\ pc'[r] = "ok" /\ job' = job /\ s = r)
      BY <1>0, <2>1, NoneIsNoRecord DEF SessionsStep, TInv, TypeOK
    <3> QED BY <3>1, <3>2, <3>3
  <2>2. ASSUME NEW q \in Requests, issued'[q] # None
        PROVE /\ pc'[q] \in {"drop"} \cup Ended /\ job'[q] # None
              /\ job'[q].kind \in {"authorize"} \cup OnSession
              /\ pc'[q] = "drop" => job'[q].kind # "authorize"
    <3>1. CASE issued[q] # None /\ q # r
      BY <1>11, <3>1 DEF TInv, RowInv
    <3>2. CASE issued[q] # None /\ q = r
      <4>1. pc[r] = "drop"
        BY <1>0, <3>2 DEF TInv, RowInv, Ended
      <4>2. DropSession(r) \/ CallFails(r)
        BY <4>1 DEF Step, FindSso, DeleteSso, CheckMember, ExtendIdle, CreateSession, FindSession,
               CheckUser, SetPasswordVerified, UpdatePassword, SetAuthenticatedUser, CreateSso, CheckConsent,
               UpsertConsent, IssueCode, FallBack
      <4>3. pc'[r] \in Ended /\ job'[r] = job[r]
        BY <4>2, MoveEnds DEF Moves, Set, Goto, TInv, TypeOK
      <4> QED BY <3>2, <4>3 DEF TInv, RowInv, Ended
    <3>3. CASE issued[q] = None
      <4>1. q = r /\ pc[r] = "issue" /\ pc'[r] \in {"ok", "drop"} /\ job' = job
            /\ (pc'[r] = "drop" => job[r].kind # "authorize")
        BY <1>0, <2>2, <3>3 DEF CodesStep, TInv, TypeOK
      <4> QED BY <1>2, <4>1 DEF PlaceOK, OnSession, Factors, Ended
    <3> QED BY <3>1, <3>2, <3>3
  <2> QED BY <2>1, <2>2 DEF RowInv
<1> QED BY <1>3, <1>4, <1>5, <1>6, <1>7, <1>8, <1>9, <1>10, <1>12 DEF TInv, TypeOK

\* The operations on accounts leave the calls alone.
LEMMA TypeAccounts ==
    ASSUME TInv, Accounts
    PROVE  TInv'
<1> USE DEF rows, calls, history
<1>1. CASE Tick
  <2>1. now' \in 0..load.until /\ now <= now' /\ now \in Int
    BY <1>1, LoadOK DEF Tick, TInv, TypeOK
  <2>2. TypeOK'
    BY <1>1, <2>1 DEF Tick, TInv, TypeOK
  <2>3. \A q \in Requests : job[q] # None => job[q].time \in Int
    BY DEF TInv, TypeOK, Job
  <2>4. CallInv'
    BY <1>1, <2>1, <2>3 DEF Tick, TInv, CallInv, OriginOK
  <2>5. RowInv'
    BY <1>1 DEF Tick, TInv, RowInv
  <2> QED BY <2>2, <2>4, <2>5 DEF TInv
<1>2. ASSUME NEW u \in Users, DisableUser(u) \/ ResetPasswordFor(u) \/ EnableUser(u) PROVE TInv'
  <2>1. users' \in [Users -> [status : {"ACTIVE", "DISABLED", "DELETED"}, mustChange : BOOLEAN]]
    <3>1. CASE DisableUser(u)
      BY <3>1 DEF DisableUser, TInv, TypeOK
    <3>2. CASE ResetPasswordFor(u)
      BY <3>2 DEF ResetPasswordFor, TInv, TypeOK
    <3>3. CASE EnableUser(u)
      BY <3>3 DEF EnableUser, TInv, TypeOK
    <3> QED BY <1>2, <3>1, <3>2, <3>3
  <2> QED BY <1>2, <2>1 DEF DisableUser, ResetPasswordFor, EnableUser, TInv, TypeOK, CallInv, RowInv, OriginOK
<1>3. ASSUME NEW u \in Users, WipeSso(u) PROVE TInv'
  <2>1. sso' \in [Requests -> SsoSession \cup {None}]
    BY <1>3 DEF WipeSso, TInv, TypeOK
  <2> QED BY <1>3, <2>1 DEF WipeSso, TInv, TypeOK, CallInv, RowInv, OriginOK
<1>4. ASSUME NEW u \in Users, DeleteUser(u) PROVE TInv'
  <2>1. users' \in [Users -> [status : {"ACTIVE", "DISABLED", "DELETED"}, mustChange : BOOLEAN]]
    BY <1>4 DEF DeleteUser, TInv, TypeOK
  <2>2. sso' \in [Requests -> SsoSession \cup {None}]
    BY <1>4 DEF DeleteUser, TInv, TypeOK
  <2>3. \A s \in Requests : sess'[s] = sess[s] \/ (sess[s] \in Session /\ sess'[s] = Anonymous(sess[s]))
    BY <1>4 DEF DeleteUser, Anonymous, TInv, TypeOK
  <2>4. \A s \in Requests : sess'[s] \in Session \cup {None} /\ (sess'[s] # None => sess[s] # None)
    <3>1. \A x \in Session : Anonymous(x) \in Session
      BY DEF Session, Anonymous
    <3> QED BY <2>3, <3>1, NoneIsNoRecord DEF TInv, TypeOK
  <2>5. sess' \in [Requests -> Session \cup {None}]
    BY <1>4, <2>4 DEF DeleteUser
  <2>6. consents' \in [Tenants \X Users -> SUBSET UNION Scopes]
    BY <1>4 DEF DeleteUser, TInv, TypeOK
  <2>7. TypeOK'
    BY <1>4, <2>1, <2>2, <2>5, <2>6 DEF DeleteUser, TInv, TypeOK
  <2>8. CallInv' /\ RowInv'
    BY <1>4, <2>4 DEF DeleteUser, TInv, CallInv, RowInv, OriginOK
  <2> QED BY <2>7, <2>8 DEF TInv
<1>5. ASSUME NEW t \in Tenants, NEW u \in Users, ToggleGuest(t, u) PROVE TInv'
  <2>1. joined' \in [Requests -> SUBSET Users]
    BY <1>5 DEF ToggleGuest, TInv, TypeOK
  <2>2. guests' \subseteq Tenants \X Users
    BY <1>5 DEF ToggleGuest, TInv, TypeOK
  <2> QED BY <1>5, <2>1, <2>2 DEF ToggleGuest, TInv, TypeOK, CallInv, RowInv, OriginOK
<1> QED BY <1>1, <1>2, <1>3, <1>4, <1>5 DEF Accounts

LEMMA TypeNext == TInv /\ [Next]_vars => TInv'
<1>1. TInv /\ UNCHANGED vars => TInv'
  BY DEF vars, rows, calls, history, TInv, TypeOK, CallInv, RowInv, OriginOK
<1> QED BY <1>1, TypeAccounts, TypeArrival, TypeStep DEF Next

\* The rows of every table, and the locals of every call, are of their types at
\* every statement; in particular no NULL account or auth_time reaches a code.
THEOREM TypeCorrect == Spec => []TypeOK
<1> QED BY TypeInit, TypeNext, PTL DEF Spec, TInv
-----------------------------------------------------------------------------
(* What stays, and what only grows.                                         *)

\* Who takes a step: the environment, a new call, or a call that has begun.
LEMMA WhoseStep ==
    ASSUME [Next]_vars
    PROVE  \/ UNCHANGED vars \/ Accounts
           \/ \E r \in Requests : Arrival(r)
           \/ \E r \in Requests : Step(r) \/ FallBack(r) \/ CallFails(r)
  BY DEF Next

LEMMA OthersStay ==
    ASSUME TInv, NEW r \in Requests, Arrival(r) \/ Step(r) \/ FallBack(r) \/ CallFails(r)
    PROVE  /\ pc[r] \notin Ended
           /\ \A q \in Requests \ {r} : pc'[q] = pc[q] /\ job'[q] = job[q]
<1>1. CASE Arrival(r)
  BY <1>1, ArrivalStarts DEF Starts, Begin, Set, Goto, Ended, TInv, TypeOK
<1>2. CASE Step(r) \/ FallBack(r) \/ CallFails(r)
  BY <1>2, StepMoves DEF Moves, Set, Goto, TInv, TypeOK
<1> QED BY <1>1, <1>2

LEMMA Quiet ==
    ASSUME UNCHANGED vars \/ Accounts
    PROVE  pc' = pc /\ job' = job /\ issued' = issued /\ proved' = proved /\ seen' = seen /\ granted' = granted
  BY DEF vars, rows, calls, history, Accounts, Tick, DisableUser, ResetPasswordFor, WipeSso, EnableUser,
         DeleteUser, ToggleGuest

LEMMA Settled ==
    ASSUME TInv, [Next]_vars, NEW s \in Requests, pc[s] \in Ended
    PROVE  pc'[s] = pc[s] /\ job'[s] = job[s]
  BY WhoseStep, Quiet, OthersStay

\* The /authorize call that a call goes back to has ended, or is that call.
LEMMA OriginSettled ==
    ASSUME TInv, NEW r \in Requests, job[r] # None, job[r].kind \in {"authorize"} \cup OnSession
    PROVE  /\ Origin(r) \in Requests
           /\ job[r].kind = "authorize" => Origin(r) = r
           /\ job[r].kind # "authorize" => /\ Origin(r) = job[r].sess /\ pc[Origin(r)] = "ok"
                                          /\ job[Origin(r)] # None /\ job[Origin(r)].kind = "authorize"
                                          /\ job[Origin(r)].tenant = job[r].tenant
                                          /\ job[Origin(r)].time <= job[r].time
  BY DEF TInv, CallInv, OriginOK, Origin

LEMMA CodeStays ==
    ASSUME TInv, [Next]_vars, NEW q \in Requests, issued[q] # None
    PROVE  issued'[q] = issued[q] /\ job'[q] = job[q]
<1>0. pc[q] \in {"drop"} \cup Ended
  BY DEF TInv, RowInv
<1>1. CASE UNCHANGED vars \/ Accounts
  BY <1>1, Quiet
<1>2. ASSUME NEW r \in Requests, Arrival(r) PROVE issued'[q] = issued[q] /\ job'[q] = job[q]
  <2>1. issued' = issued /\ pc[r] = "new"
    BY <1>2, ArrivalStarts DEF Starts, Begin
  <2> QED BY <1>0, <1>2, <2>1, OthersStay DEF Ended
<1>3. ASSUME NEW r \in Requests, Step(r) \/ FallBack(r) \/ CallFails(r)
      PROVE issued'[q] = issued[q] /\ job'[q] = job[q]
  <2>1. CASE q # r
    BY <1>3, <2>1, OthersStay, CodeRows DEF CodesStep, TInv, TypeOK
  <2>2. CASE q = r
    <3>1. pc[r] = "drop"
      BY <1>0, <1>3, <2>2, OthersStay
    <3>2. DropSession(r) \/ CallFails(r)
      BY <1>3, <3>1 DEF Step, FindSso, DeleteSso, CheckMember, ExtendIdle, CreateSession, FindSession,
             CheckUser, SetPasswordVerified, UpdatePassword, SetAuthenticatedUser, CreateSso, CheckConsent,
             UpsertConsent, IssueCode, FallBack
    <3>3. job' = job /\ issued' = issued
      BY <3>2 DEF DropSession, CallFails
    <3> QED BY <3>3
  <2> QED BY <2>1, <2>2
<1> QED BY <1>1, <1>2, <1>3, WhoseStep

\* Where a code comes from: it was there, or its call has just inserted it.
LEMMA CodeSource ==
    ASSUME TInv, [Next]_vars, NEW q \in Requests, issued'[q] # None
    PROVE  /\ job[q] # None /\ job[q].kind \in {"authorize"} \cup OnSession /\ job'[q] = job[q]
           /\ Origin(q) \in Requests /\ Origin(q)' = Origin(q)
           /\ job[Origin(q)] # None /\ job'[Origin(q)] = job[Origin(q)]
           /\ job[q].kind # "authorize" => pc[Origin(q)] = "ok"
           /\ \/ issued[q] # None /\ issued'[q] = issued[q]
              \/ /\ pc[q] = "issue" /\ granted' = granted /\ proved' = proved /\ seen' = seen /\ joined' = joined
                 /\ issued'[q].user = job[q].user /\ issued'[q].tenant = job[q].tenant
                 /\ issued'[q].scope = job[q].scope /\ issued'[q].auth = job[q].auth
<1>1. /\ job[q] # None /\ job[q].kind \in {"authorize"} \cup OnSession /\ job'[q] = job[q]
      /\ \/ issued[q] # None /\ issued'[q] = issued[q]
         \/ /\ pc[q] = "issue" /\ granted' = granted /\ proved' = proved /\ seen' = seen /\ joined' = joined
            /\ issued'[q].user = job[q].user /\ issued'[q].tenant = job[q].tenant
            /\ issued'[q].scope = job[q].scope /\ issued'[q].auth = job[q].auth
  <2>1. CASE issued[q] # None
    BY <2>1, CodeStays DEF TInv, RowInv
  <2>2. CASE issued[q] = None
    <3>1. PICK r \in Requests : Step(r) \/ FallBack(r) \/ CallFails(r)
      <4>1. ASSUME NEW r \in Requests, Arrival(r) PROVE issued' = issued
        BY <4>1, ArrivalStarts DEF Starts, Begin
      <4> QED BY <2>2, <4>1, WhoseStep, Quiet
    <3>2. /\ pc[r] = "issue" /\ job' = job /\ r = q
          /\ issued'[q].user = job[q].user /\ issued'[q].tenant = job[q].tenant
          /\ issued'[q].scope = job[q].scope /\ issued'[q].auth = job[q].auth
      BY <2>2, <3>1, CodeRows DEF CodesStep, TInv, TypeOK
    <3>3. IssueCode(r) \/ CallFails(r)
      BY <3>1, <3>2 DEF Step, FindSso, DeleteSso, CheckMember, ExtendIdle, CreateSession, FindSession,
             DropSession, CheckUser, SetPasswordVerified, UpdatePassword, SetAuthenticatedUser, CreateSso,
             CheckConsent, UpsertConsent, FallBack
    <3>4. granted' = granted /\ proved' = proved /\ seen' = seen /\ joined' = joined
      BY <3>3 DEF IssueCode, CallFails, history
    <3>5. job[q] # None /\ job[q].kind \in {"authorize"} \cup OnSession
      BY <3>2, JobOf DEF PlaceOK, OnSession, Factors
    <3> QED BY <3>2, <3>4, <3>5
  <2> QED BY <2>1, <2>2
<1>2. PICK o \in Requests : o = Origin(q)
  BY <1>1, OriginSettled
<1>3. Origin(q)' = o
  BY <1>1, <1>2 DEF Origin
<1>4. job[o] # None /\ job'[o] = job[o] /\ (job[q].kind # "authorize" => pc[o] = "ok")
  BY <1>1, <1>2, OriginSettled, Settled DEF Ended
<1> QED BY <1>1, <1>2, <1>3, <1>4
-----------------------------------------------------------------------------
(* Consent.                                                                 *)

LEMMA MoveIs ==
    ASSUME TInv, NEW r \in Requests, NEW l, NEW j, Moves(r, l, j)
    PROVE  pc'[r] = l /\ job'[r] = j
  BY DEF Moves, Set, Goto, TInv, TypeOK

\* Only a consent, looked up or given, leads to a code.
LEMMA ToIssue ==
    ASSUME TInv, NEW r \in Requests, Step(r) \/ FallBack(r) \/ CallFails(r), pc'[r] = "issue"
    PROVE  /\ CheckConsent(r) \/ UpsertConsent(r)
           /\ pc[r] \in {"consent", "upsert"} /\ job'[r] = job[r]
<1> USE MoveIs
<1>1. ~(FindSso(r) \/ FindSession(r) \/ SetAuthenticatedUser(r))
  BY MoveFindSso, MoveFindSession, MoveSetAuthenticatedUser DEF AfterLoad
<1>2. ~(DeleteSso(r) \/ CheckMember(r) \/ ExtendIdle(r) \/ CheckUser(r) \/ FallBack(r))
  BY MoveDeleteSso, MoveCheckMember, MoveExtendIdle, MoveCheckUser, MoveFallBack DEF Forgets
<1>3. ~(CreateSession(r) \/ DropSession(r) \/ SetPasswordVerified(r) \/ CallFails(r))
  BY MoveEnds DEF Ended
<1>4. ~(UpdatePassword(r) \/ CreateSso(r) \/ IssueCode(r))
  BY MoveUpdatePassword, MoveCreateSso, MoveIssueCode
<1>5. CheckConsent(r) \/ UpsertConsent(r)
  BY <1>1, <1>2, <1>3, <1>4 DEF Step
<1> QED BY <1>5, MoveCheckConsent, MoveUpsertConsent

LEMMA GrantedGrows ==
    ASSUME TInv, [Next]_vars
    PROVE  granted \subseteq granted'
<1>1. ASSUME NEW r \in Requests, Arrival(r) PROVE granted' = granted
  BY <1>1, ArrivalStarts DEF Starts, Begin
<1>2. ASSUME NEW r \in Requests, Step(r) \/ FallBack(r) \/ CallFails(r) PROVE granted \subseteq granted'
  BY <1>2 DEF Step, FindSso, DeleteSso, CheckMember, ExtendIdle, CreateSession, FindSession, DropSession,
         CheckUser, SetPasswordVerified, UpdatePassword, SetAuthenticatedUser, CreateSso, CheckConsent,
         UpsertConsent, IssueCode, FallBack, CallFails, history
<1> QED BY <1>1, <1>2, WhoseStep, Quiet

\* Every recorded consent was given.
LEMMA ConsentsNext ==
    ASSUME TInv, ConsentInv, [Next]_vars, NEW t \in Tenants, NEW u \in Users
    PROVE  GrantedTo(t, u, consents[<<t, u>>])'
<1>0. GrantedTo(t, u, consents[<<t, u>>]) /\ granted \subseteq granted'
  BY GrantedGrows DEF ConsentInv
<1>1. CASE consents' = consents
  BY <1>0, <1>1 DEF GrantedTo
<1>2. ASSUME NEW v \in Users, DeleteUser(v) PROVE GrantedTo(t, u, consents[<<t, u>>])'
  <2>1. consents'[<<t, u>>] \subseteq consents[<<t, u>>]
    BY <1>2 DEF DeleteUser
  <2> QED BY <1>0, <2>1 DEF GrantedTo
<1>3. ASSUME NEW r \in Requests, UpsertConsent(r) PROVE GrantedTo(t, u, consents[<<t, u>>])'
  <2>1. CASE consents' = consents
    BY <1>0, <2>1 DEF GrantedTo
  <2>2. CASE /\ consents' = [consents EXCEPT ![<<job[r].tenant, job[r].user>>] = job[r].scope]
             /\ granted' = granted \cup ({job[r].tenant} \X {job[r].user} \X job[r].scope)
    <3>1. pc[r] = "upsert" /\ pc[r] # "new"
      BY <1>3 DEF UpsertConsent
    <3>2. PICK tt \in Tenants, v \in Users : tt = job[r].tenant /\ v = job[r].user
      BY <3>1, JobOf DEF Job, LocalsOK
    <3>3. CASE tt = t /\ v = u
      <4>1. consents'[<<t, u>>] = job[r].scope
        BY <2>2, <3>2, <3>3 DEF TInv, TypeOK
      <4>2. \A e \in job[r].scope : <<t, u, e>> \in granted'
        BY <2>2, <3>2, <3>3
      <4> QED BY <4>1, <4>2 DEF GrantedTo
    <3>4. CASE ~(tt = t /\ v = u)
      <4>1. <<tt, v>> # <<t, u>>
        BY <3>4
      <4>2. consents'[<<t, u>>] = consents[<<t, u>>]
        BY <2>2, <3>2, <4>1 DEF TInv, TypeOK
      <4> QED BY <1>0, <4>2 DEF GrantedTo
    <3> QED BY <3>3, <3>4
  <2> QED BY <1>3, <2>1, <2>2 DEF UpsertConsent
<1>4. consents' = consents \/ (\E v \in Users : DeleteUser(v)) \/ \E r \in Requests : UpsertConsent(r)
  <2>1. CASE UNCHANGED vars \/ Accounts
    BY <2>1 DEF vars, rows, Accounts, Tick, DisableUser, ResetPasswordFor, WipeSso, EnableUser, ToggleGuest
  <2>2. ASSUME NEW r \in Requests, Arrival(r) PROVE consents' = consents
    BY <2>2, ArrivalStarts DEF Starts, Begin, rows
  <2>3. ASSUME NEW r \in Requests, Step(r) \/ FallBack(r) \/ CallFails(r), ~UpsertConsent(r)
        PROVE consents' = consents
    BY <2>3 DEF Step, FindSso, DeleteSso, CheckMember, ExtendIdle, CreateSession, FindSession, DropSession,
           CheckUser, SetPasswordVerified, UpdatePassword, SetAuthenticatedUser, CreateSso, CheckConsent,
           IssueCode, FallBack, CallFails, rows
  <2> QED BY <2>1, <2>2, <2>3, WhoseStep
<1> QED BY <1>1, <1>2, <1>3, <1>4

LEMMA ConsentInit == Init => ConsentInv
  BY DEF Init, ConsentInv, ConsentPrecedesCode, GrantedTo

LEMMA ConsentNext == TInv /\ ConsentInv /\ [Next]_vars => ConsentInv'
<1> SUFFICES ASSUME TInv, ConsentInv, [Next]_vars PROVE ConsentInv'
  OBVIOUS
<1>0. granted \subseteq granted'
  BY GrantedGrows
<1>1. \A t \in Tenants, u \in Users : GrantedTo(t, u, consents[<<t, u>>])'
  BY ConsentsNext
<1>2. ASSUME NEW q \in Requests, pc'[q] = "issue"
      PROVE  \A e \in job'[q].scope : <<job'[q].tenant, job'[q].user, e>> \in granted'
  <2>1. CASE pc[q] = "issue" /\ job'[q] = job[q]
    BY <1>0, <2>1 DEF ConsentInv, GrantedTo
  <2>2. ASSUME Step(q) \/ FallBack(q) \/ CallFails(q)
        PROVE  \A e \in job'[q].scope : <<job'[q].tenant, job'[q].user, e>> \in granted'
    <3>1. /\ CheckConsent(q) \/ UpsertConsent(q)
          /\ pc[q] \in {"consent", "upsert"} /\ job'[q] = job[q]
      BY <1>2, <2>2, ToIssue
    <3>2. job[q].tenant \in Tenants /\ job[q].user \in Users
      BY <3>1, JobOf DEF Job, LocalsOK
    <3>3. CASE CheckConsent(q)
      <4>1. Consented(job[q].tenant, job[q].user, job[q].scope)
        BY <1>2, <3>3, MoveCheckConsent, MoveIs
      <4>2. GrantedTo(job[q].tenant, job[q].user, consents[<<job[q].tenant, job[q].user>>])
        BY <3>2 DEF ConsentInv
      <4> QED BY <1>0, <3>1, <4>1, <4>2 DEF Consented, GrantedTo
    <3>4. CASE UpsertConsent(q)
      <4>1. granted' = granted \cup ({job[q].tenant} \X {job[q].user} \X job[q].scope)
        <5>1. pc' # [pc EXCEPT ![q] = "failed"]
          BY <1>2 DEF TInv, TypeOK
        <5> QED BY <3>4, <5>1 DEF UpsertConsent, Goto
      <4> QED BY <3>1, <4>1
    <3> QED BY <3>1, <3>3, <3>4
  <2>3. CASE UNCHANGED vars \/ Accounts
    BY <1>2, <2>1, <2>3, Quiet
  <2>4. ASSUME NEW r \in Requests, r # q, Arrival(r) \/ Step(r) \/ FallBack(r) \/ CallFails(r)
        PROVE  pc[q] = "issue" /\ job'[q] = job[q]
    BY <1>2, <2>4, OthersStay
  <2>5. ~Arrival(q)
    BY <1>2, ArrivalStarts DEF Starts, Begin, Set, Goto, TInv, TypeOK
  <2> QED BY <2>1, <2>2, <2>3, <2>4, <2>5, WhoseStep
<1>3. ConsentPrecedesCode'
  <2>1. ASSUME NEW q \in Requests, issued'[q] # None
        PROVE  \A e \in issued'[q].scope : <<issued'[q].tenant, issued'[q].user, e>> \in granted'
    <3>1. CASE issued[q] # None /\ issued'[q] = issued[q]
      BY <1>0, <3>1 DEF ConsentInv, ConsentPrecedesCode
    <3>2. CASE /\ pc[q] = "issue" /\ issued'[q].user = job[q].user /\ issued'[q].tenant = job[q].tenant
               /\ issued'[q].scope = job[q].scope
      BY <1>0, <3>2 DEF ConsentInv, GrantedTo
    <3> QED BY <2>1, <3>1, <3>2, CodeSource
  <2> QED BY <2>1 DEF ConsentPrecedesCode
<1> QED BY <1>1, <1>2, <1>3 DEF ConsentInv, GrantedTo

\* No code carries a scope that its account has not consented to for the client
\* of its tenant: neither resumption, nor the overwriting of consents by
\* parallel approvals, nor the deletion of accounts gets around it.
THEOREM CodesNeedConsent == Spec => []ConsentPrecedesCode
<1>1. ConsentInv => ConsentPrecedesCode
  BY DEF ConsentInv
<1> QED BY <1>1, TypeInit, TypeNext, ConsentInit, ConsentNext, PTL DEF Spec
-----------------------------------------------------------------------------
(* Membership.                                                              *)

LEMMA JoinedGrows ==
    ASSUME TInv, [Next]_vars, NEW q \in Requests, job[q] # None
    PROVE  joined[q] \subseteq joined'[q]
<1>1. CASE UNCHANGED vars \/ Accounts
  BY <1>1 DEF vars, rows, calls, history, Accounts, Tick, DisableUser, ResetPasswordFor, WipeSso, EnableUser,
         DeleteUser, ToggleGuest, TInv, TypeOK
<1>2. ASSUME NEW r \in Requests, Arrival(r) PROVE joined[q] \subseteq joined'[q]
  BY <1>2, ArrivalStarts DEF Starts, Begin, TInv, TypeOK, CallInv
<1>3. ASSUME NEW r \in Requests, Step(r) \/ FallBack(r) \/ CallFails(r) PROVE joined' = joined
  BY <1>3 DEF Step, FindSso, DeleteSso, CheckMember, ExtendIdle, CreateSession, FindSession, DropSession,
         CheckUser, SetPasswordVerified, UpdatePassword, SetAuthenticatedUser, CreateSso, CheckConsent,
         UpsertConsent, IssueCode, FallBack, CallFails, history
<1> QED BY <1>1, <1>2, <1>3, WhoseStep

\* Who is a member now has been one since the call began.
LEMMA MembersNext ==
    ASSUME TInv, MemberInv, [Next]_vars, NEW q \in Requests, NEW u \in Users, job'[q] # None,
           Member(job[q].tenant, u)'
    PROVE  u \in joined'[q]
<1> USE DEF Member
<1>1. CASE UNCHANGED vars \/ Accounts
  <2>1. job' = job /\ job[q] # None
    BY <1>1, Quiet
  <2>2. ASSUME NEW t \in Tenants, NEW v \in Users, ToggleGuest(t, v) PROVE u \in joined'[q]
    BY <2>1, <2>2 DEF ToggleGuest, MemberInv, TInv, TypeOK
  <2>3. ASSUME ~\E t \in Tenants, v \in Users : ToggleGuest(t, v) PROVE u \in joined'[q]
    <3>1. guests' \subseteq guests /\ joined' = joined
      BY <1>1, <2>3 DEF vars, rows, history, Accounts, Tick, DisableUser, ResetPasswordFor, WipeSso, EnableUser,
             DeleteUser
    <3> QED BY <2>1, <3>1 DEF MemberInv
  <2> QED BY <2>2, <2>3
<1>2. ASSUME NEW r \in Requests, Arrival(r) PROVE u \in joined'[q]
  <2>1. PICK l, j : Starts(r, l, j)
    BY <1>2, ArrivalStarts
  <2>2. /\ guests' = guests /\ job' = [job EXCEPT ![r] = j]
        /\ joined' = [joined EXCEPT ![r] = {v \in Users : Member(j.tenant, v)}]
    BY <2>1 DEF Starts, Begin, Set, rows
  <2>3. CASE q = r
    BY <2>2, <2>3 DEF TInv, TypeOK
  <2>4. CASE q # r
    BY <2>2, <2>4 DEF TInv, TypeOK, MemberInv
  <2> QED BY <2>3, <2>4
<1>3. ASSUME NEW r \in Requests, Step(r) \/ FallBack(r) \/ CallFails(r) PROVE u \in joined'[q]
  <2>1. joined' = joined /\ guests' = guests
    BY <1>3 DEF Step, FindSso, DeleteSso, CheckMember, ExtendIdle, CreateSession, FindSession, DropSession,
         CheckUser, SetPasswordVerified, UpdatePassword, SetAuthenticatedUser, CreateSso, CheckConsent,
         UpsertConsent, IssueCode, FallBack, CallFails, history, rows
  <2>2. job[q] # None /\ job'[q].tenant = job[q].tenant
    <3>1. CASE q = r
      BY <1>3, <3>1, StepMoves, MoveIs, JobOf DEF Moves, Keeps
    <3>2. CASE q # r
      BY <1>3, <3>2, OthersStay
    <3> QED BY <3>1, <3>2
  <2> QED BY <2>1, <2>2 DEF MemberInv
<1> QED BY <1>1, <1>2, <1>3, WhoseStep

\* A call moves on with an account whose membership was looked at before, or by
\* this very statement, or is that of the AuthSession.
LEMMA VouchedStep ==
    ASSUME TInv, MemberInv, NEW r \in Requests, Step(r) \/ FallBack(r) \/ CallFails(r),
           Vouched(pc'[r], job'[r])
    PROVE  /\ job[r] # None /\ job[r].kind \in {"authorize"} \cup OnSession
           /\ job'[r].user \in joined[Origin(r)]
<1>0. /\ pc[r] # "new" /\ job[r] # None /\ job[r] \in Job /\ job'[r].kind = job[r].kind
      /\ PlaceOK(pc[r], job[r]) /\ LocalsOK(pc[r], job[r]) /\ OriginOK(r)
      /\ PlaceOK(pc'[r], job'[r]) /\ LocalsOK(pc'[r], job'[r])
  BY StepMoves, MoveIs, JobOf DEF Moves, Keeps
<1>1. job[r].kind \in {"authorize"} \cup OnSession
  BY <1>0 DEF Vouched, OnSession, Factors
<1> SUFFICES job'[r].user \in joined[Origin(r)]
  BY <1>0, <1>1
<1>2. ASSUME Vouched(pc[r], job[r]), job'[r].user = job[r].user PROVE job'[r].user \in joined[Origin(r)]
  BY <1>0, <1>2 DEF MemberInv
<1>3. CASE FindSso(r)
  <2>1. job[r].kind = "authorize" /\ job[r].user = None
    BY <1>0, <1>1, <1>3 DEF FindSso, PlaceOK, LocalsOK, OnSession, Factors
  <2>2. pc'[r] \in {"ok", "failed", "end", "expire", "user"} \/ (pc'[r] = "create" /\ job'[r] = job[r])
    BY <1>3, MoveFindSso, MoveIs
  <2> QED BY <1>0, <2>1, <2>2 DEF Vouched
<1>4. CASE FindSession(r)
  <2>1. pc[r] = "load" /\ job[r].kind \in OnSession
    BY <1>0, <1>4 DEF FindSession, PlaceOK
  <2>2. CASE job[r].kind \in {"login", "passkey"}
    <3>1. Vouched(pc[r], job[r])
      BY <2>1, <2>2 DEF Vouched
    <3>2. job'[r].user = job[r].user
      BY <1>0, <1>4, <2>2, MoveFindSession, MoveIs, LoadedFrom
    <3> QED BY <1>2, <3>1, <3>2
  <2>3. CASE job[r].kind \notin {"login", "passkey"}
    <3>1. CASE pc'[r] \in {"failed", "purge"}
      BY <1>0, <2>3, <3>1 DEF Vouched
    <3>2. ASSUME NEW s \in Requests, NEW u \in Users \cup {None},
                 s = job[r].sess, sess[s] \in Session, u = sess[s].user,
                 Moves(r, AfterLoad(job[r].kind), Loaded(job[r], sess[s].scope, sess[s].auth, u))
          PROVE  job'[r].user \in joined[Origin(r)]
      <4>1. job'[r].user = u
        BY <1>0, <3>2, MoveIs, LoadedFrom
      <4>2. pc'[r] \in {"user", "upsert"}
        <5>1. pc'[r] = AfterLoad(job[r].kind)
          BY <3>2, MoveIs
        <5> QED BY <1>0, <2>3, <5>1 DEF Vouched, AfterLoad, OnSession, Factors
      <4>3. u # None
        BY <1>0, <4>1, <4>2, NoneAssumption DEF LocalsOK
      <4>4. Origin(r) = s /\ sess[s] # None
        BY <2>1, <3>2, NoneIsNoRecord DEF Origin, OnSession, Factors
      <4> QED BY <3>2, <4>1, <4>3, <4>4 DEF MemberInv
    <3> QED BY <1>4, <2>3, <3>1, <3>2, MoveFindSession, MoveIs
  <2> QED BY <2>2, <2>3
<1>5. CASE SetAuthenticatedUser(r)
  <2>1. pc[r] = "setauth" /\ job[r].kind \in Factors /\ job'[r].user = job[r].user
    BY <1>0, <1>5, MoveSetAuthenticatedUser, MoveIs, LoggedJob, JobOf
  <2> QED BY <1>2, <2>1 DEF Vouched, Factors
<1>6. CASE DeleteSso(r) \/ ExtendIdle(r) \/ FallBack(r)
  <2>1. CASE job'[r] = Forgetful(job[r]) /\ pc'[r] \in {"create", "failed"} /\ job[r].kind = "authorize"
    BY <1>0, <2>1, ForgetfulJob DEF Vouched
  <2>2. CASE pc[r] \in {"end", "extend", "consent"} /\ job'[r] = job[r]
    BY <1>0, <1>1, <1>2, <2>2 DEF Vouched, PlaceOK, OnSession, Factors
  <2> QED BY <1>6, <2>1, <2>2, MoveDeleteSso, MoveExtendIdle, MoveFallBack, MoveIs DEF Forgets
<1>7. CASE CheckMember(r)
  <2>1. CASE job'[r] = Forgetful(job[r]) /\ pc'[r] \in {"create", "failed"} /\ job[r].kind = "authorize"
    BY <1>0, <2>1, ForgetfulJob DEF Vouched
  <2>2. CASE pc[r] = "member" /\ pc'[r] = "failed" /\ job'[r] = job[r]
    BY <1>0, <2>2 DEF Vouched, PlaceOK
  <2>3. CASE Member(job[r].tenant, job[r].user) /\ job'[r] = job[r]
    <3>1. PICK o \in Requests : o = Origin(r) /\ job[o] # None /\ job[o].tenant = job[r].tenant
      BY <1>0, <1>1, OriginSettled
    <3>2. job[r].user \in Users
      BY <1>0, <1>7 DEF CheckMember, LocalsOK
    <3> QED BY <2>3, <3>1, <3>2 DEF MemberInv
  <2> QED BY <1>7, <2>1, <2>2, <2>3, MoveCheckMember, MoveIs DEF Forgets
<1>8. CASE CheckUser(r)
  <2>1. CASE job'[r] = Forgetful(job[r]) /\ pc'[r] \in {"create", "failed"} /\ job[r].kind = "authorize"
    BY <1>0, <2>1, ForgetfulJob DEF Vouched
  <2>2. CASE /\ pc[r] = "user" /\ job'[r] = job[r]
             /\ pc'[r] \in {"member", "setpwd", "ssonew", "setauth", "newpwd", "failed"}
    <3>1. Vouched(pc[r], job[r])
      <4>1. job[r].kind = "passkey" => pc'[r] \in {"member", "setpwd", "failed", "newpwd"}
        BY <1>8, <2>2, MoveIs DEF CheckUser, Goto, TInv, TypeOK
      <4> QED BY <1>0, <2>2, <4>1 DEF Vouched, PlaceOK, Factors
    <3> QED BY <1>2, <2>2, <3>1
  <2> QED BY <1>8, <2>1, <2>2, MoveCheckUser, MoveIs DEF Forgets
<1>9. CASE CreateSession(r) \/ DropSession(r) \/ SetPasswordVerified(r) \/ CallFails(r)
  <2>1. pc'[r] \in Ended /\ job'[r] = job[r]
    BY <1>9, MoveEnds, MoveIs
  <2> QED BY <1>0, <1>2, <2>1 DEF Vouched, Ended
<1>10. CASE UpdatePassword(r) \/ CreateSso(r) \/ CheckConsent(r) \/ UpsertConsent(r) \/ IssueCode(r)
  <2>1. job'[r] = job[r] /\ pc[r] \in {"newpwd", "ssonew", "consent", "upsert", "issue"}
    BY <1>10, MoveUpdatePassword, MoveCreateSso, MoveCheckConsent, MoveUpsertConsent, MoveIssueCode, MoveIs
  <2>2. Vouched(pc[r], job[r])
    BY <1>0, <1>1, <2>1 DEF Vouched, PlaceOK, Factors
  <2> QED BY <1>2, <2>1, <2>2
<1> QED BY <1>0, <1>1, <1>3, <1>4, <1>5, <1>6, <1>7, <1>8, <1>9, <1>10 DEF Step

\* What deleting an account leaves of an AuthSession.
LEMMA SessionsQuiet ==
    ASSUME TInv, UNCHANGED vars \/ Accounts, NEW s \in Requests, sess'[s] # None
    PROVE  /\ sess[s] # None /\ sess[s] \in Session /\ sess'[s].auth = sess[s].auth
           /\ sess'[s].user \in {sess[s].user, None}
<1>0. sess[s] \in Session \cup {None}
  BY DEF TInv, TypeOK
<1>1. \A x \in Session : Anonymous(x).user = None /\ Anonymous(x).auth = x.auth
  BY DEF Session, Anonymous
<1>2. ASSUME NEW u \in Users, DeleteUser(u)
      PROVE  sess'[s] = sess[s] \/ (sess[s] \in Session /\ sess'[s] = Anonymous(sess[s]))
  BY <1>0, <1>2 DEF DeleteUser, Anonymous
<1>3. sess' = sess \/ \E u \in Users : DeleteUser(u)
  BY DEF vars, rows, Accounts, Tick, DisableUser, ResetPasswordFor, WipeSso, EnableUser, ToggleGuest
<1> QED BY <1>0, <1>1, <1>2, <1>3, NoneIsNoRecord

LEMMA SessionMembersNext ==
    ASSUME TInv, MemberInv, [Next]_vars, NEW s \in Requests, sess'[s] # None, sess'[s].user # None
    PROVE  sess'[s].user \in joined'[s]
<1>0. ASSUME sess[s] # None, sess'[s].user = sess[s].user PROVE sess'[s].user \in joined'[s]
  <2>1. job[s] # None
    BY <1>0 DEF TInv, RowInv, CallInv
  <2> QED BY <1>0, <2>1, JoinedGrows DEF MemberInv
<1>1. CASE UNCHANGED vars \/ Accounts
  BY <1>0, <1>1, SessionsQuiet
<1>2. ASSUME NEW r \in Requests, Arrival(r) PROVE sess'[s].user \in joined'[s]
  <2>1. sess' = sess
    BY <1>2, ArrivalStarts DEF Starts, Begin, rows
  <2> QED BY <1>0, <2>1
<1>3. ASSUME NEW r \in Requests, Step(r) \/ FallBack(r) \/ CallFails(r) PROVE sess'[s].user \in joined'[s]
  <2>0. SessionsStep(r) /\ pc[r] # "new"
    BY <1>3, SessionRows, StepMoves
  <2>1. CASE sess'[s] = sess[s]
    BY <1>0, <2>1
  <2>2. CASE sess'[s] # sess[s]
    <3>1. /\ pc[r] \in {"create", "setpwd", "setauth"} /\ sess'[s].user = job[r].user
          /\ IF pc[r] = "create" THEN s = r ELSE s = job[r].sess
      <4>0. job[r].time \in Int /\ (pc[r] \in {"setpwd", "setauth"} => job[r].user \in Users)
        BY <2>0, JobOf DEF LocalsOK
      <4>1. \A x \in Session : pc[r] \in {"setpwd", "setauth"} =>
               Waiting(x, job[r].user).user = job[r].user /\ Carrying(x, job[r].user, job[r].time).user = job[r].user
        BY <4>0, ChangedSession
      <4> QED BY <2>0, <2>2, <4>1 DEF SessionsStep, TInv, TypeOK
    <3>2. /\ job[r] # None /\ job[r].kind \in {"authorize"} \cup OnSession
          /\ Vouched(pc[r], job[r]) /\ Origin(r) = s
      BY <2>0, <3>1, JobOf DEF PlaceOK, Vouched, Origin, OnSession, Factors
    <3>3. job[r].user \in joined[s] /\ job[s] # None
      BY <3>2, OriginSettled DEF MemberInv
    <3> QED BY <3>1, <3>3, JoinedGrows
  <2> QED BY <2>1, <2>2
<1> QED BY <1>1, <1>2, <1>3, WhoseStep

LEMMA MemberInit == Init => MemberInv
  BY DEF Init, MemberInv, CodeForMember

LEMMA MemberNext == TInv /\ MemberInv /\ [Next]_vars => MemberInv'
<1> SUFFICES ASSUME TInv, MemberInv, [Next]_vars PROVE MemberInv'
  OBVIOUS
<1>1. \A r \in Requests, u \in Users : job'[r] # None /\ Member(job[r].tenant, u)' => u \in joined'[r]
  BY MembersNext
<1>2. \A s \in Requests : sess'[s] # None /\ sess'[s].user # None => sess'[s].user \in joined'[s]
  BY SessionMembersNext
<1>3. ASSUME NEW q \in Requests, job'[q] # None, Vouched(pc'[q], job'[q])
      PROVE  job'[q].user \in joined'[Origin(q)']
  <2>1. ASSUME Vouched(pc[q], job[q]), job[q] # None, job'[q] = job[q]
        PROVE  job'[q].user \in joined'[Origin(q)']
    <3>1. job[q].kind \in {"authorize"} \cup OnSession
      BY <2>1 DEF Vouched, OnSession, Factors
    <3>2. PICK o \in Requests : o = Origin(q) /\ job[o] # None
      BY <2>1, <3>1, OriginSettled
    <3>3. Origin(q)' = o
      BY <2>1, <3>2 DEF Origin
    <3>4. job[q].user \in joined[o]
      BY <2>1, <3>2 DEF MemberInv
    <3> QED BY <2>1, <3>2, <3>3, <3>4, JoinedGrows
  <2>2. CASE UNCHANGED vars \/ Accounts
    BY <1>3, <2>1, <2>2, Quiet
  <2>3. ASSUME NEW r \in Requests, r # q, Arrival(r) \/ Step(r) \/ FallBack(r) \/ CallFails(r)
        PROVE  job'[q].user \in joined'[Origin(q)']
    BY <1>3, <2>1, <2>3, OthersStay
  <2>4. ASSUME Arrival(q) PROVE job'[q].user \in joined'[Origin(q)']
    <3>1. PICK l, j : Starts(q, l, j)
      BY <2>4, ArrivalStarts
    <3>2. pc'[q] = l /\ job'[q] = j /\ l \in {"sso", "create", "failed", "load", "user"}
      BY <3>1 DEF Starts, Begin, Set, Goto, TInv, TypeOK
    <3>3. j.kind = "login" /\ Home[j.user] = j.tenant /\ j.user \in Users
      BY <1>3, <3>1, <3>2 DEF Vouched, Starts, LocalsOK
    <3>4. PICK s \in Requests : s = j.sess /\ HasSession(s) /\ j.tenant = job[s].tenant
      BY <3>1, <3>3 DEF Starts, OnSession, Factors
    <3>5. job[s] # None /\ j.user \in joined[s]
      BY <3>3, <3>4, JobOf DEF HasSession, MemberInv, Member
    <3>6. Origin(q)' = s
      BY <3>2, <3>3, <3>4 DEF Origin
    <3> QED BY <3>2, <3>4, <3>5, <3>6, JoinedGrows
  <2>5. ASSUME Step(q) \/ FallBack(q) \/ CallFails(q) PROVE job'[q].user \in joined'[Origin(q)']
    <3>1. /\ job[q] # None /\ job[q].kind \in {"authorize"} \cup OnSession
          /\ job'[q].user \in joined[Origin(q)]
      BY <1>3, <2>5, VouchedStep
    <3>2. job'[q].kind = job[q].kind /\ job'[q].sess = job[q].sess
      BY <2>5, StepMoves, MoveIs DEF Moves, Keeps
    <3>3. PICK o \in Requests : o = Origin(q) /\ job[o] # None
      BY <3>1, OriginSettled
    <3>4. Origin(q)' = o
      BY <3>2, <3>3 DEF Origin
    <3> QED BY <3>1, <3>3, <3>4, JoinedGrows
  <2> QED BY <2>2, <2>3, <2>4, <2>5, WhoseStep
<1>4. CodeForMember'
  <2>1. ASSUME NEW q \in Requests, issued'[q] # None PROVE issued'[q].user \in joined'[Origin(q)']
    <3>1. PICK o \in Requests : o = Origin(q) /\ Origin(q)' = o /\ job[o] # None
      BY <2>1, CodeSource
    <3>2. issued'[q].user \in joined[o]
      <4>1. CASE issued[q] # None /\ issued'[q] = issued[q]
        BY <3>1, <4>1 DEF MemberInv, CodeForMember
      <4>2. CASE pc[q] = "issue" /\ issued'[q].user = job[q].user
        <5>1. job[q] # None /\ Vouched(pc[q], job[q])
          BY <4>2, JobOf DEF PlaceOK, Vouched, Factors
        <5> QED BY <3>1, <4>2, <5>1 DEF MemberInv
      <4> QED BY <2>1, <4>1, <4>2, CodeSource
    <3> QED BY <3>1, <3>2, JoinedGrows
  <2> QED BY <2>1 DEF CodeForMember
<1> QED BY <1>1, <1>2, <1>3, <1>4 DEF MemberInv

\* Whatever path led to a code, its account was a member of its tenant at some
\* time since the /authorize call: the checks of resumption and passkey login,
\* and the tenant of a password login, leave no way around.
THEOREM CodesAreForMembers == Spec => []CodeForMember
<1>1. MemberInv => CodeForMember
  BY DEF MemberInv
<1> QED BY <1>1, TypeInit, TypeNext, MemberInit, MemberNext, PTL DEF Spec
-----------------------------------------------------------------------------
(* The lifetime of SSO sessions.                                            *)

\* Where a row of sso_sessions comes from.
LEMMA SsoSource ==
    ASSUME TInv, [Next]_vars, NEW k \in Requests, sso'[k] # None
    PROVE  \/ /\ sso[k] # None /\ sso[k] \in SsoSession /\ sso'[k].user = sso[k].user
              /\ sso'[k].auth = sso[k].auth /\ sso'[k].absolute = sso[k].absolute
           \/ /\ pc[k] = "ssonew" /\ job' = job /\ sso'[k].user = job[k].user
              /\ sso'[k].auth = job[k].time /\ sso'[k].absolute = sso'[k].auth + AbsoluteTtl
<1>0. sso \in [Requests -> SsoSession \cup {None}]
  BY DEF TInv, TypeOK
<1>1. CASE UNCHANGED vars \/ Accounts
  <2>1. sso'[k] = sso[k]
    BY <1>0, <1>1 DEF vars, rows, Accounts, Tick, DisableUser, ResetPasswordFor, WipeSso, EnableUser, DeleteUser,
           ToggleGuest
  <2> QED BY <1>0, <2>1
<1>2. ASSUME NEW r \in Requests, Arrival(r) PROVE sso'[k] = sso[k]
  BY <1>2, ArrivalStarts DEF Starts, Begin, rows
<1>3. ASSUME NEW r \in Requests, Step(r) \/ FallBack(r) \/ CallFails(r)
      PROVE  \/ /\ sso[k] # None /\ sso[k] \in SsoSession /\ sso'[k].user = sso[k].user
                /\ sso'[k].auth = sso[k].auth /\ sso'[k].absolute = sso[k].absolute
             \/ /\ pc[k] = "ssonew" /\ job' = job /\ sso'[k].user = job[k].user
                /\ sso'[k].auth = job[k].time /\ sso'[k].absolute = sso'[k].auth + AbsoluteTtl
  <2>1. SsoStep(r)
    BY <1>3, SsoRows
  <2>2. \A x \in SsoSession, n \in Int : /\ Extended(x, n).user = x.user /\ Extended(x, n).auth = x.auth
                                        /\ Extended(x, n).absolute = x.absolute
    BY ExtendedSso
  <2>3. \A x \in SsoSession : x # None
    BY NoneIsNoRecord
  <2>4. sso[k] # None => sso[k] \in SsoSession
    BY <1>0
  <2>5. CASE \E m \in Requests, n \in Int : sso[m] \in SsoSession /\ sso' = [sso EXCEPT ![m] = Extended(sso[m], n)]
    BY <1>0, <2>2, <2>3, <2>4, <2>5
  <2> QED BY <1>0, <2>1, <2>3, <2>4, <2>5 DEF SsoStep
<1> QED BY <1>0, <1>1, <1>2, <1>3, WhoseStep

\* A call is carried by an SSO session from the moment it finds it valid.
LEMMA CarriedStep ==
    ASSUME TInv, [Next]_vars, NEW q \in Requests, job'[q] # None, Carried(pc'[q], job'[q])
    PROVE  \/ job[q] # None /\ Carried(pc[q], job[q]) /\ job'[q] = job[q]
           \/ \E k \in Requests : /\ sso[k] \in SsoSession /\ SsoValidAt(sso[k], now) /\ proved' = proved
                                  /\ job'[q].time = now /\ job'[q].user = sso[k].user /\ job'[q].auth = sso[k].auth
<1>1. CASE UNCHANGED vars \/ Accounts
  BY <1>1, Quiet
<1>2. ASSUME NEW r \in Requests, r # q, Arrival(r) \/ Step(r) \/ FallBack(r) \/ CallFails(r)
      PROVE  pc'[q] = pc[q] /\ job'[q] = job[q]
  BY <1>2, OthersStay
<1>3. ~Arrival(q)
  BY ArrivalStarts DEF Starts, Begin, Set, Goto, TInv, TypeOK, Carried
<1>4. CASE FindSso(q)
  <2>0. job[q] \in Job /\ now \in Int /\ proved' = proved
    <3>1. pc[q] # "new"
      BY <1>4 DEF FindSso
    <3> QED BY <1>4, <3>1, JobOf DEF FindSso, history
  <2>1. PICK k \in Requests : /\ sso[k] \in SsoSession /\ SsoValidAt(sso[k], now)
                             /\ job'[q] = Resumed(job[q], now, sso[k].user, sso[k].auth)
    BY <1>4, MoveFindSso, MoveIs DEF Carried
  <2>2. PICK u \in Users, a \in Int : u = sso[k].user /\ a = sso[k].auth
    BY <2>1 DEF SsoSession
  <2>3. job'[q].time = now /\ job'[q].user = u /\ job'[q].auth = a
    <3>1. /\ Resumed(job[q], now, u, a).time = now /\ Resumed(job[q], now, u, a).user = u
          /\ Resumed(job[q], now, u, a).auth = a
      BY <2>0, ResumedJob
    <3> QED BY <2>1, <2>2, <3>1, Zenon
  <2> QED BY <2>0, <2>1, <2>2, <2>3
<1>5. ~(FindSession(q) \/ SetAuthenticatedUser(q))
  <2>1. ~FindSession(q)
    <3>1. ASSUME FindSession(q) PROVE job[q] # None /\ job'[q].kind \in OnSession
      <4>1. pc[q] = "load" /\ pc[q] # "new" /\ job'[q].kind = job[q].kind
        <5>1. Step(q) /\ pc[q] = "load"
          BY <3>1 DEF Step, FindSession
        <5> QED BY <5>1, StepMoves, MoveIs DEF Moves, Keeps
      <4> QED BY <4>1, JobOf DEF PlaceOK
    <3> QED BY <3>1 DEF Carried, OnSession, Factors
  <2>2. ~SetAuthenticatedUser(q)
    <3>1. ASSUME SetAuthenticatedUser(q) PROVE job'[q].kind \in Factors
      BY <3>1, MoveSetAuthenticatedUser, MoveIs DEF Moves, Keeps
    <3> QED BY <3>1 DEF Carried, Factors
  <2> QED BY <2>1, <2>2
<1>6. CASE DeleteSso(q) \/ CheckMember(q) \/ ExtendIdle(q) \/ CheckUser(q) \/ FallBack(q)
  <2>1. job'[q] = job[q] /\ pc[q] \in {"end", "member", "extend", "user", "consent"}
    BY <1>6, MoveDeleteSso, MoveCheckMember, MoveExtendIdle, MoveCheckUser, MoveFallBack, MoveIs
       DEF Forgets, Carried
  <2>2. pc[q] # "end"
    BY <2>1, JobOf DEF PlaceOK, Carried
  <2> QED BY <2>1, <2>2 DEF Carried
<1>7. ~(CreateSession(q) \/ DropSession(q) \/ SetPasswordVerified(q) \/ CallFails(q))
  BY MoveEnds, MoveIs DEF Carried, Ended
<1>8. CASE UpdatePassword(q) \/ CreateSso(q) \/ CheckConsent(q) \/ UpsertConsent(q) \/ IssueCode(q)
  <2>1. job'[q] = job[q] /\ pc[q] \in {"newpwd", "ssonew", "consent", "upsert", "issue"}
    BY <1>8, MoveUpdatePassword, MoveCreateSso, MoveCheckConsent, MoveUpsertConsent, MoveIssueCode, MoveIs
  <2>2. pc[q] \in {"consent", "issue"} /\ job[q] # None
    BY <2>1, JobOf DEF PlaceOK, Carried, Factors
  <2> QED BY <2>1, <2>2 DEF Carried
<1> QED BY <1>1, <1>2, <1>3, <1>4, <1>5, <1>6, <1>7, <1>8, WhoseStep DEF Step

LEMMA ResumeInit == Init => ResumeInv
  BY DEF Init, ResumeInv, ResumeWithinLifetime

LEMMA ResumeNext == TInv /\ ResumeInv /\ [Next]_vars => ResumeInv'
<1> SUFFICES ASSUME TInv, ResumeInv, [Next]_vars PROVE ResumeInv'
  OBVIOUS
<1>1. \A k \in Requests : sso'[k] # None => sso'[k].absolute = sso'[k].auth + AbsoluteTtl
  BY SsoSource DEF ResumeInv
<1>2. \A q \in Requests : job'[q] # None /\ Carried(pc'[q], job'[q]) => job'[q].auth + AbsoluteTtl > job'[q].time
  <2>1. \A k \in Requests : sso[k] \in SsoSession /\ SsoValidAt(sso[k], now) =>
           sso[k].auth + AbsoluteTtl > now
    BY NoneIsNoRecord DEF ResumeInv, SsoValidAt
  <2> QED BY <2>1, CarriedStep DEF ResumeInv
<1>3. ResumeWithinLifetime'
  <2>1. ASSUME NEW q \in Requests, issued'[q] # None, job'[q].kind = "authorize"
        PROVE  issued'[q].auth + AbsoluteTtl > job'[q].time
    <3>1. CASE issued[q] # None /\ issued'[q] = issued[q]
      BY <2>1, <3>1, CodeSource DEF ResumeInv, ResumeWithinLifetime
    <3>2. CASE pc[q] = "issue" /\ issued'[q].auth = job[q].auth
      <4>1. job[q] # None /\ job'[q] = job[q] /\ Carried(pc[q], job[q])
        BY <2>1, <3>2, CodeSource DEF Carried
      <4> QED BY <3>2, <4>1 DEF ResumeInv
    <3> QED BY <2>1, <3>1, <3>2, CodeSource
  <2> QED BY <2>1 DEF ResumeWithinLifetime
<1> QED BY <1>1, <1>2, <1>3 DEF ResumeInv

\* However often an idle limit is extended, and by how many calls at once, a
\* code that rests on an SSO session is asked for within its absolute lifetime.
THEOREM ResumesAreInTime == Spec => []ResumeWithinLifetime
<1>1. ResumeInv => ResumeWithinLifetime
  BY DEF ResumeInv
<1> QED BY <1>1, TypeInit, TypeNext, ResumeInit, ResumeNext, PTL DEF Spec
-----------------------------------------------------------------------------
(* Reauthentication.                                                        *)

\* A login since the /authorize call is always recent enough.
LEMMA RecentLogin ==
    ASSUME NEW o \in Job, NEW a \in Int, a >= o.time
    PROVE  Recent(o, a)
<1>1. o.time \in Int /\ (o.maxAge # None => o.maxAge \in Nat)
  BY DEF Job
<1> QED BY <1>1 DEF Recent

\* With prompt=login no SSO session is looked at.
LEMMA PromptNext ==
    ASSUME TInv, RecentInv, [Next]_vars, NEW q \in Requests, job'[q] # None, job'[q].kind = "authorize",
           job'[q].prompt = "login"
    PROVE  pc'[q] \in {"create"} \cup Ended /\ job'[q].user = None /\ job'[q].auth = None
<1>1. ASSUME job'[q] = job[q], pc'[q] = pc[q] \/ pc'[q] \in Ended
      PROVE  pc'[q] \in {"create"} \cup Ended /\ job'[q].user = None /\ job'[q].auth = None
  BY <1>1 DEF RecentInv
<1>2. CASE UNCHANGED vars \/ Accounts
  BY <1>1, <1>2, Quiet
<1>3. CASE \E r \in Requests \ {q} : Arrival(r) \/ Step(r) \/ FallBack(r) \/ CallFails(r)
  BY <1>1, <1>3, OthersStay
<1>4. CASE Arrival(q)
  <2>1. PICK l, j : Starts(q, l, j)
    BY <1>4, ArrivalStarts
  <2>2. pc'[q] = l /\ job'[q] = j
    BY <2>1 DEF Starts, Begin, Set, Goto, TInv, TypeOK
  <2> QED BY <2>1, <2>2 DEF Starts
<1>5. CASE Step(q) \/ FallBack(q) \/ CallFails(q)
  <2>1. pc[q] \notin Ended \cup {"new"} /\ job'[q].kind = job[q].kind /\ job'[q].prompt = job[q].prompt
    BY <1>5, StepMoves, MoveIs DEF Moves, Keeps
  <2>2. pc[q] = "create"
    BY <2>1, JobOf DEF RecentInv
  <2>3. CreateSession(q) \/ CallFails(q)
    BY <1>5, <2>2 DEF Step, FindSso, DeleteSso, CheckMember, ExtendIdle, FindSession, DropSession,
         CheckUser, SetPasswordVerified, UpdatePassword, SetAuthenticatedUser, CreateSso, CheckConsent,
         UpsertConsent, IssueCode, FallBack
  <2> QED BY <1>1, <2>3, MoveEnds, MoveIs
<1> QED BY <1>2, <1>3, <1>4, <1>5, WhoseStep

\* A resumed call that goes on has passed the check of max_age.
LEMMA CarriedRecent ==
    ASSUME TInv, RecentInv, [Next]_vars, NEW q \in Requests, job'[q] # None, job'[q].kind = "authorize",
           pc'[q] \in {"create", "consent", "issue"}, job'[q].user # None
    PROVE  Recent(job'[q], job'[q].auth)
<1>1. ASSUME job'[q] = job[q], pc[q] \in {"create", "consent", "issue"} PROVE Recent(job'[q], job'[q].auth)
  BY <1>1 DEF RecentInv
<1>2. CASE UNCHANGED vars \/ Accounts
  BY <1>1, <1>2, Quiet
<1>3. CASE \E r \in Requests \ {q} : Arrival(r) \/ Step(r) \/ FallBack(r) \/ CallFails(r)
  BY <1>1, <1>3, OthersStay
<1>4. ~Arrival(q)
  BY ArrivalStarts DEF Starts, Begin, Set, Goto, TInv, TypeOK
<1>5. ASSUME Step(q) \/ FallBack(q) \/ CallFails(q) PROVE Recent(job'[q], job'[q].auth)
  <2>0. pc[q] # "new" /\ job'[q].kind = job[q].kind /\ job[q] \in Job /\ job[q] # None
        /\ PlaceOK(pc[q], job[q]) /\ LocalsOK(pc[q], job[q])
    BY <1>5, StepMoves, MoveIs, JobOf DEF Moves, Keeps
  <2>1. job'[q] # Forgetful(job[q])
    BY <2>0, ForgetfulJob
  <2>2. ~FindSso(q)
    <3>1. ASSUME FindSso(q) PROVE job'[q] = job[q]
      BY <3>1, MoveFindSso, MoveIs
    <3> QED BY <2>0, <3>1 DEF FindSso, LocalsOK
  <2>3. ~(FindSession(q) \/ SetAuthenticatedUser(q) \/ UpdatePassword(q) \/ CreateSso(q) \/ UpsertConsent(q))
    BY <2>0 DEF FindSession, SetAuthenticatedUser, UpdatePassword, CreateSso, UpsertConsent, PlaceOK,
         OnSession, Factors
  <2>4. ~(CreateSession(q) \/ DropSession(q) \/ SetPasswordVerified(q) \/ CallFails(q))
    BY MoveEnds, MoveIs DEF Ended
  <2>5. ~(DeleteSso(q) \/ CheckMember(q) \/ CheckUser(q))
    BY <2>0, <2>1, MoveDeleteSso, MoveCheckMember, MoveCheckUser, MoveIs DEF Forgets
  <2>6. CASE CheckConsent(q) \/ IssueCode(q) \/ FallBack(q)
    BY <1>1, <2>1, <2>6, MoveCheckConsent, MoveIssueCode, MoveFallBack, MoveIs DEF Forgets
  <2>7. CASE ExtendIdle(q)
    <3>1. pc[q] = "extend" /\ job'[q] = job[q] /\ ~TooOld(job[q].auth, job[q].maxAge)
      BY <2>1, <2>7, MoveExtendIdle, MoveIs DEF Forgets
    <3>2. job[q].prompt # "login"
      BY <2>0, <3>1 DEF RecentInv, Ended
    <3>3. /\ job[q].auth \in Int /\ job[q].time \in Int /\ now \in Int /\ job[q].time <= now
          /\ job[q].maxAge # None => job[q].maxAge \in Nat
      BY <2>0, <3>1, JobOf DEF LocalsOK, Job
    <3> QED BY <3>1, <3>2, <3>3 DEF TooOld, Recent
  <2> QED BY <1>5, <2>2, <2>3, <2>4, <2>5, <2>6, <2>7 DEF Step
<1> QED BY <1>2, <1>3, <1>4, <1>5, WhoseStep

\* Where an AuthSession comes from: it was there, a call named an account in it,
\* or its own call has just inserted it.
NamedBy(r, s) == pc[r] \in {"setpwd", "setauth"} /\ job[r].sess = s
                 /\ sess'[s].user = job[r].user /\ seen'[s] = seen[s] \cup {job[r].user}

LEMMA SessionSource ==
    ASSUME TInv, [Next]_vars, NEW s \in Requests, sess'[s] # None
    PROVE  \/ /\ sess[s] # None /\ sess'[s].auth = sess[s].auth /\ seen'[s] = seen[s]
              /\ sess'[s].user \in {sess[s].user, None}
           \/ \E r \in Requests : /\ NamedBy(r, s) /\ sess[s] # None
                                  /\ pc[r] = "setpwd" => sess'[s].auth = sess[s].auth
                                  /\ pc[r] = "setauth" => sess'[s].auth = job[r].time
           \/ /\ pc[s] = "create" /\ job' = job /\ sess'[s].user = job[s].user /\ sess'[s].auth = job[s].auth
              /\ seen'[s] = IF job[s].user = None THEN {} ELSE {job[s].user}
<1>0. sess \in [Requests -> Session \cup {None}] /\ seen \in [Requests -> SUBSET Users]
  BY DEF TInv, TypeOK
<1>1. CASE UNCHANGED vars \/ Accounts
  BY <1>1, SessionsQuiet, Quiet
<1>2. ASSUME NEW r \in Requests, Arrival(r) PROVE sess' = sess /\ seen' = seen
  BY <1>2, ArrivalStarts DEF Starts, Begin, rows
<1>3. ASSUME NEW r \in Requests, Step(r) \/ FallBack(r) \/ CallFails(r), sess'[s] # sess[s] \/ seen'[s] # seen[s]
      PROVE  \/ /\ NamedBy(r, s) /\ sess[s] # None
                /\ pc[r] = "setpwd" => sess'[s].auth = sess[s].auth
                /\ pc[r] = "setauth" => sess'[s].auth = job[r].time
             \/ /\ pc[s] = "create" /\ job' = job /\ sess'[s].user = job[s].user /\ sess'[s].auth = job[s].auth
                /\ seen'[s] = IF job[s].user = None THEN {} ELSE {job[s].user}
  <2>1. SessionsStep(r) /\ pc[r] # "new"
    BY <1>3, SessionRows, StepMoves
  <2>2. job[r].time \in Int /\ (pc[r] \in {"setpwd", "setauth"} => job[r].user \in Users)
    BY <2>1, JobOf DEF LocalsOK
  <2>a. \A x \in Session : pc[r] \in {"setpwd", "setauth"} =>
           /\ Waiting(x, job[r].user).user = job[r].user /\ Waiting(x, job[r].user).auth = x.auth
           /\ Carrying(x, job[r].user, job[r].time).user = job[r].user
           /\ Carrying(x, job[r].user, job[r].time).auth = job[r].time
    BY <2>2, ChangedSession
  <2>3. CASE pc[r] = "create"
    BY <1>0, <1>3, <2>1, <2>3 DEF SessionsStep
  <2>4. CASE pc[r] = "setpwd"
    <3>1. /\ s = job[r].sess /\ sess[s] \in Session /\ sess'[s] = Waiting(sess[s], job[r].user)
          /\ seen'[s] = seen[s] \cup {job[r].user}
      BY <1>0, <1>3, <2>1, <2>4 DEF SessionsStep
    <3>2. sess[s] # None
      BY <3>1, NoneIsNoRecord
    <3> QED BY <2>a, <2>4, <3>1, <3>2 DEF NamedBy
  <2>5. CASE pc[r] = "setauth"
    <3>1. /\ s = job[r].sess /\ sess[s] \in Session /\ sess'[s] = Carrying(sess[s], job[r].user, job[r].time)
          /\ seen'[s] = seen[s] \cup {job[r].user}
      BY <1>0, <1>3, <2>1, <2>5 DEF SessionsStep
    <3>2. sess[s] # None
      BY <3>1, NoneIsNoRecord
    <3> QED BY <2>a, <2>5, <3>1, <3>2 DEF NamedBy
  <2>6. pc[r] \in {"create", "setpwd", "setauth"}
    BY <1>0, <1>3, <2>1 DEF SessionsStep
  <2> QED BY <2>3, <2>4, <2>5, <2>6
<1> QED BY <1>0, <1>1, <1>2, <1>3, WhoseStep

LEMMA SessionRecent ==
    ASSUME TInv, RecentInv, [Next]_vars, NEW s \in Requests, sess'[s] # None, sess'[s].auth # None
    PROVE  Recent(job'[s], sess'[s].auth)
<1>1. ASSUME sess[s] # None PROVE job'[s] = job[s] /\ job[s] \in Job
  <2>1. pc[s] = "ok"
    BY <1>1 DEF TInv, RowInv
  <2> QED BY <2>1, Settled, JobOf DEF Ended
<1>2. CASE sess[s] # None /\ sess'[s].auth = sess[s].auth
  BY <1>1, <1>2 DEF RecentInv
<1>3. ASSUME NEW r \in Requests, NamedBy(r, s), sess[s] # None, pc[r] = "setauth", sess'[s].auth = job[r].time
      PROVE  Recent(job'[s], sess'[s].auth)
  <2>1. job[r].time \in Int /\ job[s].time <= job[r].time
    <3>1. job[r].kind \in OnSession /\ job[r].time \in Int /\ OriginOK(r)
      BY <1>3, JobOf DEF PlaceOK, OnSession
    <3> QED BY <1>3, <3>1 DEF OriginOK, NamedBy
  <2>2. job[s].time \in Int
    BY <1>1, <1>3 DEF Job
  <2>3. PICK n \in Int : n = job[r].time /\ n >= job[s].time
    BY <2>1, <2>2
  <2>4. Recent(job[s], n)
    BY <1>1, <1>3, <2>3, RecentLogin
  <2> QED BY <1>1, <1>3, <2>3, <2>4
<1>4. CASE pc[s] = "create" /\ job' = job /\ sess'[s].auth = job[s].auth
  <2>1. /\ job[s] # None /\ job[s].kind = "authorize" /\ job[s].user # None
    BY <1>4, JobOf, NoneAssumption DEF PlaceOK, LocalsOK
  <2> QED BY <1>4, <2>1 DEF RecentInv
<1> QED BY <1>2, <1>3, <1>4, SessionSource DEF NamedBy

\* An approval takes over the auth_time of its AuthSession.
LEMMA ApprovalSource ==
    ASSUME TInv, [Next]_vars, NEW q \in Requests, job'[q] # None, job'[q].kind = "approve",
           pc'[q] \in {"upsert", "issue"}
    PROVE  /\ job[q] # None /\ job[q].kind = "approve" /\ job'[q].sess = job[q].sess
           /\ \/ job'[q] = job[q] /\ pc[q] \in {"upsert", "issue"}
              \/ \E s \in Requests : /\ s = job[q].sess /\ sess[s] # None /\ sess[s].user # None
                                     /\ sess[s].auth # None /\ job'[q].user = sess[s].user
                                     /\ job'[q].auth = sess[s].auth
<1>1. CASE UNCHANGED vars \/ Accounts
  BY <1>1, Quiet
<1>2. CASE \E r \in Requests \ {q} : Arrival(r) \/ Step(r) \/ FallBack(r) \/ CallFails(r)
  BY <1>2, OthersStay
<1>3. ~Arrival(q)
  BY ArrivalStarts DEF Starts, Begin, Set, Goto, TInv, TypeOK
<1>4. CASE Step(q) \/ FallBack(q) \/ CallFails(q)
  <2>0. /\ pc[q] # "new" /\ job'[q].kind = job[q].kind /\ job'[q].sess = job[q].sess
        /\ job[q] \in Job /\ job[q] # None /\ PlaceOK(pc[q], job[q])
    BY <1>4, StepMoves, MoveIs, JobOf DEF Moves, Keeps
  <2>1. CASE pc'[q] = "issue"
    BY <1>4, <2>0, <2>1, ToIssue DEF PlaceOK, Factors
  <2>2. CASE pc'[q] = "upsert"
    <3>1. FindSession(q)
      <4>1. pc[q] \notin {"sso", "end", "expire", "extend", "create", "user", "member", "setpwd", "newpwd",
                         "ssonew", "setauth", "consent"}
        BY <2>0 DEF PlaceOK, Factors
      <4>2. ~(UpsertConsent(q) \/ IssueCode(q) \/ DropSession(q) \/ CallFails(q))
        BY <2>2, MoveUpsertConsent, MoveIssueCode, MoveEnds, MoveIs DEF Ended
      <4>3. ~FallBack(q)
        BY <2>0, MoveFallBack
      <4> QED BY <1>4, <4>1, <4>2, <4>3 DEF Step, FindSso, DeleteSso, CheckMember, ExtendIdle, CreateSession,
               CheckUser, SetPasswordVerified, UpdatePassword, SetAuthenticatedUser, CreateSso, CheckConsent
    <3>2. PICK s \in Requests : /\ s = job[q].sess /\ sess[s] \in Session /\ Admits("approve", sess[s])
                               /\ sess[s].user \in Users \cup {None}
                               /\ job'[q] = Loaded(job[q], sess[s].scope, sess[s].auth, sess[s].user)
      BY <2>0, <2>2, <3>1, MoveFindSession, MoveIs
    <3>3. job'[q].user = sess[s].user /\ job'[q].auth = sess[s].auth
      BY <2>0, <3>2, LoadedFrom
    <3>4. sess[s] # None /\ sess[s].user # None /\ sess[s].auth # None
      BY <3>2, NoneIsNoRecord DEF Admits
    <3> QED BY <2>0, <3>2, <3>3, <3>4
  <2> QED BY <2>1, <2>2
<1> QED BY <1>1, <1>2, <1>3, <1>4, WhoseStep

LEMMA RecentInit == Init => RecentInv
  BY DEF Init, RecentInv, ReauthenticationHonoured

LEMMA RecentNext == TInv /\ RecentInv /\ [Next]_vars => RecentInv'
<1> SUFFICES ASSUME TInv, RecentInv, [Next]_vars PROVE RecentInv'
  OBVIOUS
<1>1. ASSUME NEW r \in Requests, job'[r] # None, job'[r].kind = "approve", pc'[r] \in {"upsert", "issue"}
      PROVE  Recent(job'[job'[r].sess], job'[r].auth)
  <2>1. PICK s \in Requests : s = job[r].sess /\ pc[s] = "ok" /\ job'[s] = job[s]
    <3>1. job[r] # None /\ job[r].kind = "approve"
      BY <1>1, ApprovalSource
    <3>2. job[r].sess \in Requests /\ pc[job[r].sess] = "ok"
      BY <3>1 DEF TInv, CallInv, OriginOK, OnSession
    <3> QED BY <3>2, Settled DEF Ended
  <2>2. Recent(job[s], job'[r].auth)
    BY <1>1, <2>1, ApprovalSource DEF RecentInv
  <2> QED BY <1>1, <2>1, <2>2, ApprovalSource
<1>2. ReauthenticationHonoured'
  <2>1. ASSUME NEW q \in Requests, issued'[q] # None PROVE Recent(job'[Origin(q)'], issued'[q].auth)
    <3>1. PICK o \in Requests : o = Origin(q) /\ Origin(q)' = o /\ job'[o] = job[o] /\ job[o] # None
      BY <2>1, CodeSource
    <3>2. CASE issued[q] # None /\ issued'[q] = issued[q]
      BY <3>1, <3>2 DEF RecentInv, ReauthenticationHonoured, Recent
    <3>3. CASE pc[q] = "issue" /\ issued'[q].auth = job[q].auth
      <4>0. /\ job[q] \in Job /\ job[q] # None /\ PlaceOK(pc[q], job[q]) /\ LocalsOK(pc[q], job[q])
            /\ job[q].time \in Int
        BY <3>3, JobOf
      <4>1. CASE job[q].kind = "authorize"
        <5>1. job[q].user # None /\ o = q
          BY <3>1, <3>3, <4>0, <4>1, NoneAssumption DEF LocalsOK, Origin
        <5> QED BY <3>1, <3>3, <4>0, <4>1, <5>1 DEF RecentInv
      <4>2. CASE job[q].kind = "approve"
        BY <3>1, <3>3, <4>0, <4>2 DEF RecentInv, Origin
      <4>3. CASE job[q].kind \in Factors
        <5>1. job[q].auth = job[q].time
          BY <3>3, <4>0, <4>3 DEF LocalsOK
        <5>2. job[o].time <= job[q].time /\ job[o] \in Job
          BY <3>1, <4>0, <4>3, OriginSettled DEF OnSession, Factors, TInv, TypeOK
        <5>3. job[o].time \in Int
          BY <5>2 DEF Job
        <5> QED BY <3>1, <3>3, <4>0, <5>1, <5>2, <5>3, RecentLogin
      <4> QED BY <3>3, <4>0, <4>1, <4>2, <4>3 DEF PlaceOK
    <3> QED BY <2>1, <3>2, <3>3, CodeSource
  <2> QED BY <2>1 DEF ReauthenticationHonoured, Recent
<1> QED BY <1>1, <1>2, PromptNext, CarriedRecent, SessionRecent DEF RecentInv

\* A code satisfies the prompt=login and the max_age of its /authorize request,
\* also when an SSO session, a second step or a consent screen lies between.
THEOREM ReauthenticationsAreHonoured == Spec => []ReauthenticationHonoured
<1>1. RecentInv => ReauthenticationHonoured
  BY DEF RecentInv
<1> QED BY <1>1, TypeInit, TypeNext, RecentInit, RecentNext, PTL DEF Spec
-----------------------------------------------------------------------------
(* Genuine login times.                                                     *)

LEMMA ProvedGrows ==
    ASSUME TInv, [Next]_vars
    PROVE  proved \subseteq proved'
<1>1. ASSUME NEW r \in Requests, Arrival(r) PROVE proved' = proved
  BY <1>1, ArrivalStarts DEF Starts, Begin
<1>2. ASSUME NEW r \in Requests, Step(r) \/ FallBack(r) \/ CallFails(r) PROVE proved \subseteq proved'
  <2>1. CASE CheckUser(r)
    BY <2>1, MoveCheckUser
  <2>2. CASE ~CheckUser(r)
    BY <1>2, <2>2 DEF Step, FindSso, DeleteSso, CheckMember, ExtendIdle, CreateSession, FindSession, DropSession,
         SetPasswordVerified, UpdatePassword, SetAuthenticatedUser, CreateSso, CheckConsent,
         UpsertConsent, IssueCode, FallBack, CallFails, history
  <2> QED BY <2>1, <2>2
<1> QED BY <1>1, <1>2, WhoseStep, Quiet

LEMMA SeenStep ==
    ASSUME TInv, [Next]_vars, NEW s \in Requests
    PROVE  \/ seen'[s] = seen[s]
           \/ \E u \in Users : seen'[s] = seen[s] \cup {u}
           \/ pc[s] = "create" /\ (seen'[s] = {} \/ \E u \in Users : seen'[s] = {u})
<1>0. seen \in [Requests -> SUBSET Users]
  BY DEF TInv, TypeOK
<1>1. ASSUME NEW r \in Requests, Arrival(r) PROVE seen' = seen
  BY <1>1, ArrivalStarts DEF Starts, Begin
<1>2. ASSUME NEW r \in Requests, Step(r) \/ FallBack(r) \/ CallFails(r)
      PROVE  \/ seen'[s] = seen[s]
             \/ \E u \in Users : seen'[s] = seen[s] \cup {u}
             \/ pc[s] = "create" /\ (seen'[s] = {} \/ \E u \in Users : seen'[s] = {u})
  <2>1. SessionsStep(r) /\ pc[r] # "new"
    BY <1>2, SessionRows, StepMoves
  <2>2. job[r].user \in Users \cup {None} /\ (pc[r] \in {"setpwd", "setauth"} => job[r].user \in Users)
    BY <2>1, JobOf DEF LocalsOK, Job
  <2> QED BY <1>0, <2>1, <2>2 DEF SessionsStep
<1> QED BY <1>1, <1>2, WhoseStep, Quiet

\* An AuthSession made by /authorize has the account of the session that
\* carried the call there.
LEMMA CreateSource ==
    ASSUME TInv, [Next]_vars, NEW q \in Requests, job'[q] # None, pc'[q] = "create", job'[q].user # None
    PROVE  job[q] # None /\ job'[q] = job[q] /\ (pc[q] = "create" \/ Carried(pc[q], job[q]))
<1>2. CASE UNCHANGED vars \/ Accounts
  BY <1>2, Quiet
<1>3. CASE \E r \in Requests \ {q} : Arrival(r) \/ Step(r) \/ FallBack(r) \/ CallFails(r)
  BY <1>3, OthersStay
<1>4. ~Arrival(q)
  <2>1. ASSUME NEW l, NEW j, Starts(q, l, j) PROVE FALSE
    <3>1. l = "create" /\ job'[q] = j /\ j.user # None
      BY <2>1 DEF Starts, Begin, Set, Goto, TInv, TypeOK
    <3> QED BY <2>1, <3>1 DEF Starts, PlaceOK
  <2> QED BY <2>1, ArrivalStarts
<1>5. CASE Step(q) \/ FallBack(q) \/ CallFails(q)
  <2>0. /\ pc[q] # "new" /\ job[q] \in Job /\ job[q] # None /\ job'[q].kind = job[q].kind
        /\ PlaceOK(pc[q], job[q]) /\ LocalsOK(pc[q], job[q]) /\ PlaceOK(pc'[q], job'[q])
    BY <1>5, StepMoves, MoveIs, JobOf DEF Moves, Keeps
  <2>1. job'[q] # Forgetful(job[q]) /\ job[q].kind = "authorize"
    BY <2>0, ForgetfulJob DEF PlaceOK
  <2>2. ~FindSso(q)
    <3>1. ASSUME FindSso(q) PROVE job'[q] = job[q]
      BY <3>1, MoveFindSso, MoveIs
    <3> QED BY <2>0, <3>1 DEF FindSso, LocalsOK
  <2>3. ~(FindSession(q) \/ SetAuthenticatedUser(q) \/ UpdatePassword(q) \/ CreateSso(q) \/ UpsertConsent(q))
    BY <2>0, <2>1 DEF FindSession, SetAuthenticatedUser, UpdatePassword, CreateSso, UpsertConsent, PlaceOK,
         OnSession, Factors
  <2>4. ~(CreateSession(q) \/ DropSession(q) \/ SetPasswordVerified(q) \/ CallFails(q))
    BY MoveEnds, MoveIs DEF Ended
  <2>5. ~(DeleteSso(q) \/ CheckMember(q) \/ CheckUser(q) \/ IssueCode(q))
    BY <2>0, <2>1, MoveDeleteSso, MoveCheckMember, MoveCheckUser, MoveIssueCode, MoveIs DEF Forgets
  <2>6. CheckConsent(q) \/ FallBack(q) \/ ExtendIdle(q)
    BY <1>5, <2>2, <2>3, <2>4, <2>5 DEF Step
  <2>7. job'[q] = job[q] /\ pc[q] \in {"consent", "extend"}
    BY <2>1, <2>6, MoveCheckConsent, MoveExtendIdle, MoveFallBack, MoveIs DEF Forgets
  <2> QED BY <2>0, <2>1, <2>7 DEF Carried
<1> QED BY <1>2, <1>3, <1>4, <1>5, WhoseStep

\* A call has completed its login by the statement that checks its credential.
LEMMA CompletedSource ==
    ASSUME TInv, [Next]_vars, NEW q \in Requests, job'[q] # None, Completed(pc'[q], job'[q])
    PROVE  \/ /\ job[q] # None /\ Completed(pc[q], job[q])
              /\ job'[q].user = job[q].user /\ job'[q].time = job[q].time
           \/ <<job'[q].user, job'[q].time>> \in proved'
<1>2. CASE UNCHANGED vars \/ Accounts
  BY <1>2, Quiet
<1>3. CASE \E r \in Requests \ {q} : Arrival(r) \/ Step(r) \/ FallBack(r) \/ CallFails(r)
  BY <1>3, OthersStay
<1>4. ~Arrival(q)
  <2>1. ASSUME NEW l, NEW j, Starts(q, l, j) PROVE FALSE
    <3>1. l = pc'[q] /\ job'[q] = j
      BY <2>1 DEF Starts, Begin, Set, Goto, TInv, TypeOK
    <3> QED BY <2>1, <3>1 DEF Starts, Completed
  <2> QED BY <2>1, ArrivalStarts
<1>5. ASSUME Step(q) \/ FallBack(q) \/ CallFails(q)
      PROVE  \/ /\ job[q] # None /\ Completed(pc[q], job[q])
                /\ job'[q].user = job[q].user /\ job'[q].time = job[q].time
             \/ <<job'[q].user, job'[q].time>> \in proved'
  <2>0. /\ pc[q] # "new" /\ job[q] \in Job /\ job[q] # None /\ job'[q].kind = job[q].kind
        /\ PlaceOK(pc[q], job[q]) /\ LocalsOK(pc[q], job[q]) /\ job[q].time \in Int
    BY <1>5, StepMoves, MoveIs, JobOf DEF Moves, Keeps
  <2>1. job[q].kind \in Factors /\ job[q].kind # "authorize"
    BY <2>0 DEF Completed, Factors
  <2>2. ~(FindSso(q) \/ DeleteSso(q) \/ ExtendIdle(q) \/ FallBack(q) \/ UpsertConsent(q))
    BY <2>0, <2>1, MoveFallBack DEF FindSso, DeleteSso, ExtendIdle, UpsertConsent, PlaceOK, Factors
  <2>3. ~(CreateSession(q) \/ DropSession(q) \/ SetPasswordVerified(q) \/ CallFails(q))
    BY MoveEnds, MoveIs DEF Ended, Completed
  <2>4. CASE FindSession(q)
    <3>1. job[q].kind = "passkey"
      <4>1. pc'[q] \in {"failed", "purge"} \/ pc'[q] = AfterLoad(job[q].kind)
        BY <2>4, MoveFindSession, MoveIs
      <4> QED BY <2>0, <2>1, <4>1 DEF AfterLoad, Completed, Factors
    <3>2. job'[q].user = job[q].user /\ job'[q].time = job[q].time /\ pc[q] = "load"
      BY <2>0, <2>4, <3>1, MoveFindSession, MoveIs, LoadedFrom
    <3> QED BY <2>0, <3>1, <3>2 DEF Completed
  <2>5. CASE SetAuthenticatedUser(q)
    <3>1. job'[q].user = job[q].user /\ job'[q].time = job[q].time /\ pc[q] = "setauth"
      BY <2>0, <2>5, MoveSetAuthenticatedUser, MoveIs, LoggedJob
    <3> QED BY <2>0, <2>1, <3>1 DEF Completed
  <2>6. CASE CheckMember(q)
    <3>1. pc[q] = "member" /\ job'[q] = job[q] /\ job[q].kind = "passkey"
      BY <2>0, <2>1, <2>6, MoveCheckMember, MoveIs DEF Forgets, PlaceOK
    <3> QED BY <2>0, <3>1 DEF Completed
  <2>7. CASE CheckUser(q)
    <3>1. job'[q] = job[q] /\ pc'[q] \notin {"setpwd", "failed"}
      BY <2>1, <2>7, MoveCheckUser, MoveIs DEF Forgets, Completed
    <3>2. <<job[q].user, job[q].time>> \in proved'
      BY <2>1, <2>7, <3>1, MoveCheckUser, MoveIs DEF Forgets
    <3> QED BY <3>1, <3>2
  <2>8. CASE UpdatePassword(q) \/ CreateSso(q) \/ CheckConsent(q) \/ IssueCode(q)
    <3>1. job'[q] = job[q] /\ pc[q] \in {"newpwd", "ssonew", "consent", "issue"}
      BY <2>8, MoveUpdatePassword, MoveCreateSso, MoveCheckConsent, MoveIssueCode, MoveIs
    <3> QED BY <2>0, <2>1, <3>1 DEF Completed
  <2> QED BY <1>5, <2>2, <2>3, <2>4, <2>5, <2>6, <2>7, <2>8 DEF Step
<1> QED BY <1>2, <1>3, <1>4, <1>5, WhoseStep

LEMMA GenuineInit == Init => GenuineInv
  BY FS_EmptySet DEF Init, GenuineInv

LEMMA GenuineNext == TInv /\ GenuineInv /\ [Next]_vars => GenuineInv'
<1> SUFFICES ASSUME TInv, GenuineInv, [Next]_vars PROVE GenuineInv'
  OBVIOUS
<1>0. proved \subseteq proved'
  BY ProvedGrows
<1>1. ASSUME NEW s \in Requests PROVE IsFiniteSet(seen'[s])
  <2>1. IsFiniteSet(seen[s])
    BY DEF GenuineInv
  <2>2. \A u \in Users : IsFiniteSet(seen[s] \cup {u}) /\ IsFiniteSet({u})
    BY <2>1, FS_AddElement, FS_Singleton
  <2> QED BY <2>1, <2>2, SeenStep, FS_EmptySet
<1>2. \A s \in Requests : pc[s] # "create" => seen[s] \subseteq seen'[s]
  BY SeenStep
<1>3. ASSUME NEW k \in Requests, sso'[k] # None PROVE <<sso'[k].user, sso'[k].auth>> \in proved'
  <2>1. CASE sso[k] # None /\ sso'[k].user = sso[k].user /\ sso'[k].auth = sso[k].auth
    BY <1>0, <2>1 DEF GenuineInv
  <2>2. CASE pc[k] = "ssonew" /\ sso'[k].user = job[k].user /\ sso'[k].auth = job[k].time
    <3>1. job[k] # None /\ Completed(pc[k], job[k])
      BY <2>2, JobOf DEF Completed, PlaceOK
    <3> QED BY <1>0, <2>2, <3>1 DEF GenuineInv
  <2> QED BY <1>3, <2>1, <2>2, SsoSource
<1>4. ASSUME NEW q \in Requests, job'[q] # None, Carried(pc'[q], job'[q])
      PROVE  <<job'[q].user, job'[q].auth>> \in proved'
  <2>1. CASE job[q] # None /\ Carried(pc[q], job[q]) /\ job'[q] = job[q]
    BY <1>0, <2>1 DEF GenuineInv
  <2>2. ASSUME NEW k \in Requests, sso[k] \in SsoSession, job'[q].user = sso[k].user, job'[q].auth = sso[k].auth
        PROVE  <<job'[q].user, job'[q].auth>> \in proved'
    BY <1>0, <2>2, NoneIsNoRecord DEF GenuineInv
  <2> QED BY <1>4, <2>1, <2>2, CarriedStep
<1>5. ASSUME NEW q \in Requests, job'[q] # None, pc'[q] = "create", job'[q].user # None
      PROVE  <<job'[q].user, job'[q].auth>> \in proved'
  BY <1>0, <1>5, CreateSource DEF GenuineInv
<1>6. ASSUME NEW q \in Requests, job'[q] # None, Completed(pc'[q], job'[q])
      PROVE  <<job'[q].user, job'[q].time>> \in proved'
  <2>1. CASE /\ job[q] # None /\ Completed(pc[q], job[q])
             /\ job'[q].user = job[q].user /\ job'[q].time = job[q].time
    BY <1>0, <2>1 DEF GenuineInv
  <2> QED BY <1>6, <2>1, CompletedSource
<1>7. ASSUME NEW s \in Requests, sess'[s] # None
      PROVE  /\ sess'[s].user # None => sess'[s].user \in seen'[s]
             /\ sess'[s].auth # None => \E v \in seen'[s] : <<v, sess'[s].auth>> \in proved'
  <2>1. CASE /\ sess[s] # None /\ sess'[s].auth = sess[s].auth /\ seen'[s] = seen[s]
             /\ sess'[s].user \in {sess[s].user, None}
    BY <1>0, <2>1 DEF GenuineInv
  <2>2. ASSUME NEW r \in Requests, NamedBy(r, s), sess[s] # None,
               pc[r] = "setpwd" => sess'[s].auth = sess[s].auth,
               pc[r] = "setauth" => sess'[s].auth = job[r].time
        PROVE  /\ sess'[s].user \in seen'[s]
               /\ sess'[s].auth # None => \E v \in seen'[s] : <<v, sess'[s].auth>> \in proved'
    <3>1. sess'[s].user \in seen'[s] /\ seen[s] \subseteq seen'[s] /\ job[r].user \in seen'[s]
      BY <2>2 DEF NamedBy
    <3>2. CASE pc[r] = "setpwd"
      BY <1>0, <2>2, <3>1, <3>2 DEF GenuineInv
    <3>3. CASE pc[r] = "setauth"
      <4>1. job[r] # None /\ Completed(pc[r], job[r])
        BY <3>3, JobOf DEF PlaceOK, Completed
      <4>2. <<job[r].user, job[r].time>> \in proved'
        BY <1>0, <4>1 DEF GenuineInv
      <4> QED BY <2>2, <3>1, <3>3, <4>2
    <3> QED BY <2>2, <3>2, <3>3 DEF NamedBy
  <2>3. CASE /\ pc[s] = "create" /\ sess'[s].user = job[s].user /\ sess'[s].auth = job[s].auth
             /\ seen'[s] = IF job[s].user = None THEN {} ELSE {job[s].user}
    <3>1. job[s] # None /\ (job[s].user = None => job[s].auth = None)
      BY <2>3, JobOf, NoneAssumption DEF LocalsOK
    <3>2. job[s].user # None => <<job[s].user, job[s].auth>> \in proved'
      BY <1>0, <2>3, <3>1 DEF GenuineInv
    <3> QED BY <2>3, <3>1, <3>2
  <2> QED BY <1>7, <2>1, <2>2, <2>3, SessionSource
<1>8. ASSUME NEW q \in Requests, job'[q] # None, job'[q].kind = "approve", pc'[q] \in {"upsert", "issue"}
      PROVE  Shared(job[q].sess, job[q].user, job[q].auth)'
  <2>1. PICK s \in Requests : s = job[q].sess /\ s = job'[q].sess /\ pc[s] = "ok"
    <3>1. job[q] # None /\ job[q].kind = "approve" /\ job'[q].sess = job[q].sess
      BY <1>8, ApprovalSource
    <3>2. job[q].sess \in Requests /\ pc[job[q].sess] = "ok"
      BY <3>1 DEF TInv, CallInv, OriginOK, OnSession
    <3> QED BY <3>1, <3>2
  <2>2. job'[q].user \in seen[s] /\ \E v \in seen[s] : <<v, job'[q].auth>> \in proved
    <3>1. CASE job[q] # None /\ job[q].kind = "approve" /\ job'[q] = job[q] /\ pc[q] \in {"upsert", "issue"}
      BY <2>1, <3>1 DEF GenuineInv, Shared
    <3>2. CASE /\ sess[s] # None /\ sess[s].user # None /\ sess[s].auth # None
               /\ job'[q].user = sess[s].user /\ job'[q].auth = sess[s].auth
      BY <3>2 DEF GenuineInv
    <3> QED BY <1>8, <2>1, <3>1, <3>2, ApprovalSource
  <2>3. seen[s] \subseteq seen'[s]
    BY <1>2, <2>1
  <2>4. job'[q].user \in seen'[s] /\ \E v \in seen'[s] : <<v, job'[q].auth>> \in proved'
    BY <1>0, <2>2, <2>3
  <2> QED BY <2>1, <2>4 DEF Shared
<1>9. ASSUME NEW q \in Requests, issued'[q] # None
      PROVE  Genuine(Origin(q), issued[q].user, issued[q].auth)'
  <2>1. PICK o \in Requests : o = Origin(q) /\ Origin(q)' = o
    BY <1>9, CodeSource
  <2>2. /\ job[q] # None /\ job[q].kind \in {"authorize"} \cup OnSession
        /\ job[q].kind # "authorize" => pc[o] = "ok"
    BY <1>9, <2>1, CodeSource
  <2>3. Genuine(o, issued'[q].user, issued'[q].auth)
    <3>1. CASE issued[q] # None /\ issued'[q] = issued[q]
      BY <2>1, <3>1 DEF GenuineInv
    <3>2. CASE pc[q] = "issue" /\ issued'[q].user = job[q].user /\ issued'[q].auth = job[q].auth
      <4>0. PlaceOK(pc[q], job[q]) /\ LocalsOK(pc[q], job[q])
        BY <3>2, JobOf
      <4>1. CASE job[q].kind = "authorize"
        BY <2>2, <3>2, <4>1 DEF GenuineInv, Carried, Genuine
      <4>2. CASE job[q].kind = "approve"
        BY <2>1, <2>2, <3>2, <4>2 DEF GenuineInv, Origin, Genuine
      <4>3. CASE job[q].kind \in Factors
        <5>1. job[q].auth = job[q].time /\ Completed(pc[q], job[q])
          BY <3>2, <4>0, <4>3 DEF LocalsOK, Completed
        <5> QED BY <2>2, <3>2, <5>1 DEF GenuineInv, Genuine
      <4> QED BY <3>2, <4>0, <4>1, <4>2, <4>3 DEF PlaceOK
    <3> QED BY <1>9, <3>1, <3>2, CodeSource
  <2>4. pc[o] # "create"
    <3>1. CASE job[q].kind = "authorize"
      <4>1. o = q /\ (issued[q] # None \/ pc[q] = "issue")
        BY <1>9, <2>1, <3>1, CodeSource DEF Origin
      <4> QED BY <4>1 DEF TInv, RowInv, Ended
    <3> QED BY <2>2, <3>1
  <2>5. seen[o] \subseteq seen'[o]
    BY <1>2, <2>4
  <2>6. \/ <<issued'[q].user, issued'[q].auth>> \in proved'
        \/ issued'[q].user \in seen'[o] /\ \E v \in seen'[o] : <<v, issued'[q].auth>> \in proved'
    BY <1>0, <2>3, <2>5 DEF Genuine, Shared
  <2> QED BY <2>1, <2>6 DEF Genuine, Shared
<1> QED BY <1>1, <1>3, <1>4, <1>5, <1>6, <1>7, <1>8, <1>9 DEF GenuineInv

\* Two members of a set with at most one element are the same.
LEMMA AtMostOne ==
    ASSUME NEW S, IsFiniteSet(S), Cardinality(S) <= 1, NEW u \in S, NEW v \in S
    PROVE  u = v
<1>1. Cardinality(S) \in Nat
  BY FS_CardinalityType
<1>2. Cardinality(S) # 0
  BY FS_EmptySet
<1>3. Cardinality(S) = 1
  BY <1>1, <1>2
<1> QED BY <1>3, FS_Singleton

\* The auth_time of a code is the time of a complete login of its own account,
\* through any chain of resumption, second step, forced change, passkey and
\* consent, if the AuthSession it came through named no other account.
THEOREM AuthTimesAreGenuine == Spec => []AuthTimeGenuine
<1>1. TInv /\ GenuineInv => AuthTimeGenuine
  <2> SUFFICES ASSUME TInv, GenuineInv, NEW r \in Requests, issued[r] # None, Cardinality(seen[Origin(r)]) <= 1
               PROVE  <<issued[r].user, issued[r].auth>> \in proved
    BY DEF AuthTimeGenuine
  <2>1. PICK o \in Requests : o = Origin(r)
    BY OriginSettled DEF TInv, RowInv
  <2>2. \/ <<issued[r].user, issued[r].auth>> \in proved
        \/ issued[r].user \in seen[o] /\ \E v \in seen[o] : <<v, issued[r].auth>> \in proved
    BY <2>1 DEF GenuineInv, Genuine, Shared
  <2>3. IsFiniteSet(seen[o]) /\ Cardinality(seen[o]) <= 1
    BY <2>1 DEF GenuineInv
  <2>4. \A v, w \in seen[o] : v = w
    BY <2>3, AtMostOne
  <2> QED BY <2>2, <2>4
<1> QED BY <1>1, TypeInit, TypeNext, GenuineInit, GenuineNext, PTL DEF Spec
=============================================================================
