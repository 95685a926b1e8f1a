------------------------ MODULE SecondFactorsProofs ------------------------
(***************************************************************************)
(* Proofs about SecondFactors, for any accounts, credentials, calls and    *)
(* workloads: a passkey belongs to the account whose session began its     *)
(* registration, a login challenge is not accepted again once a login has  *)
(* used it, accepted counters grow, and a confirmed TOTP secret is one     *)
(* whose code was verified.                                                *)
(***************************************************************************)
EXTENDS SecondFactors, TLAPS

\* The calls without an account, and the calls that name a challenge or a
\* credential.
Anonymous == {"ask", "assert"}
Naming == {"register", "unregister", "assert"}

\* Which call can be at which statement.
PlaceOK(l, j) ==
    /\ l = "session" => j.kind \notin Anonymous
    /\ l \in {"find", "upsert"} => j.kind \in {"setup", "confirm"}
    /\ l = "confirm" => j.kind = "confirm"
    /\ l = "remove" => j.kind = "remove"
    /\ l = "create" => j.kind \in {"enrol", "ask"}
    /\ l \in {"challenge", "drop"} => j.kind \in {"register", "assert"}
    /\ l = "insert" => j.kind = "register" /\ j.done
    /\ l \in {"credential", "update"} => j.kind = "assert"
    /\ l = "unregister" => j.kind = "unregister"

\* What a call was given.
ArgsOK(j) ==
    /\ j.kind \in Anonymous <=> j.user = None
    /\ j.kind \in Naming => j.arg \in Names

CallInv == \A r \in Requests :
    /\ pc[r] = "new" <=> job[r] = None
    /\ job[r] # None => PlaceOK(pc[r], job[r]) /\ ArgsOK(job[r])

\* A call that handed out a challenge, for the account that asked for it.
Began(x) == x \in Requests /\ pc[x] = "ok" /\ job[x] # None /\ job[x].kind \in {"enrol", "ask"}

\* An answer is to a challenge that was handed out; a login brings one.
HandedInv == \A r \in Requests :
    job[r] # None /\ job[r].kind \in {"register", "assert"} => job[r].arg \in Pending \/ Began(job[r].arg)

AnswersInv == \A r \in Requests :
    job[r] # None /\ job[r].kind = "assert" => answers[job[r].arg] # None

TInv == TypeOK /\ CallInv /\ HandedInv /\ AnswersInv

\* The secret that a confirmation is about to confirm is one it has verified,
\* unless a setup came between.
ConfirmInv ==
    /\ ConfirmedSecretChecked
    /\ \A r \in Requests : pc[r] = "confirm" =>
          LET u == job[r].user IN u \in crossed \/ totp[u] = None \/ totp[u].secret \in checked

\* A challenge is of the account that asked for it; a registration that found it
\* is of that account; and so is the credential.
Enrolled(x, u) == Began(x) /\ job[x].kind = "enrol" /\ job[x].user = u

EnrolInv ==
    /\ \A x \in Names : challenges[x] # None =>
          IF x \in Requests THEN Began(x) /\ challenges[x].user = job[x].user ELSE challenges[x].user = None
    /\ \A r \in Requests : job[r] # None /\ job[r].kind = "register" /\ job[r].done => Enrolled(job[r].arg, job[r].user)
    /\ \A x \in Requests : creds[x] # None => Enrolled(x, creds[x].user)

\* A challenge that a login has deleted stays away.
ReplayInv ==
    /\ \A r \in Requests : pc[r] \in {"credential", "update"} => challenges[job[r].arg] = None
    /\ \A x \in Names : accepted[x] # {} => challenges[x] = None /\ (x \in Pending \/ Began(x))

\* Counter n goes beyond peak m, or neither has ever counted.
Beats(n, m) == n > m \/ (n = 0 /\ m = 0)

\* Of a credential whose assertions do not overlap, the stored counter is the
\* highest that was accepted, and an assertion that was verified exceeds it.
CounterInv ==
    /\ \A c \in Names :
          /\ creds[c] = None => peaks[c] = 0
          /\ creds[c] # None => c \in contended \/ creds[c].count = peaks[c]
    /\ \A r \in Requests : pc[r] = "update" =>
          LET a == answers[job[r].arg] IN
          /\ a.cred \in contended \/ Beats(a.count, peaks[a.cred])
          /\ \A q \in Requests : pc[q] = "update" /\ answers[job[q].arg].cred = a.cred => q = r \/ a.cred \in contended
-----------------------------------------------------------------------------
(* Records, and how a call moves.                                           *)

NewJob(k, u, x, n) == [kind |-> k, user |-> u, arg |-> x, at |-> n, done |-> FALSE]
Timed(j, n) == [j EXCEPT !.at = n]
Regarding(j, x) == [j EXCEPT !.arg = x]
Noted(j, b) == [j EXCEPT !.done = b]

LEMMA NewJobType ==
    ASSUME NEW k \in AllKinds, NEW u \in Users \cup {None}, NEW x \in Names \cup {None}, NEW n \in Int
    PROVE  /\ NewJob(k, u, x, n) \in Job
           /\ NewJob(k, u, x, n).kind = k /\ NewJob(k, u, x, n).user = u
           /\ NewJob(k, u, x, n).arg = x /\ ~NewJob(k, u, x, n).done
BY DEF NewJob, Job

LEMMA TimedType ==
    ASSUME NEW j \in Job, NEW n \in Int
    PROVE  /\ Timed(j, n) \in Job
           /\ Timed(j, n).kind = j.kind /\ Timed(j, n).user = j.user
           /\ Timed(j, n).arg = j.arg /\ Timed(j, n).done = j.done
BY DEF Timed, Job

LEMMA RegardingType ==
    ASSUME NEW j \in Job, NEW x \in Names
    PROVE  /\ Regarding(j, x) \in Job
           /\ Regarding(j, x).kind = j.kind /\ Regarding(j, x).user = j.user
           /\ Regarding(j, x).arg = x /\ Regarding(j, x).done = j.done
BY DEF Regarding, Job

LEMMA NotedType ==
    ASSUME NEW j \in Job, NEW b \in BOOLEAN
    PROVE  /\ Noted(j, b) \in Job
           /\ Noted(j, b).kind = j.kind /\ Noted(j, b).user = j.user
           /\ Noted(j, b).arg = j.arg /\ Noted(j, b).done = b
BY DEF Noted, Job

LEMMA JobFields ==
    ASSUME NEW j \in Job
    PROVE  /\ j # None /\ j.kind \in AllKinds /\ j.user \in Users \cup {None} /\ j.arg \in Names \cup {None}
           /\ j.at \in Int /\ j.done \in BOOLEAN
BY NoneIsNoRecord DEF Job

\* Call r goes to l with locals j, and the others stay.
Move(r, l, j) ==
    /\ pc' \in [Requests -> Pcs] /\ job' \in [Requests -> Job \cup {None}]
    /\ pc'[r] = l /\ job'[r] = j
    /\ \A q \in Requests \ {r} : pc'[q] = pc[q] /\ job'[q] = job[q]

LEMMA Moved ==
    ASSUME TypeOK, NEW r \in Requests, NEW l \in Pcs, NEW j \in Job,
           pc' = [pc EXCEPT ![r] = l], job' = [job EXCEPT ![r] = j]
    PROVE  Move(r, l, j)
<1>1. pc \in [Requests -> Pcs] /\ job \in [Requests -> Job \cup {None}]
  BY DEF TypeOK
<1> QED
  BY <1>1 DEF Move

LEMMA Stepped ==
    ASSUME TypeOK, NEW r \in Requests, NEW l \in Pcs, pc' = [pc EXCEPT ![r] = l], job' = job
    PROVE  Move(r, l, job[r])
<1>1. pc \in [Requests -> Pcs] /\ job \in [Requests -> Job \cup {None}]
  BY DEF TypeOK
<1> QED
  BY <1>1 DEF Move

\* A call that is under way.
Busy(r) == pc[r] \notin {"new", "ok", "failed"}

LEMMA UnderWay ==
    ASSUME TInv, NEW r \in Requests, pc[r] # "new"
    PROVE  /\ job[r] \in Job /\ job[r] # None /\ PlaceOK(pc[r], job[r]) /\ ArgsOK(job[r])
           /\ job[r].user \in Users \cup {None} /\ job[r].arg \in Names \cup {None} /\ job[r].at \in Int
           /\ job[r].done \in BOOLEAN /\ job[r].kind \in AllKinds
           /\ job[r].kind \notin Anonymous => job[r].user \in Users
<1>1. job[r] \in Job /\ job[r] # None /\ PlaceOK(pc[r], job[r]) /\ ArgsOK(job[r])
  BY DEF TInv, TypeOK, CallInv
<1> QED
  BY <1>1, JobFields DEF ArgsOK
-----------------------------------------------------------------------------
(* What each action does.                                                   *)

\* What a step of a call keeps of its locals.
Follows(r, j) ==
    /\ j \in Job /\ j.kind = job[r].kind /\ j.user = job[r].user
    /\ j.kind \in Naming => j.arg = job[r].arg

\* A step of call r, which keeps `answers`.
Goes(r, l, j) == Busy(r) /\ Move(r, l, j) /\ Follows(r, j) /\ PlaceOK(l, j) /\ answers' = answers /\ l # "new"

LEMMA ResolveUserDoes ==
    ASSUME TInv, NEW r \in Requests, ResolveUser(r)
    PROVE  /\ UNCHANGED <<now, load, rows, history>>
           /\ \E l \in {"find", "remove", "create", "challenge", "unregister", "failed"}, j \in Job :
                 Goes(r, l, j) /\ j.done = job[r].done
<1>0. pc[r] = "session" /\ Busy(r)
  BY DEF ResolveUser, Busy
<1>1. job[r] \in Job /\ job[r].kind \notin Anonymous /\ job[r].kind \in AllKinds
  BY <1>0, UnderWay DEF PlaceOK
<1>2. now \in Int
  BY DEF TInv, TypeOK
<1>3. UNCHANGED <<now, load, rows, history>> /\ answers' = answers
  BY DEF ResolveUser
<1>4. CASE job[r].user \in sessions
  <2> DEFINE k == job[r].kind
             l == IF k \in {"setup", "confirm", "remove"} THEN TotpStep(k) ELSE PasskeyStep(k)
             j == Timed(job[r], now)
  <2>1. /\ l \in {"find", "remove", "create", "challenge", "unregister"}
        /\ l = "find" => k \in {"setup", "confirm"}
        /\ l = "remove" => k = "remove"
        /\ l = "create" => k = "enrol"
        /\ l = "challenge" => k = "register"
        /\ l = "unregister" => k = "unregister"
    BY <1>1 DEF TotpStep, PasskeyStep, AllKinds, Anonymous
  <2>2. j \in Job /\ j.kind = k /\ j.user = job[r].user /\ j.arg = job[r].arg /\ j.done = job[r].done
    BY <1>1, <1>2, TimedType
  <2>3. Become(r, l, j)
    BY <1>4 DEF ResolveUser, Timed
  <2> HIDE DEF l, j
  <2>4. l \in Pcs /\ l # "new"
    BY <2>1 DEF Pcs
  <2>5. Move(r, l, j)
    BY <2>2, <2>3, <2>4, Moved DEF Become, Goto, TInv
  <2>6. PlaceOK(l, j)
    BY <2>1, <2>2 DEF PlaceOK
  <2> QED
    BY <1>0, <1>3, <2>1, <2>2, <2>4, <2>5, <2>6 DEF Goes, Follows
<1>5. CASE job[r].user \notin sessions
  <2>1. Move(r, "failed", job[r])
    BY <1>1, <1>5, Moved DEF ResolveUser, Become, Goto, TInv, Pcs
  <2>2. PlaceOK("failed", job[r])
    BY DEF PlaceOK
  <2> QED
    BY <1>0, <1>1, <1>3, <2>1, <2>2 DEF Goes, Follows
<1> QED
  BY <1>4, <1>5

\* A step that keeps all locals.
LEMMA KeepsLocals ==
    ASSUME TInv, NEW r \in Requests, Busy(r), NEW l \in Pcs \ {"new"}, Goto(r, l), job' = job, answers' = answers,
           PlaceOK(l, job[r])
    PROVE  Goes(r, l, job[r])
<1>1. pc[r] # "new"
  BY DEF Busy
<1>2. job[r] \in Job
  BY <1>1, UnderWay
<1>3. Move(r, l, job[r])
  BY Stepped DEF Goto, TInv
<1> QED
  BY <1>2, <1>3 DEF Goes, Follows

LEMMA FindSecretDoes ==
    ASSUME TInv, NEW r \in Requests, FindSecret(r)
    PROVE  /\ UNCHANGED <<now, load, rows, crossed, accepted, contended, peaks>>
           /\ \/ checked' = checked /\ \E l \in {"upsert", "failed"} : Goes(r, l, job[r])
              \/ /\ Goes(r, "confirm", job[r])
                 /\ totp[job[r].user] # None /\ totp[job[r].user].secret = job[r].arg
                 /\ checked' = checked \cup ({job[r].arg} \ {None})
              \/ checked' = checked /\ \E j \in Job : Goes(r, "session", j) /\ j.done = job[r].done /\ j.kind = "confirm"
<1>0. pc[r] = "find" /\ Busy(r)
  BY DEF FindSecret, Busy
<1>1. job[r] \in Job /\ job[r].kind \in {"setup", "confirm"}
  BY <1>0, UnderWay DEF PlaceOK
<1>2. UNCHANGED <<now, load, rows, crossed, accepted, contended, peaks>> /\ answers' = answers
  BY DEF FindSecret
<1>3. PlaceOK("upsert", job[r]) /\ PlaceOK("failed", job[r])
  BY <1>1 DEF PlaceOK
<1>4. ASSUME NEW l \in {"upsert", "failed"}, Goto(r, l), job' = job
      PROVE  Goes(r, l, job[r])
  BY <1>0, <1>2, <1>3, <1>4, KeepsLocals DEF Pcs
<1>5. CASE /\ job[r].kind = "confirm" /\ Goto(r, "confirm") /\ job' = job
           /\ totp[job[r].user] # None /\ Matches(totp[job[r].user], job[r].arg)
           /\ checked' = checked \cup ({job[r].arg} \ {None})
  <2>1. PlaceOK("confirm", job[r])
    BY <1>5 DEF PlaceOK
  <2> QED
    BY <1>0, <1>2, <1>5, <2>1, KeepsLocals DEF Pcs, Matches
<1>6. CASE /\ job[r].kind = "confirm" /\ checked' = checked
           /\ Become(r, "session", Regarding(job[r], r))
  <2> DEFINE j == Regarding(job[r], r)
  <2>1. j \in Job /\ j.kind = "confirm" /\ j.user = job[r].user /\ j.done = job[r].done
    BY <1>1, <1>6, RegardingType DEF Names
  <2>2. Become(r, "session", j)
    BY <1>6
  <2> HIDE DEF j
  <2>3. Move(r, "session", j)
    BY <2>1, <2>2, Moved DEF Become, Goto, TInv, Pcs
  <2>4. PlaceOK("session", j)
    BY <2>1 DEF PlaceOK, Anonymous
  <2>5. Follows(r, j)
    BY <1>6, <2>1 DEF Follows, Naming
  <2> QED
    BY <1>0, <1>2, <1>6, <2>1, <2>3, <2>4, <2>5 DEF Goes
<1> QED
  BY <1>1, <1>2, <1>4, <1>5, <1>6 DEF FindSecret, Regarding

LEMMA UpsertSecretDoes ==
    ASSUME TInv, NEW r \in Requests, UpsertSecret(r)
    PROVE  /\ UNCHANGED <<now, load, sessions, challenges, creds, checked, accepted, contended, peaks>>
           /\ pc[r] = "upsert" /\ job[r].user \in Users
           /\ \E l \in {"ok", "failed"}, j \in Job : Goes(r, l, j) /\ j.kind \in {"setup", "confirm"}
           /\ totp' = [totp EXCEPT ![job[r].user] = [secret |-> r, confirmed |-> FALSE]]
           /\ crossed' = IF About("confirm", job[r].user) THEN crossed \cup {job[r].user} ELSE crossed
<1>0. pc[r] = "upsert" /\ Busy(r)
  BY DEF UpsertSecret, Busy
<1>1. job[r] \in Job /\ job[r].kind \in {"setup", "confirm"} /\ job[r].user \in Users
  BY <1>0, UnderWay DEF PlaceOK, Anonymous
<1> DEFINE j == Noted(job[r], TRUE)
           l == IF job[r].kind = "setup" THEN "ok" ELSE "failed"
<1>2. j \in Job /\ j.kind = job[r].kind /\ j.user = job[r].user /\ j.arg = job[r].arg
  BY <1>1, NotedType
<1>3. l \in {"ok", "failed"} /\ Become(r, l, j)
  BY DEF UpsertSecret, Noted
<1> HIDE DEF j, l
<1>4. Move(r, l, j)
  BY <1>2, <1>3, Moved DEF Become, Goto, TInv, Pcs
<1>5. PlaceOK(l, j)
  BY <1>3 DEF PlaceOK
<1>6. Goes(r, l, j)
  BY <1>0, <1>2, <1>3, <1>4, <1>5 DEF Goes, Follows, UpsertSecret
<1> QED
  BY <1>0, <1>1, <1>2, <1>3, <1>6 DEF UpsertSecret

LEMMA ConfirmSecretDoes ==
    ASSUME TInv, NEW r \in Requests, ConfirmSecret(r)
    PROVE  /\ UNCHANGED <<now, load, sessions, challenges, creds, checked, accepted, contended, peaks>>
           /\ pc[r] = "confirm" /\ job[r].user \in Users /\ Goes(r, "ok", job[r])
           /\ totp' = IF totp[job[r].user] = None THEN totp ELSE [totp EXCEPT ![job[r].user].confirmed = TRUE]
           /\ crossed' = IF About("upsert", job[r].user) THEN crossed \cup {job[r].user} ELSE crossed
<1>0. pc[r] = "confirm" /\ Busy(r)
  BY DEF ConfirmSecret, Busy
<1>1. job[r].user \in Users
  BY <1>0, UnderWay DEF PlaceOK, Anonymous
<1>2. Goes(r, "ok", job[r])
  BY <1>0, KeepsLocals DEF ConfirmSecret, PlaceOK, Pcs
<1> QED
  BY <1>0, <1>1, <1>2 DEF ConfirmSecret

LEMMA RemoveSecretDoes ==
    ASSUME TInv, NEW r \in Requests, RemoveSecret(r)
    PROVE  /\ UNCHANGED <<now, load, sessions, challenges, creds, history>>
           /\ job[r].user \in Users /\ Goes(r, "ok", job[r])
           /\ totp' = [totp EXCEPT ![job[r].user] = None]
<1>0. pc[r] = "remove" /\ Busy(r)
  BY DEF RemoveSecret, Busy
<1>1. job[r].user \in Users
  BY <1>0, UnderWay DEF PlaceOK, Anonymous
<1>2. Goes(r, "ok", job[r])
  BY <1>0, KeepsLocals DEF RemoveSecret, PlaceOK, Pcs
<1> QED
  BY <1>0, <1>1, <1>2 DEF RemoveSecret

LEMMA CreateChallengeDoes ==
    ASSUME TInv, NEW r \in Requests, CreateChallenge(r)
    PROVE  /\ UNCHANGED <<now, load, sessions, totp, creds, history>>
           /\ pc[r] = "create" /\ Goes(r, "ok", job[r]) /\ job[r].kind \in {"enrol", "ask"}
           /\ \E row \in Challenge : row.user = job[r].user /\ challenges' = [challenges EXCEPT ![r] = row]
<1>0. pc[r] = "create" /\ Busy(r)
  BY DEF CreateChallenge, Busy
<1>1. /\ job[r].user \in Users \cup {None} /\ job[r].at \in Int /\ job[r].kind \in {"enrol", "ask"}
  BY <1>0, UnderWay DEF PlaceOK
<1>2. Goes(r, "ok", job[r])
  BY <1>0, KeepsLocals DEF CreateChallenge, PlaceOK, Pcs
<1>3. job[r].at + ChallengeTtl \in Int
  BY <1>1, FactorsAssumption
<1>4. NewChallenge(job[r]) \in Challenge /\ NewChallenge(job[r]).user = job[r].user
  BY <1>1, <1>3 DEF NewChallenge, Challenge
<1> QED
  BY <1>0, <1>1, <1>2, <1>4 DEF CreateChallenge

LEMMA FindChallengeDoes ==
    ASSUME TInv, NEW r \in Requests, FindChallenge(r)
    PROVE  /\ UNCHANGED <<now, load, rows, history>>
           /\ pc[r] = "challenge" /\ job[r].arg \in Names
           /\ \/ Goes(r, "failed", job[r])
              \/ /\ challenges[job[r].arg] # None
                 /\ \E j \in Job : Goes(r, "drop", j) /\ (j.done => challenges[job[r].arg].user = job[r].user)
<1>0. pc[r] = "challenge" /\ Busy(r)
  BY DEF FindChallenge, Busy
<1>1. job[r] \in Job /\ job[r].kind \in {"register", "assert"} /\ job[r].arg \in Names /\ job[r].at \in Int
  BY <1>0, UnderWay DEF PlaceOK, ArgsOK, Naming
<1>2. UNCHANGED <<now, load, rows, history>> /\ answers' = answers
  BY DEF FindChallenge
<1> DEFINE row == challenges[job[r].arg]
<1>3. CASE row = None
  BY <1>0, <1>1, <1>2, <1>3, KeepsLocals DEF FindChallenge, PlaceOK, Pcs
<1>4. CASE row # None
  <2> DEFINE b == Answerable(job[r], row)
             j == Noted(job[r], b)
  <2>1. b \in BOOLEAN /\ (b => row.user = job[r].user)
    BY DEF Answerable
  <2>2. Become(r, "drop", j)
    BY <1>4 DEF FindChallenge, Noted
  <2> HIDE DEF b
  <2>3. j \in Job /\ j.kind = job[r].kind /\ j.user = job[r].user /\ j.arg = job[r].arg /\ j.done = b
    BY <1>1, <2>1, NotedType
  <2> HIDE DEF j
  <2>4. Move(r, "drop", j)
    BY <2>2, <2>3, Moved DEF Become, Goto, TInv, Pcs
  <2>5. PlaceOK("drop", j)
    BY <1>1, <2>3 DEF PlaceOK
  <2>6. Goes(r, "drop", j)
    BY <1>0, <1>2, <2>3, <2>4, <2>5 DEF Goes, Follows
  <2> QED
    BY <1>0, <1>1, <1>2, <1>4, <2>1, <2>3, <2>6
<1> QED
  BY <1>3, <1>4

LEMMA DeleteChallengeDoes ==
    ASSUME TInv, NEW r \in Requests, DeleteChallenge(r)
    PROVE  /\ UNCHANGED <<now, load, sessions, totp, creds, history>>
           /\ pc[r] = "drop" /\ job[r].arg \in Names
           /\ challenges' = [challenges EXCEPT ![job[r].arg] = None]
           /\ \E l \in {"failed", "credential", "insert"} : Goes(r, l, job[r])
<1>0. pc[r] = "drop" /\ Busy(r)
  BY DEF DeleteChallenge, Busy
<1>1. job[r].kind \in {"register", "assert"} /\ job[r].arg \in Names
  BY <1>0, UnderWay DEF PlaceOK, ArgsOK, Naming
<1> DEFINE l == IF ~job[r].done THEN "failed" ELSE IF job[r].kind = "assert" THEN "credential" ELSE "insert"
<1>2. l \in {"failed", "credential", "insert"} /\ PlaceOK(l, job[r])
  BY <1>1 DEF PlaceOK
<1>3. Goto(r, l)
  BY DEF DeleteChallenge
<1> HIDE DEF l
<1>4. l \in Pcs \ {"new"}
  BY <1>2 DEF Pcs
<1>5. Goes(r, l, job[r])
  BY <1>0, <1>2, <1>3, <1>4, KeepsLocals DEF DeleteChallenge
<1> QED
  BY <1>0, <1>1, <1>2, <1>5 DEF DeleteChallenge, Dropped

LEMMA InsertCredentialDoes ==
    ASSUME TInv, NEW r \in Requests, InsertCredential(r)
    PROVE  /\ UNCHANGED <<now, load, sessions, totp, challenges, history>>
           /\ pc[r] = "insert" /\ job[r].arg \in Names /\ job[r].kind = "register" /\ job[r].done
           /\ \E l \in {"ok", "failed"} : Goes(r, l, job[r])
           /\ \/ creds' = creds
              \/ /\ creds[job[r].arg] = None
                 /\ \E row \in Credential : /\ row.user = job[r].user /\ row.count = 0
                                            /\ creds' = [creds EXCEPT ![job[r].arg] = row]
<1>0. pc[r] = "insert" /\ Busy(r)
  BY DEF InsertCredential, Busy
<1>1. job[r].kind = "register" /\ job[r].done /\ job[r].arg \in Names /\ job[r].user \in Users
  BY <1>0, UnderWay DEF PlaceOK, ArgsOK, Naming, Anonymous
<1>2. \A l \in {"ok", "failed"} : Goto(r, l) => Goes(r, l, job[r])
  BY <1>0, KeepsLocals DEF InsertCredential, PlaceOK, Pcs
<1> DEFINE row == [user |-> job[r].user, count |-> 0]
<1>3. row \in Credential /\ row.user = job[r].user /\ row.count = 0
  BY <1>1, FactorsAssumption DEF Credential
<1> QED
  BY <1>0, <1>1, <1>2, <1>3 DEF InsertCredential

LEMMA VerifyDoes ==
    ASSUME TInv, NEW r \in Requests, Verify(r)
    PROVE  LET a == answers[job[r].arg] IN
           /\ UNCHANGED <<now, load, rows, checked, crossed, peaks>>
           /\ pc[r] = "credential" /\ job[r].kind = "assert" /\ job[r].arg \in Names
           /\ \/ UNCHANGED <<accepted, contended>> /\ Goes(r, "failed", job[r])
              \/ /\ Goes(r, "update", job[r]) /\ accepted' = accepted
                 /\ creds[a.cred] # None /\ CounterValid(a, creds[a.cred])
                 /\ contended' = IF \E q \in Requests : pc[q] = "update" /\ answers[job[q].arg].cred = a.cred
                                 THEN contended \cup {a.cred} ELSE contended
              \/ /\ Goes(r, "ok", job[r]) /\ contended' = contended
                 /\ creds[a.cred] # None /\ CounterValid(a, creds[a.cred])
                 /\ accepted' = [accepted EXCEPT ![job[r].arg] = @ \cup {r}]
<1>0. pc[r] = "credential" /\ Busy(r)
  BY DEF Verify, Busy
<1>1. job[r].kind = "assert" /\ job[r].arg \in Names
  BY <1>0, UnderWay DEF PlaceOK, ArgsOK, Naming
<1>2. \A l \in {"update", "ok", "failed"} : Goto(r, l) => Goes(r, l, job[r])
  BY <1>0, <1>1, KeepsLocals DEF Verify, PlaceOK, Pcs
<1> QED
  BY <1>0, <1>1, <1>2 DEF Verify

\* An answer names a credential.
LEMMA AnswerType ==
    ASSUME TInv, NEW r \in Requests, pc[r] # "new", job[r].kind = "assert"
    PROVE  LET a == answers[job[r].arg] IN
           a \in Answer /\ a.cred \in Names /\ a.count \in 0..MaxCount /\ a.count \in Int /\ a.count >= 0
<1>1. job[r] # None /\ job[r].arg \in Names
  BY UnderWay DEF ArgsOK, Naming
<1>2. answers[job[r].arg] \in Answer
  BY <1>1 DEF TInv, TypeOK, AnswersInv
<1> QED
  BY <1>2 DEF Answer

LEMMA UpdatePasskeyDoes ==
    ASSUME TInv, NEW r \in Requests, UpdatePasskey(r)
    PROVE  LET a == answers[job[r].arg] IN
           /\ UNCHANGED <<now, load, sessions, totp, challenges, checked, crossed, contended>>
           /\ pc[r] = "update" /\ job[r].kind = "assert" /\ job[r].arg \in Names /\ Goes(r, "ok", job[r])
           /\ \/ creds[a.cred] = None /\ creds' = creds /\ peaks' = peaks
              \/ /\ creds[a.cred] # None
                 /\ creds' = [creds EXCEPT ![a.cred] = Counted(@, a.count)]
                 /\ peaks' = [peaks EXCEPT ![a.cred] = IF a.count > @ THEN a.count ELSE @]
           /\ accepted' = [accepted EXCEPT ![job[r].arg] = @ \cup {r}]
<1>0. pc[r] = "update" /\ Busy(r)
  BY DEF UpdatePasskey, Busy
<1>1. job[r].kind = "assert" /\ job[r].arg \in Names
  BY <1>0, UnderWay DEF PlaceOK, ArgsOK, Naming
<1>2. Goes(r, "ok", job[r])
  BY <1>0, KeepsLocals DEF UpdatePasskey, PlaceOK, Pcs
<1>3. UNCHANGED <<now, load, sessions, totp, challenges, checked, crossed, contended>>
  BY DEF UpdatePasskey
<1>4. accepted' = [accepted EXCEPT ![job[r].arg] = @ \cup {r}]
  BY DEF UpdatePasskey
<1>5. CASE creds[answers[job[r].arg].cred] = None
  <2>1. answers[job[r].arg].cred \in Names
    BY <1>0, <1>1, AnswerType
  <2>2. peaks \in [Names -> 0..MaxCount]
    BY DEF TInv, TypeOK
  <2>3. peaks' = peaks /\ creds' = creds
    BY <1>5, <2>1, <2>2 DEF UpdatePasskey
  <2> QED
    BY <1>0, <1>1, <1>2, <1>3, <1>4, <1>5, <2>3
<1>6. CASE creds[answers[job[r].arg].cred] # None
  BY <1>0, <1>1, <1>2, <1>3, <1>4, <1>6 DEF UpdatePasskey
<1> QED
  BY <1>5, <1>6

LEMMA DeleteCredentialDoes ==
    ASSUME TInv, NEW r \in Requests, DeleteCredential(r)
    PROVE  /\ UNCHANGED <<now, load, sessions, totp, challenges, checked, crossed, accepted, contended>>
           /\ job[r].arg \in Names /\ Goes(r, "ok", job[r])
           /\ \/ creds' = creds /\ peaks' = peaks
              \/ creds' = [creds EXCEPT ![job[r].arg] = None] /\ peaks' = [peaks EXCEPT ![job[r].arg] = 0]
<1>0. pc[r] = "unregister" /\ Busy(r)
  BY DEF DeleteCredential, Busy
<1>1. job[r].arg \in Names
  BY <1>0, UnderWay DEF PlaceOK, ArgsOK, Naming
<1>2. Goes(r, "ok", job[r])
  BY <1>0, KeepsLocals DEF DeleteCredential, PlaceOK, Pcs
<1> QED
  BY <1>0, <1>1, <1>2 DEF DeleteCredential

LEMMA CallFailsDoes ==
    ASSUME TInv, NEW r \in Requests, CallFails(r)
    PROVE  UNCHANGED <<now, load, rows, history>> /\ Goes(r, "failed", job[r])
<1>0. Busy(r)
  BY DEF CallFails, Busy
<1>1. Goes(r, "failed", job[r])
  BY <1>0, KeepsLocals DEF CallFails, PlaceOK, Pcs
<1> QED
  BY <1>1 DEF CallFails

LEMMA DeletionFailsDoes ==
    ASSUME TInv, NEW r \in Requests, DeletionFails(r)
    PROVE  UNCHANGED <<now, load, rows, history>> /\ Goes(r, "insert", job[r])
<1>0. pc[r] = "drop" /\ Busy(r) /\ job[r].kind = "register" /\ job[r].done
  BY DEF DeletionFails, Busy
<1>1. PlaceOK("insert", job[r])
  BY <1>0, UnderWay DEF PlaceOK
<1>2. Goes(r, "insert", job[r])
  BY <1>0, <1>1, KeepsLocals DEF DeletionFails, Pcs
<1> QED
  BY <1>2 DEF DeletionFails

\* An answer, once given, stays.
AnswersGrow ==
    /\ answers' \in [Names -> Answer \cup {None}]
    /\ \A x \in Names : answers[x] # None => answers'[x] = answers[x]

\* A new call.
Arrives(r, l, j) ==
    /\ pc[r] = "new" /\ l \in {"session", "create", "challenge"} /\ j \in Job
    /\ Move(r, l, j) /\ PlaceOK(l, j) /\ ArgsOK(j) /\ ~j.done
    /\ j.kind \in {"register", "assert"} => j.arg \in Handed
    /\ j.kind = "assert" => answers'[j.arg] # None
    /\ AnswersGrow

LEMMA Begins ==
    ASSUME TInv, NEW r \in Requests, NEW k \in AllKinds, NEW u \in Users \cup {None}, NEW x \in Names \cup {None},
           NEW l \in {"session", "create", "challenge"}, Begin(r, k, u, x, l)
    PROVE  /\ pc[r] = "new" /\ UNCHANGED <<now, load, rows, history>>
           /\ Move(r, l, NewJob(k, u, x, now))
<1>1. now \in Int
  BY DEF TInv, TypeOK
<1>2. NewJob(k, u, x, now) \in Job
  BY <1>1, NewJobType
<1>3. Become(r, l, NewJob(k, u, x, now))
  BY DEF Begin, NewJob
<1>4. l \in Pcs
  BY DEF Pcs
<1>5. Move(r, l, NewJob(k, u, x, now))
  BY <1>2, <1>3, <1>4, Moved DEF Become, Goto, TInv
<1> QED
  BY <1>5 DEF Begin

LEMMA SameAnswers ==
    ASSUME TInv, answers' = answers
    PROVE  AnswersGrow
BY DEF AnswersGrow, TInv, TypeOK

LEMMA HandedAre ==
    ASSUME TInv
    PROVE  Handed \subseteq Names /\ \A x \in Handed : x \in Pending \/ Began(x)
<1>1. \A q \in Requests : pc[q] = "ok" => job[q] # None
  BY DEF TInv, CallInv
<1> QED
  BY <1>1 DEF Handed, Names, Began

LEMMA NewCallDoes ==
    ASSUME TInv, NEW r \in Requests, NewCall(r)
    PROVE  UNCHANGED <<now, load, rows, history>> /\ \E l \in Pcs, j \in Job : Arrives(r, l, j)
<1>0. now \in Int /\ Handed \subseteq Names /\ r \in Names /\ Registered \subseteq Names
  BY HandedAre DEF TInv, TypeOK, Names, Registered
<1>1. ASSUME NEW k \in AllKinds, NEW u \in Users \cup {None}, NEW x \in Names \cup {None},
             NEW l \in {"session", "create", "challenge"}, Begin(r, k, u, x, l), AnswersGrow,
             k \in Anonymous <=> u = None, k \in Naming => x \in Names,
             l = "session" => k \notin Anonymous, l = "create" => k = "ask", l = "challenge" => k = "assert",
             k \in {"register", "assert"} => x \in Handed, k = "assert" => answers'[x] # None
      PROVE  UNCHANGED <<now, load, rows, history>> /\ \E ll \in Pcs, j \in Job : Arrives(r, ll, j)
  <2> DEFINE j == NewJob(k, u, x, now)
  <2>1. j \in Job /\ j.kind = k /\ j.user = u /\ j.arg = x /\ ~j.done
    BY <1>0, NewJobType
  <2>2. pc[r] = "new" /\ UNCHANGED <<now, load, rows, history>> /\ Move(r, l, j)
    BY <1>1, Begins
  <2> HIDE DEF j
  <2>3. PlaceOK(l, j) /\ ArgsOK(j)
    BY <1>1, <2>1 DEF PlaceOK, ArgsOK
  <2>4. Arrives(r, l, j)
    BY <1>1, <2>1, <2>2, <2>3 DEF Arrives
  <2>5. l \in Pcs
    BY DEF Pcs
  <2> QED
    BY <2>1, <2>2, <2>4, <2>5
<1>2. CASE LoginBegin(r)
  <2>1. Begin(r, "ask", None, None, "create") /\ AnswersGrow
    BY <1>2, SameAnswers DEF LoginBegin
  <2> QED
    BY <1>1, <2>1 DEF AllKinds, Anonymous, Naming
<1>3. CASE LoginComplete(r)
  <2>1. PICK x \in Handed : /\ Begin(r, "assert", None, x, "challenge")
                            /\ \/ answers[x] # None /\ UNCHANGED answers
                               \/ /\ answers[x] = None
                                  /\ \E c \in Registered, n \in 0..MaxCount :
                                        answers' = [answers EXCEPT ![x] = [cred |-> c, count |-> n]]
    BY <1>3 DEF LoginComplete
  <2>2. AnswersGrow /\ answers'[x] # None
    <3>1. CASE answers[x] # None /\ UNCHANGED answers
      BY <3>1, SameAnswers
    <3>2. ASSUME answers[x] = None, NEW c \in Registered, NEW n \in 0..MaxCount,
                 answers' = [answers EXCEPT ![x] = [cred |-> c, count |-> n]]
          PROVE  AnswersGrow /\ answers'[x] # None
      <4> DEFINE a == [cred |-> c, count |-> n]
      <4>1. a \in Answer
        BY <1>0 DEF Answer
      <4>2. answers' = [answers EXCEPT ![x] = a]
        BY <3>2
      <4> HIDE DEF a
      <4>3. answers \in [Names -> Answer \cup {None}] /\ x \in Names /\ a # None
        BY <1>0, <4>1, NoneIsNoRecord DEF TInv, TypeOK
      <4> QED
        BY <3>2, <4>1, <4>2, <4>3 DEF AnswersGrow
    <3> QED
      BY <2>1, <3>1, <3>2
  <2> QED
    BY <1>0, <1>1, <2>1, <2>2 DEF AllKinds, Anonymous, Naming
<1>4. ASSUME NEW u \in Users,
             \/ SetupPage(r, u) \/ ConfirmForm(r, u) \/ RemoveForm(r, u)
             \/ RegisterBegin(r, u) \/ RegisterComplete(r, u) \/ DeleteForm(r, u)
      PROVE  UNCHANGED <<now, load, rows, history>> /\ \E l \in Pcs, j \in Job : Arrives(r, l, j)
  <2>0. u # None /\ AnswersGrow
    BY <1>4, FactorsAssumption, SameAnswers
       DEF SetupPage, ConfirmForm, RemoveForm, RegisterBegin, RegisterComplete, DeleteForm
  <2>1. ASSUME NEW k \in {"setup", "confirm", "remove", "enrol"}, NEW x \in Names \cup {None}, Begin(r, k, u, x, "session")
        PROVE  UNCHANGED <<now, load, rows, history>> /\ \E l \in Pcs, j \in Job : Arrives(r, l, j)
    BY <1>1, <2>0, <2>1 DEF AllKinds, Anonymous, Naming
  <2>2. ASSUME NEW x \in Handed, Begin(r, "register", u, x, "session")
        PROVE  UNCHANGED <<now, load, rows, history>> /\ \E l \in Pcs, j \in Job : Arrives(r, l, j)
    BY <1>0, <1>1, <2>0, <2>2 DEF AllKinds, Anonymous
  <2>3. ASSUME NEW x \in Registered, Begin(r, "unregister", u, x, "session")
        PROVE  UNCHANGED <<now, load, rows, history>> /\ \E l \in Pcs, j \in Job : Arrives(r, l, j)
    BY <1>0, <1>1, <2>0, <2>3 DEF AllKinds, Anonymous
  <2>4. Shown(u) \subseteq Names
    BY DEF Shown, Names
  <2> QED
    BY <1>4, <2>1, <2>2, <2>3, <2>4
       DEF SetupPage, ConfirmForm, RemoveForm, RegisterBegin, RegisterComplete, DeleteForm
<1> QED
  BY <1>2, <1>3, <1>4 DEF NewCall
-----------------------------------------------------------------------------
(* Types, and what calls were given.                                        *)

\* What a step does to the locals: nobody moves, a call arrives, or a call goes on.
Locals == UNCHANGED <<pc, job, answers>>
          \/ \E r \in Requests : \/ \E l \in Pcs, j \in Job : Arrives(r, l, j)
                                 \/ \E l \in Pcs, j \in Job : Goes(r, l, j)

LEMMA StepGoes ==
    ASSUME TInv, NEW r \in Requests, Step(r) \/ CallFails(r)
    PROVE  \E l \in Pcs, j \in Job : Goes(r, l, j)
<1>1. \A l, j : Goes(r, l, j) => l \in Pcs /\ j \in Job
  BY DEF Goes, Follows, Move
<1>2. CASE ResolveUser(r) \/ FindSecret(r)
  BY <1>1, <1>2, ResolveUserDoes, FindSecretDoes
<1>3. CASE UpsertSecret(r) \/ ConfirmSecret(r) \/ RemoveSecret(r)
  BY <1>1, <1>3, UpsertSecretDoes, ConfirmSecretDoes, RemoveSecretDoes
<1>4. CASE CreateChallenge(r) \/ FindChallenge(r) \/ DeleteChallenge(r)
  BY <1>1, <1>4, CreateChallengeDoes, FindChallengeDoes, DeleteChallengeDoes
<1>5. CASE InsertCredential(r) \/ Verify(r)
  BY <1>1, <1>5, InsertCredentialDoes, VerifyDoes
<1>6. CASE UpdatePasskey(r) \/ DeleteCredential(r) \/ CallFails(r) \/ DeletionFails(r)
  BY <1>1, <1>6, UpdatePasskeyDoes, DeleteCredentialDoes, CallFailsDoes, DeletionFailsDoes
<1> QED
  BY <1>2, <1>3, <1>4, <1>5, <1>6 DEF Step

LEMMA LocalsStep ==
    ASSUME TInv, [Next]_vars
    PROVE  Locals
<1>1. CASE UNCHANGED vars \/ Tick \/ \E u \in Users : EndSession(u)
  BY <1>1 DEF vars, Tick, EndSession, Locals
<1>2. ASSUME NEW r \in Requests, NewCall(r)
      PROVE  Locals
  BY <1>2, NewCallDoes DEF Locals
<1>3. ASSUME NEW r \in Requests, Step(r) \/ CallFails(r)
      PROVE  Locals
  BY <1>3, StepGoes DEF Locals
<1> QED
  BY <1>1, <1>2, <1>3 DEF Next

\* A call that has answered does not move any more.
LEMMA Settled ==
    ASSUME TInv, Locals, NEW x \in Requests, pc[x] = "ok"
    PROVE  pc'[x] = "ok" /\ job'[x] = job[x]
BY DEF Locals, Arrives, Goes, Busy, Move

LEMMA BeganStays ==
    ASSUME TInv, Locals, NEW x, Began(x)
    PROVE  Began(x)' /\ job'[x] = job[x]
BY Settled DEF Began

LEMMA NextCalls ==
    ASSUME TInv, Locals
    PROVE  /\ pc' \in [Requests -> Pcs] /\ job' \in [Requests -> Job \cup {None}] /\ AnswersGrow
           /\ CallInv' /\ HandedInv' /\ AnswersInv'
<1>1. CASE UNCHANGED <<pc, job, answers>>
  BY <1>1, SameAnswers DEF TInv, TypeOK, CallInv, HandedInv, AnswersInv, Began
<1>2. ASSUME NEW r \in Requests, NEW l \in Pcs, NEW j \in Job, Move(r, l, j), AnswersGrow, l # "new",
             PlaceOK(l, j), ArgsOK(j),
             j.kind \in {"register", "assert"} => j.arg \in Pending \/ Began(j.arg),
             j.kind = "assert" => answers'[j.arg] # None
      PROVE  /\ pc' \in [Requests -> Pcs] /\ job' \in [Requests -> Job \cup {None}] /\ AnswersGrow
             /\ CallInv' /\ HandedInv' /\ AnswersInv'
  <2>0. j # None /\ pc'[r] = l /\ job'[r] = j
    BY <1>2, JobFields DEF Move
  <2>1. CallInv'
    BY <1>2, <2>0 DEF TInv, CallInv, Move
  <2>2. HandedInv'
    <3> SUFFICES ASSUME NEW q \in Requests, job'[q] # None, job'[q].kind \in {"register", "assert"},
                        NEW x, x = job'[q].arg
                 PROVE  x \in Pending \/ Began(x)'
      BY DEF HandedInv, Began
    <3>1. x \in Pending \/ Began(x)
      <4>1. CASE q = r
        BY <1>2, <2>0, <4>1
      <4>2. CASE q # r
        BY <1>2, <4>2 DEF Move, TInv, HandedInv
      <4> QED
        BY <4>1, <4>2
    <3> QED
      BY <3>1, BeganStays
  <2>3. AnswersInv'
    <3> SUFFICES ASSUME NEW q \in Requests, job'[q] # None, job'[q].kind = "assert"
                 PROVE  answers'[job'[q].arg] # None
      BY DEF AnswersInv
    <3>1. CASE q = r
      BY <1>2, <2>0, <3>1
    <3>2. CASE q # r
      <4>1. job'[q] = job[q]
        BY <1>2, <3>2 DEF Move
      <4>2. answers[job[q].arg] # None /\ job[q].arg \in Names
        BY <4>1 DEF TInv, AnswersInv, CallInv, ArgsOK, Naming
      <4> QED
        BY <1>2, <4>1, <4>2 DEF AnswersGrow
    <3> QED
      BY <3>1, <3>2
  <2> QED
    BY <1>2, <2>1, <2>2, <2>3 DEF Move
<1>3. ASSUME NEW r \in Requests, NEW l \in Pcs, NEW j \in Job, Arrives(r, l, j)
      PROVE  /\ pc' \in [Requests -> Pcs] /\ job' \in [Requests -> Job \cup {None}] /\ AnswersGrow
             /\ CallInv' /\ HandedInv' /\ AnswersInv'
  <2>1. Move(r, l, j) /\ AnswersGrow /\ l # "new" /\ PlaceOK(l, j) /\ ArgsOK(j)
    BY <1>3 DEF Arrives
  <2>2. j.kind \in {"register", "assert"} => j.arg \in Pending \/ Began(j.arg)
    BY <1>3, HandedAre DEF Arrives
  <2>3. j.kind = "assert" => answers'[j.arg] # None
    BY <1>3 DEF Arrives
  <2> QED
    BY <1>2, <2>1, <2>2, <2>3
<1>4. ASSUME NEW r \in Requests, NEW l \in Pcs, NEW j \in Job, Goes(r, l, j)
      PROVE  /\ pc' \in [Requests -> Pcs] /\ job' \in [Requests -> Job \cup {None}] /\ AnswersGrow
             /\ CallInv' /\ HandedInv' /\ AnswersInv'
  <2>0. pc[r] # "new" /\ answers' = answers /\ j.kind = job[r].kind /\ j.user = job[r].user
    BY <1>4 DEF Goes, Busy, Follows
  <2>1. job[r] # None /\ ArgsOK(job[r])
    BY <2>0, UnderWay
  <2>2. j.kind \in Naming => j.arg = job[r].arg
    BY <1>4 DEF Goes, Follows
  <2>3. ArgsOK(j)
    BY <2>0, <2>1, <2>2 DEF ArgsOK
  <2>4. j.kind \in {"register", "assert"} => j.arg \in Pending \/ Began(j.arg)
    BY <2>0, <2>1, <2>2 DEF TInv, HandedInv, Naming
  <2>5. j.kind = "assert" => answers'[j.arg] # None
    BY <2>0, <2>1, <2>2 DEF TInv, AnswersInv, Naming
  <2>6. AnswersGrow
    BY <2>0, SameAnswers
  <2>7. Move(r, l, j) /\ l # "new" /\ PlaceOK(l, j)
    BY <1>4 DEF Goes
  <2> QED
    BY <1>2, <2>3, <2>4, <2>5, <2>6, <2>7
<1> QED
  BY <1>1, <1>3, <1>4 DEF Locals

Tables ==
    /\ now \in 0..MaxNow /\ load \in Workloads
    /\ sessions \subseteq Users
    /\ totp \in [Users -> Secret \cup {None}]
    /\ challenges \in [Names -> Challenge \cup {None}]
    /\ creds \in [Names -> Credential \cup {None}]
    /\ checked \subseteq Requests /\ crossed \subseteq Users
    /\ accepted \in [Names -> SUBSET Requests]
    /\ contended \subseteq Names /\ peaks \in [Names -> 0..MaxCount]

LEMMA TablesNow ==
    ASSUME TInv
    PROVE  Tables
BY DEF TInv, TypeOK, Tables

LEMMA CountedType ==
    ASSUME NEW row \in Credential, NEW n \in 0..MaxCount
    PROVE  Counted(row, n) \in Credential /\ Counted(row, n).count = n /\ Counted(row, n).user = row.user
BY DEF Counted, Credential

LEMMA SecretTypes ==
    /\ \A r \in Requests : /\ [secret |-> r, confirmed |-> FALSE] \in Secret
                           /\ [secret |-> r, confirmed |-> FALSE].secret = r
                           /\ ~[secret |-> r, confirmed |-> FALSE].confirmed
    /\ \A s \in Secret : [s EXCEPT !.confirmed = TRUE] \in Secret /\ [s EXCEPT !.confirmed = TRUE].secret = s.secret
BY DEF Secret

LEMMA NextTables ==
    ASSUME TInv, [Next]_vars
    PROVE  Tables'
<1>0. Tables
  BY TablesNow
<1>1. CASE UNCHANGED <<now, load, rows, history>>
  BY <1>0, <1>1 DEF Tables, rows, history
<1>2. CASE UNCHANGED vars
  BY <1>1, <1>2 DEF vars
<1>3. CASE Tick
  <2>1. now' \in 0..MaxNow
    BY <1>0, <1>3, FactorsAssumption DEF Tables, Tick
  <2> QED
    BY <1>0, <1>3, <2>1 DEF Tables, Tick, rows, history
<1>4. ASSUME NEW u \in Users, EndSession(u)
      PROVE  Tables'
  BY <1>0, <1>4 DEF Tables, EndSession, history
<1>5. ASSUME NEW r \in Requests, NewCall(r)
      PROVE  Tables'
  BY <1>1, <1>5, NewCallDoes
<1>6. ASSUME NEW r \in Requests, Step(r) \/ CallFails(r)
      PROVE  Tables'
  <2>1. CASE ResolveUser(r) \/ FindChallenge(r) \/ CallFails(r) \/ DeletionFails(r)
    BY <1>1, <2>1, ResolveUserDoes, FindChallengeDoes, CallFailsDoes, DeletionFailsDoes
  <2>2. CASE FindSecret(r)
    <3>1. UNCHANGED <<now, load, rows, crossed, accepted, contended, peaks>>
      BY <2>2, FindSecretDoes
    <3>2. checked' \subseteq Requests
      <4>1. CASE checked' = checked
        BY <1>0, <4>1 DEF Tables
      <4>2. CASE /\ Goes(r, "confirm", job[r]) /\ totp[job[r].user] # None /\ totp[job[r].user].secret = job[r].arg
                 /\ checked' = checked \cup ({job[r].arg} \ {None})
        <5>1. pc[r] = "find"
          BY <2>2 DEF FindSecret
        <5>2. job[r].user \in Users
          BY <5>1, UnderWay DEF PlaceOK, Anonymous
        <5>3. totp[job[r].user] \in Secret
          BY <1>0, <4>2, <5>2 DEF Tables
        <5>4. totp[job[r].user].secret \in Requests
          BY <5>3 DEF Secret
        <5> QED
          BY <1>0, <4>2, <5>4 DEF Tables
      <4> QED
        BY <2>2, <4>1, <4>2, FindSecretDoes
    <3> QED
      BY <1>0, <3>1, <3>2 DEF Tables, rows
  <2>3. CASE UpsertSecret(r)
    <3> DEFINE s == [secret |-> r, confirmed |-> FALSE]
    <3>1. s \in Secret
      BY SecretTypes
    <3>2. totp' = [totp EXCEPT ![job[r].user] = s] /\ job[r].user \in Users
      BY <2>3, UpsertSecretDoes
    <3> HIDE DEF s
    <3>3. totp' \in [Users -> Secret \cup {None}]
      BY <1>0, <3>1, <3>2 DEF Tables
    <3>4. crossed' \subseteq Users
      <4>1. crossed' = crossed \/ crossed' = crossed \cup {job[r].user}
        BY <2>3, UpsertSecretDoes
      <4> QED
        BY <1>0, <3>2, <4>1 DEF Tables
    <3> QED
      BY <1>0, <2>3, <3>3, <3>4, UpsertSecretDoes DEF Tables
  <2>4. CASE ConfirmSecret(r)
    <3>0. job[r].user \in Users
      BY <2>4, ConfirmSecretDoes
    <3>1. totp' \in [Users -> Secret \cup {None}]
      <4>1. CASE totp[job[r].user] = None
        BY <1>0, <2>4, <4>1, ConfirmSecretDoes DEF Tables
      <4>2. CASE totp[job[r].user] # None
        <5> DEFINE s == [totp[job[r].user] EXCEPT !.confirmed = TRUE]
        <5>1. totp[job[r].user] \in Secret
          BY <1>0, <3>0, <4>2 DEF Tables
        <5>2. s \in Secret
          BY <5>1, SecretTypes
        <5>3. totp' = [totp EXCEPT ![job[r].user] = s]
          BY <2>4, <4>2, ConfirmSecretDoes
        <5> HIDE DEF s
        <5> QED
          BY <1>0, <3>0, <5>2, <5>3 DEF Tables
      <4> QED
        BY <4>1, <4>2
    <3>2. crossed' \subseteq Users
      <4>1. crossed' = crossed \/ crossed' = crossed \cup {job[r].user}
        BY <2>4, ConfirmSecretDoes
      <4> QED
        BY <1>0, <3>0, <4>1 DEF Tables
    <3> QED
      BY <1>0, <2>4, <3>1, <3>2, ConfirmSecretDoes DEF Tables
  <2>5. CASE RemoveSecret(r)
    <3>1. totp' \in [Users -> Secret \cup {None}]
      BY <1>0, <2>5, RemoveSecretDoes DEF Tables
    <3> QED
      BY <1>0, <2>5, <3>1, RemoveSecretDoes DEF Tables, history
  <2>6. CASE CreateChallenge(r) \/ DeleteChallenge(r)
    <3>1. challenges' \in [Names -> Challenge \cup {None}]
      BY <1>0, <2>6, CreateChallengeDoes, DeleteChallengeDoes DEF Tables
    <3> QED
      BY <1>0, <2>6, <3>1, CreateChallengeDoes, DeleteChallengeDoes DEF Tables, history
  <2>7. CASE InsertCredential(r)
    <3>1. creds' \in [Names -> Credential \cup {None}]
      BY <1>0, <2>7, InsertCredentialDoes DEF Tables
    <3> QED
      BY <1>0, <2>7, <3>1, InsertCredentialDoes DEF Tables, history
  <2>8. CASE Verify(r)
    <3>1. answers[job[r].arg].cred \in Names
      BY <2>8, VerifyDoes, AnswerType
    <3>2. contended' \subseteq Names
      BY <1>0, <2>8, <3>1, VerifyDoes DEF Tables
    <3>3. accepted' \in [Names -> SUBSET Requests]
      BY <1>0, <2>8, VerifyDoes DEF Tables
    <3> QED
      BY <1>0, <2>8, <3>2, <3>3, VerifyDoes DEF Tables, rows
  <2>9. CASE UpdatePasskey(r)
    <3> DEFINE a == answers[job[r].arg]
    <3>1. a.cred \in Names /\ a.count \in 0..MaxCount
      <4>1. a.cred \in Names /\ a.count \in 0..MaxCount
        BY <2>9, UpdatePasskeyDoes, AnswerType
      <4> QED
        BY <4>1, FactorsAssumption
    <3>2. accepted' \in [Names -> SUBSET Requests]
      BY <1>0, <2>9, UpdatePasskeyDoes DEF Tables
    <3>3. creds' \in [Names -> Credential \cup {None}] /\ peaks' \in [Names -> 0..MaxCount]
      <4>1. CASE creds' = creds /\ peaks' = peaks
        BY <1>0, <4>1 DEF Tables
      <4>2. CASE /\ creds[a.cred] # None /\ creds' = [creds EXCEPT ![a.cred] = Counted(@, a.count)]
                 /\ peaks' = [peaks EXCEPT ![a.cred] = IF a.count > @ THEN a.count ELSE @]
        <5>1. creds[a.cred] \in Credential
          BY <1>0, <3>1, <4>2 DEF Tables
        <5>2. Counted(creds[a.cred], a.count) \in Credential
          BY <3>1, <5>1, CountedType
        <5>3. creds' = [creds EXCEPT ![a.cred] = Counted(creds[a.cred], a.count)]
          BY <4>2
        <5> QED
          BY <1>0, <3>1, <4>2, <5>2, <5>3 DEF Tables
      <4> QED
        BY <2>9, <4>1, <4>2, UpdatePasskeyDoes
    <3> QED
      BY <1>0, <2>9, <3>2, <3>3, UpdatePasskeyDoes DEF Tables
  <2>10. CASE DeleteCredential(r)
    <3>1. creds' \in [Names -> Credential \cup {None}] /\ peaks' \in [Names -> 0..MaxCount]
      BY <1>0, <2>10, DeleteCredentialDoes, FactorsAssumption DEF Tables
    <3> QED
      BY <1>0, <2>10, <3>1, DeleteCredentialDoes DEF Tables
  <2> QED
    BY <1>6, <2>1, <2>2, <2>3, <2>4, <2>5, <2>6, <2>7, <2>8, <2>9, <2>10 DEF Step
<1> QED
  BY <1>2, <1>3, <1>4, <1>5, <1>6 DEF Next

LEMMA NextTInv == TInv /\ [Next]_vars => TInv'
<1> SUFFICES ASSUME TInv, [Next]_vars
             PROVE  TInv'
  OBVIOUS
<1>1. Tables' /\ Locals
  BY NextTables, LocalsStep
<1>2. /\ pc' \in [Requests -> Pcs] /\ job' \in [Requests -> Job \cup {None}] /\ AnswersGrow
      /\ CallInv' /\ HandedInv' /\ AnswersInv'
  BY <1>1, NextCalls
<1>3. TypeOK'
  BY <1>1, <1>2 DEF TypeOK, Tables, AnswersGrow
<1> QED
  BY <1>2, <1>3 DEF TInv

LEMMA InitTInv == Init => TInv
<1> SUFFICES ASSUME Init
             PROVE  TInv
  OBVIOUS
<1>1. challenges \in [Names -> Challenge \cup {None}]
  <2> DEFINE row == [user |-> None, expires |-> ChallengeTtl]
  <2>1. row \in Challenge
    BY FactorsAssumption DEF Challenge
  <2>2. challenges = [x \in Names |-> IF x \in Pending THEN row ELSE None]
    BY DEF Init
  <2> HIDE DEF row
  <2> QED
    BY <2>1, <2>2
<1>2. creds \in [Names -> Credential \cup {None}]
  <2>1. PICK u \in Users : creds = [x \in Names |-> IF x \in Passkeys THEN [user |-> u, count |-> 0] ELSE None]
    BY DEF Init
  <2> DEFINE row == [user |-> u, count |-> 0]
  <2>2. row \in Credential
    BY FactorsAssumption DEF Credential
  <2> HIDE DEF row
  <2>3. creds = [x \in Names |-> IF x \in Passkeys THEN row ELSE None]
    BY <2>1 DEF row
  <2> QED
    BY <2>2, <2>3
<1>3. now \in 0..MaxNow /\ peaks \in [Names -> 0..MaxCount]
  BY FactorsAssumption DEF Init
<1>4. TypeOK
  BY <1>1, <1>2, <1>3 DEF Init, TypeOK, Pcs
<1> QED
  BY <1>4 DEF TInv, Init, CallInv, HandedInv, AnswersInv

\* The rows and the locals of the calls are as declared, and a call that brings
\* an answer names a challenge.
THEOREM TypeCorrect == Spec => []TypeOK
<1>1. TInv => TypeOK
  BY DEF TInv
<1> QED
  BY <1>1, InitTInv, NextTInv, PTL DEF Spec
-----------------------------------------------------------------------------
(* A passkey belongs to the account that began its registration.            *)

\* Which rows a step may touch.
LEMMA EnrolledStays ==
    ASSUME TInv, Locals, NEW x, NEW u, Enrolled(x, u)
    PROVE  Enrolled(x, u)'
BY BeganStays DEF Enrolled

\* A challenge that is there after a step was there before, or is the caller's.
LEMMA ChallengesStep ==
    ASSUME TInv, [Next]_vars
    PROVE  \/ challenges' = challenges
           \/ \E r \in Requests : DeleteChallenge(r) /\ challenges' = [challenges EXCEPT ![job[r].arg] = None]
           \/ \E r \in Requests, row \in Challenge :
                 /\ CreateChallenge(r) /\ row.user = job[r].user /\ challenges' = [challenges EXCEPT ![r] = row]
<1>1. CASE UNCHANGED vars \/ Tick \/ \E u \in Users : EndSession(u)
  BY <1>1 DEF vars, rows, Tick, EndSession
<1>2. ASSUME NEW r \in Requests, NewCall(r)
      PROVE  challenges' = challenges
  BY <1>2, NewCallDoes DEF rows
<1>3. ASSUME NEW r \in Requests, \/ CallFails(r) \/ DeletionFails(r) \/ ResolveUser(r)
                                 \/ FindSecret(r) \/ FindChallenge(r) \/ Verify(r)
      PROVE  challenges' = challenges
  BY <1>3, CallFailsDoes, DeletionFailsDoes, ResolveUserDoes, FindSecretDoes, FindChallengeDoes, VerifyDoes DEF rows
<1>4. ASSUME NEW r \in Requests, \/ UpsertSecret(r) \/ ConfirmSecret(r) \/ RemoveSecret(r) \/ InsertCredential(r)
                                 \/ UpdatePasskey(r) \/ DeleteCredential(r)
      PROVE  challenges' = challenges
  BY <1>4 DEF UpsertSecret, ConfirmSecret, RemoveSecret, InsertCredential, UpdatePasskey, DeleteCredential
<1> QED
  BY <1>1, <1>2, <1>3, <1>4, CreateChallengeDoes, DeleteChallengeDoes DEF Next, Step

\* The credentials change by a registration, an assertion or a removal.
LEMMA CredsStep ==
    ASSUME TInv, [Next]_vars
    PROVE  \/ creds' = creds
           \/ \E r \in Requests : InsertCredential(r) \/ UpdatePasskey(r) \/ DeleteCredential(r)
<1>1. CASE UNCHANGED vars \/ Tick \/ \E u \in Users : EndSession(u)
  BY <1>1 DEF vars, rows, Tick, EndSession
<1>2. ASSUME NEW r \in Requests, NewCall(r)
      PROVE  creds' = creds
  BY <1>2, NewCallDoes DEF rows
<1>3. ASSUME NEW r \in Requests, \/ CallFails(r) \/ DeletionFails(r) \/ ResolveUser(r)
                                 \/ FindSecret(r) \/ FindChallenge(r) \/ Verify(r)
      PROVE  creds' = creds
  BY <1>3, CallFailsDoes, DeletionFailsDoes, ResolveUserDoes, FindSecretDoes, FindChallengeDoes, VerifyDoes DEF rows
<1>4. ASSUME NEW r \in Requests, \/ UpsertSecret(r) \/ ConfirmSecret(r) \/ RemoveSecret(r) \/ CreateChallenge(r)
                                 \/ DeleteChallenge(r)
      PROVE  creds' = creds
  BY <1>4 DEF UpsertSecret, ConfirmSecret, RemoveSecret, CreateChallenge, DeleteChallenge
<1> QED
  BY <1>1, <1>2, <1>3, <1>4 DEF Next, Step

\* A registration turns `done` when it finds a challenge of its account.
LEMMA DoneStep ==
    ASSUME TInv, [Next]_vars, NEW q \in Requests, job'[q] # None, job'[q].kind = "register", job'[q].done
    PROVE  /\ job[q] # None /\ job[q].kind = "register"
           /\ job'[q].arg = job[q].arg /\ job'[q].user = job[q].user
           /\ job[q].arg \in Names
           /\ \/ job[q].done
              \/ challenges[job[q].arg] # None /\ challenges[job[q].arg].user = job[q].user
<1> DEFINE Goal == /\ job[q] # None /\ job[q].kind = "register"
                   /\ job'[q].arg = job[q].arg /\ job'[q].user = job[q].user
                   /\ job[q].arg \in Names
                   /\ \/ job[q].done
                      \/ challenges[job[q].arg] # None /\ challenges[job[q].arg].user = job[q].user
<1>0. job[q] # None /\ job[q].kind = "register" => job[q].arg \in Names
  BY DEF TInv, CallInv, ArgsOK, Naming
<1>1. CASE job'[q] = job[q]
  BY <1>0, <1>1
<1>2. CASE UNCHANGED vars \/ Tick \/ \E u \in Users : EndSession(u)
  BY <1>1, <1>2 DEF vars, Tick, EndSession
<1>3. ASSUME NEW r \in Requests, NewCall(r)
      PROVE  Goal
  <2>1. r # q
    BY <1>3, NewCallDoes DEF Arrives, Move
  <2> QED
    BY <1>1, <1>3, <2>1, NewCallDoes DEF Arrives, Move
<1>4. ASSUME NEW r \in Requests, NEW l, NEW j, Goes(r, l, j),
             job[r].kind = "register" /\ j.done => \/ job[r].done
                                                   \/ /\ challenges[job[r].arg] # None
                                                      /\ challenges[job[r].arg].user = job[r].user
      PROVE  Goal
  <2>1. CASE r # q
    BY <1>1, <1>4, <2>1 DEF Goes, Move
  <2>2. CASE r = q
    <3>1. pc[q] # "new"
      BY <1>4, <2>2 DEF Goes, Busy
    <3>2. job[q] # None
      BY <3>1, UnderWay
    <3>3. job'[q] = j /\ j.kind = job[q].kind /\ j.user = job[q].user /\ (j.kind \in Naming => j.arg = job[q].arg)
      BY <1>4, <2>2 DEF Goes, Follows, Move
    <3> QED
      BY <1>0, <1>4, <2>2, <3>2, <3>3 DEF Naming
  <2> QED
    BY <2>1, <2>2
<1>5. ASSUME NEW r \in Requests, NEW l, Goes(r, l, job[r])
      PROVE  Goal
  BY <1>4, <1>5
<1>6. ASSUME NEW r \in Requests, Step(r) \/ CallFails(r)
      PROVE  Goal
  <2>1. CASE ResolveUser(r)
    BY <1>4, <2>1, ResolveUserDoes
  <2>2. CASE FindSecret(r)
    <3>1. \A j : Goes(r, "session", j) => j.kind = job[r].kind
      BY DEF Goes, Follows
    <3> QED
      BY <1>4, <1>5, <2>2, <3>1, FindSecretDoes
  <2>3. CASE UpsertSecret(r)
    <3>1. \A l, j : Goes(r, l, j) => j.kind = job[r].kind
      BY DEF Goes, Follows
    <3>2. PICK l \in {"ok", "failed"}, j \in Job : Goes(r, l, j) /\ j.kind \in {"setup", "confirm"}
      BY <2>3, UpsertSecretDoes
    <3>3. job[r].kind # "register"
      BY <3>1, <3>2
    <3> QED
      BY <1>4, <3>2, <3>3
  <2>4. CASE FindChallenge(r)
    BY <1>4, <1>5, <2>4, FindChallengeDoes
  <2>5. CASE ConfirmSecret(r) \/ RemoveSecret(r) \/ CreateChallenge(r) \/ DeleteChallenge(r) \/ CallFails(r)
              \/ DeletionFails(r)
    BY <1>5, <2>5, ConfirmSecretDoes, RemoveSecretDoes, CreateChallengeDoes, DeleteChallengeDoes, CallFailsDoes,
       DeletionFailsDoes
  <2>6. CASE InsertCredential(r) \/ Verify(r) \/ UpdatePasskey(r) \/ DeleteCredential(r)
    BY <1>5, <2>6, InsertCredentialDoes, VerifyDoes, UpdatePasskeyDoes, DeleteCredentialDoes
  <2> QED
    BY <1>6, <2>1, <2>2, <2>3, <2>4, <2>5, <2>6 DEF Step
<1> QED
  BY <1>2, <1>3, <1>6 DEF Next

\* A challenge that the account of a registration may answer is one it asked for.
LEMMA OwnChallenge ==
    ASSUME TInv, EnrolInv, NEW x \in Names, NEW u \in Users, challenges[x] # None, challenges[x].user = u
    PROVE  Enrolled(x, u)
<1>1. u # None
  BY FactorsAssumption
<1>2. x \in Requests /\ Began(x) /\ job[x].user = u
  BY <1>1 DEF EnrolInv
<1>3. ArgsOK(job[x])
  BY <1>2 DEF TInv, CallInv, Began
<1> QED
  BY <1>1, <1>2, <1>3 DEF Enrolled, Began, ArgsOK, Anonymous

LEMMA NextEnrolInv == TInv /\ EnrolInv /\ [Next]_vars => EnrolInv'
<1> SUFFICES ASSUME TInv, EnrolInv, [Next]_vars
             PROVE  EnrolInv'
  OBVIOUS
<1>0. Locals /\ Tables /\ Tables'
  BY LocalsStep, TablesNow, NextTables
<1>1. ASSUME NEW x \in Names, challenges'[x] # None
      PROVE  IF x \in Requests THEN Began(x)' /\ challenges'[x].user = job'[x].user ELSE challenges'[x].user = None
  <2>1. CASE challenges'[x] = challenges[x]
    BY <1>0, <1>1, <2>1, BeganStays DEF EnrolInv
  <2>2. ASSUME NEW r \in Requests, NEW row \in Challenge, CreateChallenge(r), row.user = job[r].user,
               challenges' = [challenges EXCEPT ![r] = row], x = r
        PROVE  x \in Requests /\ Began(x)' /\ challenges'[x].user = job'[x].user
    <3>1. pc'[r] = "ok" /\ job'[r] = job[r] /\ job[r] # None /\ job[r].kind \in {"enrol", "ask"}
      BY <2>2, CreateChallengeDoes, UnderWay DEF Goes, Move, Busy
    <3>2. challenges'[r] = row
      BY <1>0, <2>2 DEF Tables
    <3> QED
      BY <2>2, <3>1, <3>2 DEF Began
  <2>3. ASSUME NEW r \in Requests, NEW row \in Challenge, challenges' = [challenges EXCEPT ![r] = row], x # r
        PROVE  challenges'[x] = challenges[x]
    BY <1>0, <2>3 DEF Tables
  <2>4. ASSUME NEW r \in Requests, challenges' = [challenges EXCEPT ![job[r].arg] = None]
        PROVE  challenges'[x] = challenges[x]
    BY <1>0, <1>1, <2>4 DEF Tables
  <2> QED
    BY <2>1, <2>2, <2>3, <2>4, ChallengesStep
<1>2. ASSUME NEW q \in Requests, job'[q] # None, job'[q].kind = "register", job'[q].done,
             NEW x, x = job'[q].arg, NEW u, u = job'[q].user
      PROVE  Enrolled(x, u)'
  <2>1. /\ job[q] # None /\ job[q].kind = "register" /\ x = job[q].arg /\ u = job[q].user /\ x \in Names
        /\ job[q].done \/ (challenges[x] # None /\ challenges[x].user = u)
    BY <1>2, DoneStep
  <2>2. u \in Users
    <3>1. pc[q] # "new"
      BY <2>1 DEF TInv, CallInv
    <3> QED
      BY <2>1, <3>1, UnderWay DEF Anonymous
  <2>3. Enrolled(x, u)
    BY <2>1, <2>2, OwnChallenge DEF EnrolInv
  <2> QED
    BY <1>0, <2>3, EnrolledStays
<1>3. ASSUME NEW x \in Requests, creds'[x] # None, NEW u, u = creds'[x].user
      PROVE  Enrolled(x, u)'
  <2>0. x \in Names
    BY DEF Names
  <2>1. CASE creds[x] # None /\ creds[x].user = u
    BY <1>0, <2>1, EnrolledStays DEF EnrolInv
  <2>2. CASE creds' = creds
    BY <1>3, <2>1, <2>2
  <2>3. ASSUME NEW r \in Requests, InsertCredential(r), creds' # creds
        PROVE  Enrolled(x, u)'
    <3>1. PICK row \in Credential : row.user = job[r].user /\ creds' = [creds EXCEPT ![job[r].arg] = row]
      BY <2>3, InsertCredentialDoes
    <3>2. CASE x # job[r].arg
      BY <1>0, <1>3, <2>0, <2>1, <3>1, <3>2 DEF Tables
    <3>3. CASE x = job[r].arg
      <4>1. u = job[r].user
        BY <1>0, <1>3, <2>0, <3>1, <3>3 DEF Tables
      <4>2. job[r] # None /\ job[r].kind = "register" /\ job[r].done
        BY <2>3, InsertCredentialDoes, UnderWay
      <4>3. Enrolled(x, u)
        BY <3>3, <4>1, <4>2 DEF EnrolInv
      <4> QED
        BY <1>0, <4>3, EnrolledStays
    <3> QED
      BY <3>2, <3>3
  <2>4. ASSUME NEW r \in Requests, UpdatePasskey(r), creds' # creds
        PROVE  Enrolled(x, u)'
    <3> DEFINE a == answers[job[r].arg]
    <3>1. creds[a.cred] # None /\ creds' = [creds EXCEPT ![a.cred] = Counted(creds[a.cred], a.count)]
      BY <2>4, UpdatePasskeyDoes
    <3>2. a.cred \in Names /\ a.count \in 0..MaxCount
      BY <2>4, UpdatePasskeyDoes, AnswerType
    <3>3. a.count \in 0..MaxCount
      BY <3>2, FactorsAssumption
    <3>4. creds[a.cred] \in Credential
      BY <1>0, <3>1, <3>2 DEF Tables
    <3>5. Counted(creds[a.cred], a.count).user = creds[a.cred].user
      BY <3>3, <3>4, CountedType
    <3>6. creds[x] # None /\ creds'[x].user = creds[x].user
      BY <1>0, <1>3, <2>0, <3>1, <3>2, <3>5 DEF Tables
    <3> QED
      BY <1>3, <2>1, <3>6
  <2>5. ASSUME NEW r \in Requests, DeleteCredential(r)
        PROVE  Enrolled(x, u)'
    <3>1. creds' = creds \/ creds' = [creds EXCEPT ![job[r].arg] = None]
      BY <2>5, DeleteCredentialDoes
    <3>2. creds'[x] = creds[x]
      BY <1>0, <1>3, <2>0, <3>1 DEF Tables
    <3> QED
      BY <1>3, <2>1, <3>2
  <2> QED
    BY <2>2, <2>3, <2>4, <2>5, CredsStep
<1> QED
  BY <1>1, <1>2, <1>3 DEF EnrolInv, Enrolled, Began

LEMMA InitEnrolInv == Init => EnrolInv
<1> SUFFICES ASSUME Init
             PROVE  EnrolInv
  OBVIOUS
<1>1. ASSUME NEW x \in Names, challenges[x] # None
      PROVE  x \notin Requests /\ challenges[x].user = None
  <2>1. x \in Pending /\ challenges[x] = [user |-> None, expires |-> ChallengeTtl]
    BY <1>1 DEF Init
  <2> QED
    BY <2>1, FactorsAssumption
<1>2. ASSUME NEW x \in Requests
      PROVE  creds[x] = None
  BY FactorsAssumption DEF Init, Names
<1> QED
  BY <1>1, <1>2 DEF EnrolInv, Init

\* A passkey belongs to the account whose session began its registration: a
\* challenge that another account asked for, or one of a login, registers
\* nothing, however the calls interleave and however often an answer is sent.
THEOREM PasskeysOfRequesters == Spec => []PasskeyOfRequester
<1>1. Init => TInv /\ EnrolInv
  BY InitTInv, InitEnrolInv
<1>2. TInv /\ EnrolInv /\ [Next]_vars => (TInv /\ EnrolInv)'
  BY NextTInv, NextEnrolInv
<1>3. EnrolInv => PasskeyOfRequester
  BY DEF EnrolInv, Enrolled, PasskeyOfRequester
<1> QED
  BY <1>1, <1>2, <1>3, PTL DEF Spec
-----------------------------------------------------------------------------
(* A login challenge is not accepted again.                                 *)

\* A call moves by an action of its own.
LEMMA OwnStep ==
    ASSUME TInv, [Next]_vars, NEW q \in Requests
    PROVE  \/ pc'[q] = pc[q] /\ job'[q] = job[q]
           \/ NewCall(q) \/ Step(q) \/ CallFails(q)
<1>1. CASE UNCHANGED vars \/ Tick \/ \E u \in Users : EndSession(u)
  BY <1>1 DEF vars, Tick, EndSession
<1>2. ASSUME NEW r \in Requests, NewCall(r), r # q
      PROVE  pc'[q] = pc[q] /\ job'[q] = job[q]
  BY <1>2, NewCallDoes DEF Arrives, Move
<1>3. ASSUME NEW r \in Requests, Step(r) \/ CallFails(r), r # q
      PROVE  pc'[q] = pc[q] /\ job'[q] = job[q]
  BY <1>3, StepGoes DEF Goes, Move
<1> QED
  BY <1>1, <1>2, <1>3 DEF Next

\* Where a call stands after a step of its own.
LEMMA Place ==
    ASSUME NEW r \in Requests, NEW l, NEW j, Goes(r, l, j)
    PROVE  pc'[r] = l /\ job'[r] = j
BY DEF Goes, Move

\* How a login gets to its credential and to its counter.
LEMMA AssertStep ==
    ASSUME TInv, [Next]_vars, NEW q \in Requests, pc'[q] \in {"credential", "update"}
    PROVE  /\ job'[q] = job[q] /\ pc[q] # "new"
           /\ \/ pc[q] = pc'[q]
              \/ DeleteChallenge(q) /\ pc'[q] = "credential"
              \/ Verify(q) /\ pc'[q] = "update"
<1>1. CASE pc'[q] = pc[q] /\ job'[q] = job[q]
  BY <1>1
<1>2. ~NewCall(q)
  <2>1. ASSUME NEW l, NEW j, Arrives(q, l, j)
        PROVE  FALSE
    BY <2>1 DEF Arrives, Move
  <2> QED
    BY <2>1, NewCallDoes
<1>3. ~(ResolveUser(q) \/ FindSecret(q) \/ UpsertSecret(q))
  <2>1. \A l, j : Goes(q, l, j) => l \in {"credential", "update"}
    BY Place
  <2>2. ~ResolveUser(q)
    BY <2>1, ResolveUserDoes
  <2>3. ~FindSecret(q)
    BY <2>1, FindSecretDoes
  <2>4. ~UpsertSecret(q)
    BY <2>1, UpsertSecretDoes
  <2> QED
    BY <2>2, <2>3, <2>4
<1>4. ~(ConfirmSecret(q) \/ RemoveSecret(q) \/ CreateChallenge(q) \/ FindChallenge(q))
  <2>1. \A l, j : Goes(q, l, j) => l \in {"credential", "update"}
    BY Place
  <2>2. ~ConfirmSecret(q)
    <3>1. ~Goes(q, "ok", job[q])
      BY <2>1
    <3> QED
      BY <3>1, ConfirmSecretDoes
  <2>3. ~RemoveSecret(q)
    BY <2>1, RemoveSecretDoes
  <2>4. ~CreateChallenge(q)
    BY <2>1, CreateChallengeDoes
  <2>5. ~FindChallenge(q)
    BY <2>1, FindChallengeDoes
  <2> QED
    BY <2>2, <2>3, <2>4, <2>5
<1>5. ~(InsertCredential(q) \/ UpdatePasskey(q) \/ DeleteCredential(q) \/ CallFails(q) \/ DeletionFails(q))
  BY Place, InsertCredentialDoes, UpdatePasskeyDoes, DeleteCredentialDoes, CallFailsDoes, DeletionFailsDoes
<1>6. CASE DeleteChallenge(q)
  BY <1>6, Place, DeleteChallengeDoes
<1>7. CASE Verify(q)
  BY <1>7, Place, VerifyDoes
<1> QED
  BY <1>1, <1>2, <1>3, <1>4, <1>5, <1>6, <1>7, OwnStep DEF Step

\* A challenge that was handed out and is gone does not come back.
LEMMA StaysAway ==
    ASSUME TInv, [Next]_vars, NEW x \in Names, challenges[x] = None, x \in Pending \/ Began(x)
    PROVE  challenges'[x] = None
<1>0. challenges \in [Names -> Challenge \cup {None}]
  BY TablesNow DEF Tables
<1>1. ASSUME NEW r \in Requests, NEW row \in Challenge, CreateChallenge(r), challenges' = [challenges EXCEPT ![r] = row]
      PROVE  challenges'[x] = None
  <2>1. x # r
    BY <1>1, FactorsAssumption DEF CreateChallenge, Began
  <2> QED
    BY <1>0, <1>1, <2>1
<1>2. ASSUME NEW r \in Requests, challenges' = [challenges EXCEPT ![job[r].arg] = None]
      PROVE  challenges'[x] = None
  BY <1>0, <1>2
<1> QED
  BY <1>1, <1>2, ChallengesStep

LEMMA AcceptedStep ==
    ASSUME TInv, [Next]_vars
    PROVE  \/ accepted' = accepted
           \/ \E r \in Requests : /\ UpdatePasskey(r) \/ Verify(r)
                                 /\ accepted' = [accepted EXCEPT ![job[r].arg] = @ \cup {r}]
<1>1. CASE UNCHANGED vars \/ Tick \/ \E u \in Users : EndSession(u)
  BY <1>1 DEF vars, history, Tick, EndSession
<1>2. ASSUME NEW r \in Requests, NewCall(r)
      PROVE  accepted' = accepted
  BY <1>2, NewCallDoes DEF history
<1>3. ASSUME NEW r \in Requests, CallFails(r) \/ DeletionFails(r) \/ ResolveUser(r) \/ FindSecret(r) \/ FindChallenge(r)
      PROVE  accepted' = accepted
  BY <1>3 DEF CallFails, DeletionFails, ResolveUser, FindSecret, FindChallenge, history
<1>4. ASSUME NEW r \in Requests, \/ UpsertSecret(r) \/ ConfirmSecret(r) \/ RemoveSecret(r) \/ CreateChallenge(r)
                                 \/ DeleteChallenge(r) \/ InsertCredential(r) \/ DeleteCredential(r)
      PROVE  accepted' = accepted
  BY <1>4 DEF UpsertSecret, ConfirmSecret, RemoveSecret, CreateChallenge, DeleteChallenge, InsertCredential,
              DeleteCredential, history
<1> QED
  BY <1>1, <1>2, <1>3, <1>4, VerifyDoes, UpdatePasskeyDoes DEF Next, Step

LEMMA NextReplayInv == TInv /\ ReplayInv /\ [Next]_vars => ReplayInv'
<1> SUFFICES ASSUME TInv, ReplayInv, [Next]_vars
             PROVE  ReplayInv'
  OBVIOUS
<1>0. Locals /\ Tables
  BY LocalsStep, TablesNow
<1>1. ASSUME NEW q \in Requests, pc[q] # "new", job[q].kind = "assert"
      PROVE  job[q].arg \in Names /\ (job[q].arg \in Pending \/ Began(job[q].arg))
  BY <1>1, UnderWay DEF ArgsOK, Naming, TInv, HandedInv
<1>2. ASSUME NEW q \in Requests, pc'[q] \in {"credential", "update"}
      PROVE  challenges'[job'[q].arg] = None
  <2>1. job'[q] = job[q] /\ pc[q] # "new"
    BY <1>2, AssertStep
  <2>2. CASE DeleteChallenge(q)
    BY <1>0, <2>1, <2>2, DeleteChallengeDoes DEF Tables
  <2>3. CASE pc[q] \in {"credential", "update"}
    <3>1. job[q].kind = "assert"
      BY <2>1, <2>3, UnderWay DEF PlaceOK
    <3>2. challenges[job[q].arg] = None
      BY <2>3 DEF ReplayInv
    <3> QED
      BY <1>1, <2>1, <3>1, <3>2, StaysAway
  <2>4. CASE Verify(q)
    BY <2>3, <2>4, VerifyDoes
  <2> QED
    BY <1>2, <2>2, <2>3, <2>4, AssertStep
<1>3. ASSUME NEW x \in Names, accepted'[x] # {}
      PROVE  challenges'[x] = None /\ (x \in Pending \/ Began(x)')
  <2>1. challenges[x] = None /\ (x \in Pending \/ Began(x))
    <3>1. CASE accepted[x] # {}
      BY <3>1 DEF ReplayInv
    <3>2. ASSUME NEW r \in Requests, UpdatePasskey(r) \/ Verify(r), accepted[x] = {},
                 accepted' = [accepted EXCEPT ![job[r].arg] = @ \cup {r}]
          PROVE  challenges[x] = None /\ (x \in Pending \/ Began(x))
      <4>1. pc[r] \in {"credential", "update"} /\ job[r].kind = "assert"
        BY <3>2, UpdatePasskeyDoes, VerifyDoes
      <4>2. x = job[r].arg
        BY <1>0, <1>3, <3>2, <4>1 DEF Tables
      <4> QED
        BY <1>1, <4>1, <4>2 DEF ReplayInv
    <3> QED
      BY <1>3, <3>1, <3>2, AcceptedStep
  <2> QED
    BY <1>0, <2>1, StaysAway, BeganStays
<1> QED
  BY <1>2, <1>3 DEF ReplayInv, Began

LEMMA InitReplayInv == Init => ReplayInv
BY DEF Init, ReplayInv

\* A call that finds a challenge is at that statement.
LEMMA FoundStep ==
    ASSUME TInv, [Next]_vars, NEW r \in Requests, pc[r] = "challenge", pc'[r] = "drop"
    PROVE  job[r].arg \in Names /\ challenges[job[r].arg] # None
<1>1. ~NewCall(r) /\ ~CallFails(r)
  BY Place, CallFailsDoes DEF NewCall
<1>2. Step(r)
  BY <1>1, OwnStep
<1>3. FindChallenge(r)
  BY <1>2 DEF Step, ResolveUser, FindSecret, UpsertSecret, ConfirmSecret, RemoveSecret, CreateChallenge,
              DeleteChallenge, DeletionFails, InsertCredential, Verify, UpdatePasskey, DeleteCredential
<1> QED
  BY <1>3, Place, FindChallengeDoes

\* A login challenge is accepted once: after a login that a challenge was
\* accepted for, no call finds that challenge any more.
THEOREM ChallengesAreNotReplayed == Spec => ChallengeNotReplayed
<1>1. Init => TInv /\ ReplayInv
  BY InitTInv, InitReplayInv
<1>2. TInv /\ ReplayInv /\ [Next]_vars => (TInv /\ ReplayInv)'
  BY NextTInv, NextReplayInv
<1>3. TInv /\ ReplayInv /\ [Next]_vars
      => [\A r \in Requests : pc[r] = "challenge" /\ pc'[r] = "drop" => accepted[job[r].arg] = {}]_vars
  BY FoundStep DEF ReplayInv
<1> QED
  BY <1>1, <1>2, <1>3, PTL DEF Spec, ChallengeNotReplayed
-----------------------------------------------------------------------------
(* A confirmed secret is one whose code was verified.                       *)

\* How a confirmation gets to its update.
LEMMA ConfirmStep ==
    ASSUME TInv, [Next]_vars, NEW q \in Requests, pc'[q] = "confirm"
    PROVE  /\ job'[q] = job[q] /\ job[q].user \in Users
           /\ \/ pc[q] = "confirm"
              \/ /\ totp' = totp /\ totp[job[q].user] # None /\ totp[job[q].user].secret \in checked'
<1>0. ASSUME pc[q] \in {"confirm", "find"}
      PROVE  job[q].user \in Users
  BY <1>0, UnderWay DEF PlaceOK, Anonymous
<1>1. CASE pc'[q] = pc[q] /\ job'[q] = job[q]
  BY <1>0, <1>1
<1>2. ~NewCall(q)
  <2>1. ASSUME NEW l, NEW j, Arrives(q, l, j)
        PROVE  FALSE
    BY <2>1 DEF Arrives, Move
  <2> QED
    BY <2>1, NewCallDoes
<1>3. \A l, j : Goes(q, l, j) => l = "confirm" /\ job'[q] = j
  BY Place
<1>4. ~ResolveUser(q) /\ ~UpsertSecret(q)
  <2>1. ~ResolveUser(q)
    BY <1>3, ResolveUserDoes
  <2>2. ~UpsertSecret(q)
    BY <1>3, UpsertSecretDoes
  <2> QED
    BY <2>1, <2>2
<1>5. ~ConfirmSecret(q) /\ ~RemoveSecret(q) /\ ~CreateChallenge(q) /\ ~FindChallenge(q)
  <2>0. ~Goes(q, "ok", job[q])
    BY <1>3
  <2>1. ~ConfirmSecret(q)
    BY <2>0, ConfirmSecretDoes
  <2>2. ~RemoveSecret(q)
    BY <2>0, RemoveSecretDoes
  <2>3. ~CreateChallenge(q)
    BY <2>0, CreateChallengeDoes
  <2>4. ~FindChallenge(q)
    BY <1>3, FindChallengeDoes
  <2> QED
    BY <2>1, <2>2, <2>3, <2>4
<1>6. ~DeleteChallenge(q) /\ ~InsertCredential(q) /\ ~Verify(q)
  <2>1. ~DeleteChallenge(q)
    BY <1>3, DeleteChallengeDoes
  <2>2. ~InsertCredential(q)
    BY <1>3, InsertCredentialDoes
  <2>3. ~Verify(q)
    BY <1>3, VerifyDoes
  <2> QED
    BY <2>1, <2>2, <2>3
<1>7. ~UpdatePasskey(q) /\ ~DeleteCredential(q) /\ ~CallFails(q) /\ ~DeletionFails(q)
  <2>1. ~UpdatePasskey(q)
    BY <1>3, UpdatePasskeyDoes
  <2>2. ~DeleteCredential(q)
    BY <1>3, DeleteCredentialDoes
  <2>3. ~CallFails(q) /\ ~DeletionFails(q)
    BY <1>3, CallFailsDoes, DeletionFailsDoes
  <2> QED
    BY <2>1, <2>2, <2>3
<1>8. CASE FindSecret(q)
  <2>0. job[q].user \in Users
    BY <1>0, <1>8 DEF FindSecret
  <2>1. /\ Goes(q, "confirm", job[q]) /\ totp[job[q].user] # None /\ totp[job[q].user].secret = job[q].arg
        /\ checked' = checked \cup ({job[q].arg} \ {None})
    BY <1>3, <1>8, FindSecretDoes
  <2>2. totp[job[q].user] \in Secret
    BY <2>0, <2>1, TablesNow DEF Tables
  <2>3. totp[job[q].user].secret \in Requests
    BY <2>2 DEF Secret
  <2>4. totp[job[q].user].secret \in checked'
    BY <2>1, <2>3, FactorsAssumption
  <2>5. totp' = totp
    BY <1>8, FindSecretDoes DEF rows
  <2> QED
    BY <1>3, <2>0, <2>1, <2>4, <2>5
<1> QED
  BY <1>1, <1>2, <1>4, <1>5, <1>6, <1>7, <1>8, OwnStep DEF Step

\* The secrets change by a setup, a confirmation or a removal; what was checked
\* and which accounts had calls that overlapped is not forgotten.
LEMMA SecretsStep ==
    ASSUME TInv, [Next]_vars
    PROVE  /\ checked \subseteq checked' /\ crossed \subseteq crossed'
           /\ \/ totp' = totp
              \/ \E r \in Requests : UpsertSecret(r) \/ ConfirmSecret(r) \/ RemoveSecret(r)
<1>1. CASE UNCHANGED vars \/ Tick \/ \E u \in Users : EndSession(u)
  BY <1>1 DEF vars, rows, history, Tick, EndSession
<1>2. ASSUME NEW r \in Requests, NewCall(r)
      PROVE  totp' = totp /\ checked' = checked /\ crossed' = crossed
  BY <1>2, NewCallDoes DEF rows, history
<1>3. ASSUME NEW r \in Requests, CallFails(r) \/ DeletionFails(r) \/ ResolveUser(r) \/ FindChallenge(r) \/ Verify(r)
      PROVE  totp' = totp /\ checked' = checked /\ crossed' = crossed
  BY <1>3 DEF CallFails, DeletionFails, ResolveUser, FindChallenge, Verify, rows, history
<1>4. ASSUME NEW r \in Requests, \/ CreateChallenge(r) \/ DeleteChallenge(r) \/ InsertCredential(r)
                                 \/ UpdatePasskey(r) \/ DeleteCredential(r)
      PROVE  totp' = totp /\ checked' = checked /\ crossed' = crossed
  BY <1>4 DEF CreateChallenge, DeleteChallenge, InsertCredential, UpdatePasskey, DeleteCredential, history
<1>5. ASSUME NEW r \in Requests, FindSecret(r)
      PROVE  totp' = totp /\ checked \subseteq checked' /\ crossed' = crossed
  BY <1>5 DEF FindSecret, rows
<1>6. ASSUME NEW r \in Requests, UpsertSecret(r) \/ ConfirmSecret(r) \/ RemoveSecret(r)
      PROVE  checked' = checked /\ crossed \subseteq crossed'
  BY <1>6 DEF UpsertSecret, ConfirmSecret, RemoveSecret, history
<1> QED
  BY <1>1, <1>2, <1>3, <1>4, <1>5, <1>6 DEF Next, Step

\* What a step makes of the secret of account u.
Sound(u) == totp[u] # None /\ totp[u].confirmed => u \in crossed \/ totp[u].secret \in checked

LEMMA NextConfirmInv == TInv /\ ConfirmInv /\ [Next]_vars => ConfirmInv'
<1> SUFFICES ASSUME TInv, ConfirmInv, [Next]_vars
             PROVE  ConfirmInv'
  OBVIOUS
<1>0. Tables /\ checked \subseteq checked' /\ crossed \subseteq crossed'
  BY TablesNow, SecretsStep
<1>1. \A u \in Users : Sound(u)
  BY DEF ConfirmInv, ConfirmedSecretChecked, Sound
<1>2. ASSUME NEW q \in Requests, pc'[q] = "confirm", pc[q] = "confirm", NEW u, u = job[q].user
      PROVE  u \in crossed \/ totp[u] = None \/ totp[u].secret \in checked
  BY <1>2 DEF ConfirmInv
<1> DEFINE Fine(u) == /\ totp'[u] # None /\ totp'[u].confirmed => u \in crossed' \/ totp'[u].secret \in checked'
                      /\ \A q \in Requests : pc'[q] = "confirm" /\ job'[q].user = u =>
                            u \in crossed' \/ totp'[u] = None \/ totp'[u].secret \in checked'
<1>3. ASSUME NEW u \in Users, totp'[u] = totp[u]
      PROVE  Fine(u)
  <2>1. totp'[u] # None /\ totp'[u].confirmed => u \in crossed' \/ totp'[u].secret \in checked'
    BY <1>0, <1>1, <1>3 DEF Sound
  <2>2. ASSUME NEW q \in Requests, pc'[q] = "confirm", job'[q].user = u
        PROVE  u \in crossed' \/ totp'[u] = None \/ totp'[u].secret \in checked'
    BY <1>0, <1>2, <1>3, <2>2, ConfirmStep
  <2> QED
    BY <2>1, <2>2
<1>4. ASSUME NEW r \in Requests, UpsertSecret(r), NEW u \in Users
      PROVE  Fine(u)
  <2> DEFINE s == [secret |-> r, confirmed |-> FALSE]
  <2>0. ~s.confirmed
    BY SecretTypes
  <2>1. job[r].user \in Users /\ totp' = [totp EXCEPT ![job[r].user] = s]
    BY <1>4, UpsertSecretDoes
  <2> HIDE DEF s
  <2>2. CASE u # job[r].user
    BY <1>0, <1>3, <2>1, <2>2 DEF Tables
  <2>3. CASE u = job[r].user
    <3>1. totp'[u] = s
      BY <1>0, <2>1, <2>3 DEF Tables
    <3>2. ASSUME NEW q \in Requests, pc'[q] = "confirm", job'[q].user = u
          PROVE  u \in crossed'
      <4>1. job[q].user = u /\ (pc[q] = "confirm" \/ (totp' = totp /\ totp[u] # None /\ totp[u].secret \in checked'))
        BY <3>2, ConfirmStep
      <4>2. pc[q] = "confirm"
        <5>1. q # r
          BY <1>4, <3>2, Place, UpsertSecretDoes
        <5>2. PICK l, j : Goes(r, l, j)
          BY <1>4, UpsertSecretDoes
        <5> QED
          BY <3>2, <5>1, <5>2 DEF Goes, Move
      <4>3. About("confirm", job[r].user)
        BY <2>3, <4>1, <4>2 DEF About
      <4> QED
        BY <1>4, <2>3, <4>3, UpsertSecretDoes
    <3> QED
      BY <2>0, <3>1, <3>2
  <2> QED
    BY <2>2, <2>3
<1>5. ASSUME NEW r \in Requests, ConfirmSecret(r), NEW u \in Users
      PROVE  Fine(u)
  <2>0. pc[r] = "confirm" /\ job[r].user \in Users
    BY <1>5, ConfirmSecretDoes
  <2>1. CASE totp' = totp
    BY <1>3, <2>1
  <2>2. CASE totp' # totp
    <3> DEFINE s == [totp[job[r].user] EXCEPT !.confirmed = TRUE]
    <3>1. totp[job[r].user] # None /\ totp' = [totp EXCEPT ![job[r].user] = s]
      BY <1>5, <2>2, ConfirmSecretDoes
    <3>2. totp[job[r].user] \in Secret
      BY <1>0, <2>0, <3>1 DEF Tables
    <3>3. s.secret = totp[job[r].user].secret
      BY <3>2, SecretTypes
    <3> HIDE DEF s
    <3>4. CASE u # job[r].user
      BY <1>0, <1>3, <2>0, <3>1, <3>4 DEF Tables
    <3>5. CASE u = job[r].user
      <4>1. u \in crossed \/ totp[u].secret \in checked
        BY <2>0, <3>1, <3>5 DEF ConfirmInv
      <4>2. totp'[u] = s
        BY <1>0, <2>0, <3>1, <3>5 DEF Tables
      <4> QED
        BY <1>0, <3>3, <3>5, <4>1, <4>2
    <3> QED
      BY <3>4, <3>5
  <2> QED
    BY <2>1, <2>2
<1>6. ASSUME NEW r \in Requests, RemoveSecret(r), NEW u \in Users
      PROVE  Fine(u)
  <2>1. totp' = [totp EXCEPT ![job[r].user] = None] /\ job[r].user \in Users
    BY <1>6, RemoveSecretDoes
  <2>2. totp'[u] = totp[u] \/ totp'[u] = None
    BY <1>0, <2>1 DEF Tables
  <2> QED
    BY <1>3, <2>2
<1>7. \A u \in Users : Fine(u)
  BY <1>3, <1>4, <1>5, <1>6, SecretsStep
<1>8. \A q \in Requests : pc'[q] = "confirm" => job'[q].user \in Users
  BY ConfirmStep
<1> QED
  BY <1>7, <1>8 DEF ConfirmInv, ConfirmedSecretChecked

LEMMA InitConfirmInv == Init => ConfirmInv
BY DEF Init, ConfirmInv, ConfirmedSecretChecked

\* A confirmed secret is one whose code the account has presented, where a
\* setup and a confirmation of the account did not overlap: a setup that is
\* begun again between the check and the update would confirm the new secret.
THEOREM ConfirmedSecretsWereChecked == Spec => []ConfirmedSecretChecked
<1>1. Init => TInv /\ ConfirmInv
  BY InitTInv, InitConfirmInv
<1>2. TInv /\ ConfirmInv /\ [Next]_vars => (TInv /\ ConfirmInv)'
  BY NextTInv, NextConfirmInv
<1>3. ConfirmInv => ConfirmedSecretChecked
  BY DEF ConfirmInv
<1> QED
  BY <1>1, <1>2, <1>3, PTL DEF Spec
-----------------------------------------------------------------------------
(* Accepted counters grow.                                                  *)

\* The counters change by a registration, an assertion or a removal; which
\* credentials had assertions that overlapped is not forgotten.
LEMMA CountersStep ==
    ASSUME TInv, [Next]_vars
    PROVE  /\ contended \subseteq contended'
           /\ \/ creds' = creds /\ peaks' = peaks
              \/ \E r \in Requests : InsertCredential(r) \/ UpdatePasskey(r) \/ DeleteCredential(r)
<1>1. CASE UNCHANGED vars \/ Tick \/ \E u \in Users : EndSession(u)
  BY <1>1 DEF vars, rows, history, Tick, EndSession
<1>2. ASSUME NEW r \in Requests, NewCall(r)
      PROVE  creds' = creds /\ peaks' = peaks /\ contended' = contended
  BY <1>2, NewCallDoes DEF rows, history
<1>3. ASSUME NEW r \in Requests, CallFails(r) \/ DeletionFails(r) \/ ResolveUser(r) \/ FindSecret(r) \/ FindChallenge(r)
      PROVE  creds' = creds /\ peaks' = peaks /\ contended' = contended
  BY <1>3 DEF CallFails, DeletionFails, ResolveUser, FindSecret, FindChallenge, rows, history
<1>4. ASSUME NEW r \in Requests, \/ UpsertSecret(r) \/ ConfirmSecret(r) \/ RemoveSecret(r) \/ CreateChallenge(r)
                                 \/ DeleteChallenge(r)
      PROVE  creds' = creds /\ peaks' = peaks /\ contended' = contended
  BY <1>4 DEF UpsertSecret, ConfirmSecret, RemoveSecret, CreateChallenge, DeleteChallenge, history
<1>5. ASSUME NEW r \in Requests, Verify(r)
      PROVE  creds' = creds /\ peaks' = peaks /\ contended \subseteq contended'
  BY <1>5 DEF Verify, rows
<1>6. ASSUME NEW r \in Requests, InsertCredential(r) \/ UpdatePasskey(r) \/ DeleteCredential(r)
      PROVE  contended' = contended
  BY <1>6 DEF InsertCredential, UpdatePasskey, DeleteCredential, history
<1> QED
  BY <1>1, <1>2, <1>3, <1>4, <1>5, <1>6 DEF Next, Step

\* A login that was verified keeps its answer.
LEMMA SameAnswer ==
    ASSUME TInv, [Next]_vars, NEW q \in Requests, pc'[q] = "update"
    PROVE  LET a == answers[job[q].arg] IN
           /\ job'[q] = job[q] /\ answers'[job[q].arg] = a /\ (pc[q] = "update" \/ Verify(q))
           /\ a.cred \in Names /\ a.count \in Int /\ a.count >= 0
<1>1. job'[q] = job[q] /\ pc[q] # "new" /\ (pc[q] = "update" \/ Verify(q))
  BY AssertStep
<1>2. job[q].kind = "assert" /\ job[q].arg \in Names
  BY <1>1, UnderWay, VerifyDoes DEF PlaceOK, ArgsOK, Naming
<1>3. answers[job[q].arg] # None
  BY <1>1, <1>2, UnderWay DEF TInv, AnswersInv
<1>4. AnswersGrow
  BY LocalsStep, NextCalls
<1> QED
  BY <1>1, <1>2, <1>3, <1>4, AnswerType DEF AnswersGrow

LEMMA NextCounterInv == TInv /\ CounterInv /\ [Next]_vars => CounterInv'
<1> SUFFICES ASSUME TInv, CounterInv, [Next]_vars
             PROVE  CounterInv'
  OBVIOUS
<1> DEFINE a(q) == answers[job[q].arg]
<1>0. Tables /\ contended \subseteq contended'
  BY TablesNow, CountersStep
<1>t. \A c \in Names : peaks[c] \in Int /\ (creds[c] # None => creds[c] \in Credential /\ creds[c].count \in Int)
  <2>1. \A c \in Names : peaks[c] \in 0..MaxCount /\ (creds[c] # None => creds[c] \in Credential)
    BY <1>0 DEF Tables
  <2>2. \A row \in Credential : row.count \in 0..MaxCount
    BY DEF Credential
  <2> QED
    BY <2>1, <2>2, FactorsAssumption
<1>1. \A q \in Requests : pc[q] = "update" => a(q).cred \in contended \/ Beats(a(q).count, peaks[a(q).cred])
  BY DEF CounterInv
<1>2. \A q, p \in Requests : pc[q] = "update" /\ pc[p] = "update" /\ a(p).cred = a(q).cred
                             => p = q \/ a(q).cred \in contended
  BY DEF CounterInv
<1>3. \A q \in Requests : pc'[q] = "update" => /\ job'[q] = job[q] /\ answers'[job[q].arg] = a(q)
                                               /\ pc[q] = "update" \/ Verify(q)
                                               /\ a(q).cred \in Names /\ a(q).count \in Int /\ a(q).count >= 0
  BY SameAnswer
<1> HIDE DEF a
\* the rows
<1>4. ASSUME NEW c \in Names
      PROVE  /\ creds'[c] = None => peaks'[c] = 0
             /\ creds'[c] # None => c \in contended' \/ creds'[c].count = peaks'[c]
  <2>0. CASE creds'[c] = creds[c] /\ peaks'[c] = peaks[c]
    BY <1>0, <2>0 DEF CounterInv
  <2>1. ASSUME NEW r \in Requests, InsertCredential(r), creds' # creds
        PROVE  /\ creds'[c] = None => peaks'[c] = 0
               /\ creds'[c] # None => c \in contended' \/ creds'[c].count = peaks'[c]
    <3>1. PICK row \in Credential : /\ row.count = 0 /\ creds' = [creds EXCEPT ![job[r].arg] = row]
                                    /\ creds[job[r].arg] = None
      BY <2>1, InsertCredentialDoes
    <3>2. peaks' = peaks /\ row # None
      BY <2>1, InsertCredentialDoes, NoneIsNoRecord DEF history
    <3>3. CASE c # job[r].arg
      BY <1>0, <2>0, <3>1, <3>2, <3>3 DEF Tables
    <3>4. CASE c = job[r].arg
      <4>1. creds'[c] = row
        BY <1>0, <3>1, <3>4 DEF Tables
      <4>2. peaks[c] = 0
        BY <3>1, <3>4 DEF CounterInv
      <4> QED
        BY <3>1, <3>2, <4>1, <4>2
    <3> QED
      BY <3>3, <3>4
  <2>2. ASSUME NEW r \in Requests, UpdatePasskey(r), creds' # creds \/ peaks' # peaks
        PROVE  /\ creds'[c] = None => peaks'[c] = 0
               /\ creds'[c] # None => c \in contended' \/ creds'[c].count = peaks'[c]
    <3>1. /\ pc[r] = "update" /\ job[r].kind = "assert" /\ creds[a(r).cred] # None
          /\ creds' = [creds EXCEPT ![a(r).cred] = Counted(creds[a(r).cred], a(r).count)]
          /\ peaks' = [peaks EXCEPT ![a(r).cred] = IF a(r).count > @ THEN a(r).count ELSE @]
      BY <2>2, UpdatePasskeyDoes DEF a
    <3>2. a(r).cred \in Names /\ a(r).count \in 0..MaxCount
      BY <3>1, AnswerType DEF a
    <3>3. a(r).count \in 0..MaxCount
      BY <3>2, FactorsAssumption
    <3>4. /\ Counted(creds[a(r).cred], a(r).count) \in Credential
          /\ Counted(creds[a(r).cred], a(r).count).count = a(r).count
      BY <1>t, <3>1, <3>2, <3>3, CountedType
    <3>5. Counted(creds[a(r).cred], a(r).count) # None
      BY <3>4, NoneIsNoRecord
    <3>6. CASE c # a(r).cred
      BY <1>0, <2>0, <3>1, <3>6 DEF Tables
    <3>7. CASE c = a(r).cred
      <4>1. creds'[c] = Counted(creds[a(r).cred], a(r).count)
        BY <1>0, <3>1, <3>7 DEF Tables
      <4>2. c \in contended \/ peaks'[c] = a(r).count
        BY <1>0, <1>1, <3>1, <3>7 DEF Tables, Beats
      <4> QED
        BY <1>0, <3>4, <3>5, <4>1, <4>2
    <3> QED
      BY <3>6, <3>7
  <2>3. ASSUME NEW r \in Requests, DeleteCredential(r)
        PROVE  /\ creds'[c] = None => peaks'[c] = 0
               /\ creds'[c] # None => c \in contended' \/ creds'[c].count = peaks'[c]
    <3>1. \/ creds' = creds /\ peaks' = peaks
          \/ creds' = [creds EXCEPT ![job[r].arg] = None] /\ peaks' = [peaks EXCEPT ![job[r].arg] = 0]
      BY <2>3, DeleteCredentialDoes
    <3>2. (creds'[c] = creds[c] /\ peaks'[c] = peaks[c]) \/ (creds'[c] = None /\ peaks'[c] = 0)
      BY <1>0, <3>1 DEF Tables
    <3> QED
      BY <2>0, <3>2
  <2>4. ASSUME NEW r \in Requests, InsertCredential(r)
        PROVE  peaks' = peaks
    BY <2>4, InsertCredentialDoes DEF history
  <2> QED
    BY <2>0, <2>1, <2>2, <2>3, <2>4, CountersStep
\* the logins that were verified
<1>5. ASSUME NEW q \in Requests, pc'[q] = "update"
      PROVE  a(q).cred \in contended' \/ Beats(a(q).count, peaks'[a(q).cred])
  <2>1. CASE Verify(q)
    <3>1. creds[a(q).cred] # None /\ Beats(a(q).count, creds[a(q).cred].count) /\ peaks' = peaks
      BY <1>5, <2>1, VerifyDoes, Place DEF a, CounterValid, Beats
    <3>2. a(q).cred \in contended \/ creds[a(q).cred].count = peaks[a(q).cred]
      BY <1>3, <1>5, <3>1 DEF CounterInv
    <3> QED
      BY <1>0, <3>1, <3>2
  <2>2. CASE pc[q] = "update"
    <3>1. CASE peaks'[a(q).cred] = peaks[a(q).cred]
      BY <1>0, <1>1, <2>2, <3>1
    <3>2. ASSUME NEW r \in Requests, UpdatePasskey(r)
          PROVE  a(q).cred \in contended' \/ Beats(a(q).count, peaks'[a(q).cred])
      <4>0. r # q /\ pc[r] = "update" /\ job[r].kind = "assert"
        BY <1>5, <3>2, UpdatePasskeyDoes, Place
      <4>1. a(r).cred \in Names
        BY <4>0, AnswerType DEF a
      <4>2. CASE a(r).cred = a(q).cred
        BY <1>0, <1>2, <2>2, <4>0, <4>2
      <4>3. CASE a(r).cred # a(q).cred
        <5>1. peaks' = peaks \/ peaks' = [peaks EXCEPT ![a(r).cred] = IF a(r).count > @ THEN a(r).count ELSE @]
          BY <3>2, UpdatePasskeyDoes DEF a
        <5>2. peaks'[a(q).cred] = peaks[a(q).cred]
          BY <1>0, <1>3, <1>5, <4>3, <5>1 DEF Tables
        <5> QED
          BY <3>1, <5>2
      <4> QED
        BY <4>2, <4>3
    <3>3. ASSUME NEW r \in Requests, DeleteCredential(r)
          PROVE  a(q).cred \in contended' \/ Beats(a(q).count, peaks'[a(q).cred])
      <4>1. peaks' = peaks \/ peaks' = [peaks EXCEPT ![job[r].arg] = 0]
        BY <3>3, DeleteCredentialDoes
      <4>2. peaks'[a(q).cred] = peaks[a(q).cred] \/ peaks'[a(q).cred] = 0
        BY <1>0, <1>3, <1>5, <4>1 DEF Tables
      <4> QED
        BY <1>3, <1>5, <3>1, <4>2 DEF Beats
    <3>4. ASSUME NEW r \in Requests, InsertCredential(r)
          PROVE  peaks' = peaks
      BY <3>4, InsertCredentialDoes DEF history
    <3> QED
      BY <3>1, <3>2, <3>3, <3>4, CountersStep
  <2> QED
    BY <1>3, <1>5, <2>1, <2>2
\* two of them
<1>6. ASSUME NEW q \in Requests, NEW p \in Requests, pc'[q] = "update", pc'[p] = "update", a(p).cred = a(q).cred
      PROVE  p = q \/ a(q).cred \in contended'
  <2>1. ASSUME NEW v \in Requests, NEW w \in Requests, Verify(v), pc'[v] = "update", pc[w] = "update", a(w).cred = a(v).cred
        PROVE  a(v).cred \in contended'
    BY <2>1, VerifyDoes, Place DEF a
  <2>2. CASE Verify(q) /\ Verify(p)
    <3>1. pc[p] = "credential" /\ pc[q] = "credential"
      BY <2>2 DEF Verify
    <3>2. Goes(q, "update", job[q])
      BY <1>6, <2>2, VerifyDoes, Place
    <3> QED
      BY <1>6, <3>1, <3>2 DEF Goes, Move
  <2> QED
    BY <1>0, <1>2, <1>3, <1>6, <2>1, <2>2
<1>7. ASSUME NEW q \in Requests, pc'[q] = "update"
      PROVE  answers'[job'[q].arg] = a(q)
  BY <1>3, <1>7
<1> QED
  BY <1>4, <1>5, <1>6, <1>7 DEF CounterInv

LEMMA InitCounterInv == Init => CounterInv
<1> SUFFICES ASSUME Init
             PROVE  CounterInv
  OBVIOUS
<1>1. PICK u \in Users : creds = [x \in Names |-> IF x \in Passkeys THEN [user |-> u, count |-> 0] ELSE None]
  BY DEF Init
<1>2. \A c \in Names : creds[c] # None => creds[c].count = 0
  BY <1>1
<1> QED
  BY <1>2 DEF Init, CounterInv

\* A login is accepted when its counter is stored, or at once when there is
\* nothing to store.
LEMMA AcceptedBeats ==
    ASSUME TInv, CounterInv, [Next]_vars, NEW r \in Requests, pc[r] \in {"credential", "update"}, pc'[r] = "ok"
    PROVE  LET a == answers[job[r].arg] IN a.cred \in contended \/ Beats(a.count, peaks[a.cred])
<1> DEFINE a == answers[job[r].arg]
<1>1. CASE pc[r] = "update"
  BY <1>1 DEF CounterInv
<1>2. CASE pc[r] = "credential"
  <2>1. ~NewCall(r) /\ ~CallFails(r)
    BY <1>2, Place, CallFailsDoes DEF NewCall
  <2>2. Step(r)
    BY <1>2, <2>1, OwnStep
  <2>3. Verify(r)
    BY <1>2, <2>2 DEF Step, ResolveUser, FindSecret, UpsertSecret, ConfirmSecret, RemoveSecret, CreateChallenge,
                      FindChallenge, DeleteChallenge, DeletionFails, InsertCredential, UpdatePasskey, DeleteCredential
  <2>4. creds[a.cred] # None /\ CounterValid(a, creds[a.cred]) /\ job[r].kind = "assert"
    BY <2>3, Place, VerifyDoes
  <2>5. a.cred \in Names
    BY <1>2, <2>4, AnswerType
  <2>6. a.cred \in contended \/ creds[a.cred].count = peaks[a.cred]
    BY <2>4, <2>5 DEF CounterInv
  <2> QED
    BY <2>4, <2>6 DEF CounterValid, Beats
<1> QED
  BY <1>1, <1>2

\* The counter of an accepted assertion exceeds all that were accepted since
\* the registration of the credential, where assertions of the credential did
\* not overlap: a copy that signs with an old counter gives itself away.  Zeros
\* are accepted of a credential that has never counted only.
THEOREM CountersGrow == Spec => AcceptedCountersGrow
<1>1. Init => TInv /\ CounterInv
  BY InitTInv, InitCounterInv
<1>2. TInv /\ CounterInv /\ [Next]_vars => (TInv /\ CounterInv)'
  BY NextTInv, NextCounterInv
<1>3. TInv /\ CounterInv /\ [Next]_vars
      => [\A r \in Requests : pc[r] \in {"credential", "update"} /\ pc'[r] = "ok" =>
             LET a == answers[job[r].arg] IN
             a.cred \in contended \/ a.count > peaks[a.cred] \/ (a.count = 0 /\ peaks[a.cred] = 0)]_vars
  BY AcceptedBeats DEF Beats
<1> QED
  BY <1>1, <1>2, <1>3, PTL DEF Spec, AcceptedCountersGrow
=============================================================================
