---------------------------- MODULE SecondFactors ----------------------------
(***************************************************************************)
(* How an account gets and loses its second factors: the TOTP secret       *)
(* (setup, confirmation, removal) and passkeys (registration, removal),    *)
(* and the challenge that a passkey login answers.                         *)
(*                                                                         *)
(* A member of Requests is one call of a handler of the web front end and  *)
(* of the API behind it; it also names the secret, the challenge or the    *)
(* credential the call creates.  An action is one SQL statement.           *)
(***************************************************************************)
EXTENDS Integers, FiniteSets

CONSTANTS
    Users,
    Passkeys,      \* credentials that are registered at the start
    Pending,       \* login challenges that are open at the start
    Requests,      \* the handler calls that may happen (bound)
    Workloads,     \* sets of kinds of calls; a behaviour has calls of one (bound)
    ChallengeTtl,  \* CHALLENGE_TTL
    MaxCount,      \* signature counters up to this (bound)
    MaxNow,        \* the clock stops here (bound)
    Faults,        \* TRUE: a statement may fail, a handler may be dropped
    None

AllKinds == {"setup", "confirm", "remove", "enrol", "register", "unregister", "ask", "assert"}

ASSUME FactorsAssumption ==
    /\ \A K \in Workloads : K \subseteq AllKinds
    /\ ChallengeTtl \in Nat /\ MaxCount \in Nat /\ MaxNow \in Nat /\ Faults \in BOOLEAN
    /\ None \notin Requests \cup Users \cup Passkeys \cup Pending \cup Int
    /\ Requests \cap (Passkeys \cup Pending) = {}

VARIABLES
    now,
    load,        \* the workload
    sessions,    \* the accounts that have an SSO session
    totp,        \* user_totp_secrets
    challenges,  \* passkey_challenges
    creds,       \* user_webauthn_credentials
    pc, job,     \* where each call stands, and its locals
    answers,     \* what the browser answered to a login challenge
    checked,     \* history: secrets whose code a confirmation has verified
    crossed,     \* history: accounts with a setup and a confirmation that overlapped
    accepted,    \* history: the logins a challenge was accepted for
    contended,   \* history: credentials whose assertions overlapped
    peaks        \* history: the highest counter accepted of each credential since its registration

Names == Requests \cup Passkeys \cup Pending
rows == <<sessions, totp, challenges, creds>>
history == <<checked, crossed, accepted, contended, peaks>>
vars == <<now, load, rows, pc, job, answers, history>>
-----------------------------------------------------------------------------
Secret == [secret : Requests, confirmed : BOOLEAN]
Challenge == [user : Users \cup {None}, expires : Int]
Credential == [user : Users, count : 0..MaxCount]
Answer == [cred : Names, count : 0..MaxCount]
Job == [kind : AllKinds, user : Users \cup {None}, arg : Names \cup {None}, at : Int, done : BOOLEAN]

\* None stands for NULL, which is no row.
ASSUME NoneIsNoRecord == None \notin Secret \cup Challenge \cup Credential \cup Answer \cup Job

Pcs == {"new", "session", "find", "upsert", "confirm", "remove", "create", "challenge", "drop",
        "insert", "unregister", "credential", "update", "ok", "failed"}

TypeOK ==
    /\ now \in 0..MaxNow /\ load \in Workloads
    /\ sessions \subseteq Users
    /\ totp \in [Users -> Secret \cup {None}]
    /\ challenges \in [Names -> Challenge \cup {None}]
    /\ creds \in [Names -> Credential \cup {None}]
    /\ pc \in [Requests -> Pcs]
    /\ job \in [Requests -> Job \cup {None}]
    /\ answers \in [Names -> Answer \cup {None}]
    /\ checked \subseteq Requests /\ crossed \subseteq Users
    /\ accepted \in [Names -> SUBSET Requests]
    /\ contended \subseteq Names /\ peaks \in [Names -> 0..MaxCount]

Init ==
    /\ now = 0 /\ load \in Workloads
    /\ sessions = Users
    /\ totp = [u \in Users |-> None]
    /\ challenges = [x \in Names |-> IF x \in Pending THEN [user |-> None, expires |-> ChallengeTtl] ELSE None]
    /\ \E u \in Users :
          creds = [x \in Names |-> IF x \in Passkeys THEN [user |-> u, count |-> 0] ELSE None]
    /\ pc = [r \in Requests |-> "new"]
    /\ job = [r \in Requests |-> None]
    /\ answers = [x \in Names |-> None]
    /\ checked = {} /\ crossed = {} /\ contended = {}
    /\ accepted = [x \in Names |-> {}] /\ peaks = [x \in Names |-> 0]

Goto(r, l) == pc' = [pc EXCEPT ![r] = l]
Become(r, l, j) == Goto(r, l) /\ job' = [job EXCEPT ![r] = j]

\* A call begins: of account u, about x (a secret, a challenge, a credential).
Begin(r, k, u, x, l) ==
    /\ pc[r] = "new" /\ k \in load
    /\ Become(r, l, [kind |-> k, user |-> u, arg |-> x, at |-> now, done |-> FALSE])
    /\ UNCHANGED <<now, load, rows, history>>

Tick == now < MaxNow /\ now' = now + 1 /\ UNCHANGED <<load, rows, pc, job, answers, history>>

\* The session ends, by logout or expiry.
EndSession(u) ==
    /\ u \in sessions /\ sessions' = sessions \ {u}
    /\ UNCHANGED <<now, load, totp, challenges, creds, pc, job, answers, history>>

\* What the handlers of the API do once they know the account.
TotpStep(k) == IF k = "remove" THEN "remove" ELSE "find"

PasskeyStep(k) == CASE k = "enrol" -> "create" [] k = "register" -> "challenge" [] k = "unregister" -> "unregister"

\* resolve_user
ResolveUser(r) ==
    /\ pc[r] = "session"
    /\ IF job[r].user \in sessions
       THEN LET k == job[r].kind IN
            Become(r, IF k \in {"setup", "confirm", "remove"} THEN TotpStep(k) ELSE PasskeyStep(k),
                   [job[r] EXCEPT !.at = now])
       ELSE Become(r, "failed", job[r])
    /\ UNCHANGED <<now, load, rows, answers, history>>
-----------------------------------------------------------------------------
(* TOTP.                                                                    *)

\* The page of the setup calls the API each time it is shown.
SetupPage(r, u) == Begin(r, "setup", u, None, "session") /\ UNCHANGED answers

\* The form: a code of a secret that was shown to the account, or a wrong one.
\* (`done`: the call has shown a secret, or has found a challenge that will do.)
Shown(u) == {q \in Requests : /\ pc[q] \in {"ok", "failed"} /\ job[q].kind \in {"setup", "confirm"}
                              /\ job[q].user = u /\ job[q].done}
ConfirmForm(r, u) ==
    /\ \E x \in Shown(u) \cup {None} : Begin(r, "confirm", u, x, "session")
    /\ UNCHANGED answers

RemoveForm(r, u) == Begin(r, "remove", u, None, "session") /\ UNCHANGED answers

\* setup: there is no secret, or one that was not confirmed.
MayReplace(row) == row = None \/ ~row.confirmed

\* Mutant of Matches: the code is not verified.
MatchesAny(row, code) == TRUE

\* verify_totp_code
Matches(row, code) == row.secret = code

\* find_by_user_id, in setup and in confirm.  A wrong code makes the page call
\* the setup once more.
FindSecret(r) ==
    LET j == job[r]
        row == totp[j.user]
    IN
    /\ pc[r] = "find"
    /\ \/ /\ j.kind = "setup" \/ j.arg = r
          /\ Goto(r, IF MayReplace(row) THEN "upsert" ELSE "failed") /\ UNCHANGED <<job, checked>>
       \/ /\ j.kind = "confirm" /\ j.arg # r
          /\ IF row = None \/ row.confirmed THEN Goto(r, "failed") /\ UNCHANGED <<job, checked>>
             ELSE IF Matches(row, j.arg)
             THEN Goto(r, "confirm") /\ checked' = checked \cup ({j.arg} \ {None}) /\ UNCHANGED job
             ELSE Become(r, "session", [j EXCEPT !.arg = r]) /\ UNCHANGED checked
    /\ UNCHANGED <<now, load, rows, answers, crossed, accepted, contended, peaks>>

\* Another call of the account is about to take step l.
About(l, u) == \E q \in Requests : pc[q] = l /\ job[q].user = u

\* INSERT ... ON DUPLICATE KEY UPDATE, with confirmed_at NULL in either case.
UpsertSecret(r) ==
    LET j == job[r] IN
    /\ pc[r] = "upsert"
    /\ totp' = [totp EXCEPT ![j.user] = [secret |-> r, confirmed |-> FALSE]]
    /\ Become(r, IF j.kind = "setup" THEN "ok" ELSE "failed", [j EXCEPT !.done = TRUE])
    /\ crossed' = IF About("confirm", j.user) THEN crossed \cup {j.user} ELSE crossed
    /\ UNCHANGED <<now, load, sessions, challenges, creds, answers, checked, accepted, contended, peaks>>

\* UPDATE ... WHERE user_id = ? AND confirmed_at IS NULL: whatever secret is there.
ConfirmSecret(r) ==
    LET u == job[r].user IN
    /\ pc[r] = "confirm"
    /\ totp' = IF totp[u] = None THEN totp ELSE [totp EXCEPT ![u].confirmed = TRUE]
    /\ Goto(r, "ok")
    /\ crossed' = IF About("upsert", u) THEN crossed \cup {u} ELSE crossed
    /\ UNCHANGED <<now, load, sessions, challenges, creds, job, answers, checked, accepted, contended, peaks>>

RemoveSecret(r) ==
    /\ pc[r] = "remove"
    /\ totp' = [totp EXCEPT ![job[r].user] = None]
    /\ Goto(r, "ok")
    /\ UNCHANGED <<now, load, sessions, challenges, creds, job, answers, history>>
-----------------------------------------------------------------------------
(* Passkeys: begin hands out a challenge, complete brings an answer to it.   *)

RegisterBegin(r, u) == Begin(r, "enrol", u, None, "session") /\ UNCHANGED answers
LoginBegin(r) == Begin(r, "ask", None, None, "create") /\ UNCHANGED answers

\* The challenges that were handed out.
Handed == Pending \cup {q \in Requests : pc[q] = "ok" /\ job[q].kind \in {"enrol", "ask"}}

Registered == {x \in Names : creds[x] # None}

\* Account u answers a challenge with a new credential, which it may send twice.
RegisterComplete(r, u) ==
    /\ \E x \in Handed : Begin(r, "register", u, x, "session")
    /\ UNCHANGED answers

\* A credential, or a copy of it, answers a challenge; the answer may be sent
\* twice, and there is no second answer to a challenge.
LoginComplete(r) ==
    \E x \in Handed :
        /\ Begin(r, "assert", None, x, "challenge")
        /\ \/ answers[x] # None /\ UNCHANGED answers
           \/ /\ answers[x] = None
              /\ \E c \in Registered, n \in 0..MaxCount : answers' = [answers EXCEPT ![x] = [cred |-> c, count |-> n]]

DeleteForm(r, u) ==
    /\ \E c \in Registered : Begin(r, "unregister", u, c, "session")
    /\ UNCHANGED answers

\* A challenge of a registration names the account, one of a login does not.
NewChallenge(j) == [user |-> j.user, expires |-> j.at + ChallengeTtl]

CreateChallenge(r) ==
    /\ pc[r] = "create"
    /\ challenges' = [challenges EXCEPT ![r] = NewChallenge(job[r])]
    /\ Goto(r, "ok")
    /\ UNCHANGED <<now, load, sessions, totp, creds, job, answers, history>>

\* Mutant of Answerable: a challenge of somebody else will do.
AnswerableByAnybody(j, row) == row.expires > j.at

\* The challenge has not expired, and is the account's own, or that of a login:
\* the state stored for a registration cannot be read as that of a login.
Answerable(j, row) == row.expires > j.at /\ row.user = j.user

\* find_by_id.  Whether it will do or not, the challenge is deleted next.
FindChallenge(r) ==
    LET j == job[r]
        row == challenges[j.arg]
    IN
    /\ pc[r] = "challenge"
    /\ IF row = None THEN Goto(r, "failed") /\ UNCHANGED job
       ELSE Become(r, "drop", [j EXCEPT !.done = Answerable(j, row)])
    /\ UNCHANGED <<now, load, rows, answers, history>>

\* Mutant of Dropped: the challenge of a login stays until it expires.
DroppedLater(x) == IF challenges[x] # None /\ challenges[x].user = None THEN challenges ELSE [challenges EXCEPT ![x] = None]

\* DELETE ... WHERE id = ?
Dropped(x) == [challenges EXCEPT ![x] = None]

DeleteChallenge(r) ==
    LET j == job[r] IN
    /\ pc[r] = "drop"
    /\ challenges' = Dropped(j.arg)
    /\ Goto(r, IF ~j.done THEN "failed" ELSE IF j.kind = "assert" THEN "credential" ELSE "insert")
    /\ UNCHANGED <<now, load, sessions, totp, creds, job, answers, history>>

\* A registration takes no notice of a deletion that fails.
DeletionFails(r) ==
    /\ Faults /\ pc[r] = "drop" /\ job[r].kind = "register" /\ job[r].done
    /\ Goto(r, "insert")
    /\ UNCHANGED <<now, load, rows, job, answers, history>>

\* The credential is named by its challenge: a second INSERT meets the unique key.
InsertCredential(r) ==
    LET x == job[r].arg IN
    /\ pc[r] = "insert"
    /\ IF creds[x] = None
       THEN creds' = [creds EXCEPT ![x] = [user |-> job[r].user, count |-> 0]] /\ Goto(r, "ok")
       ELSE Goto(r, "failed") /\ UNCHANGED creds
    /\ UNCHANGED <<now, load, sessions, totp, challenges, job, answers, history>>

\* finish_authentication.  An authenticator that does not count sends zero.
CounterValid(a, row) == a.count > row.count \/ (a.count = 0 /\ row.count = 0)

\* update_credential: the counter has changed.
NeedsUpdate(a, row) == a.count # row.count

\* find_by_credential_id, then the check of the signature and of its counter.
\* (The flags of the authenticator's backup may have changed as well.)
Verify(r) ==
    LET x == job[r].arg
        a == answers[x]
        row == creds[a.cred]
    IN
    /\ pc[r] = "credential"
    /\ IF row # None /\ CounterValid(a, row)
       THEN \/ /\ Goto(r, "update") /\ UNCHANGED accepted
               /\ contended' = IF \E q \in Requests : pc[q] = "update" /\ answers[job[q].arg].cred = a.cred
                               THEN contended \cup {a.cred} ELSE contended
            \/ /\ ~NeedsUpdate(a, row) /\ Goto(r, "ok") /\ UNCHANGED contended
               /\ accepted' = [accepted EXCEPT ![x] = @ \cup {r}]
       ELSE Goto(r, "failed") /\ UNCHANGED <<accepted, contended>>
    /\ UNCHANGED <<now, load, rows, job, answers, checked, crossed, peaks>>

\* Mutant of Counted: the new counter is not stored.
CountedNot(row, n) == row

\* What update_credential makes of the row.
Counted(row, n) == [row EXCEPT !.count = n]

\* The counter is written from the row that was read.  The account and its
\* membership are checked next (see AuthFlow).
UpdatePasskey(r) ==
    LET x == job[r].arg
        a == answers[x]
        c == a.cred
    IN
    /\ pc[r] = "update"
    /\ creds' = IF creds[c] = None THEN creds ELSE [creds EXCEPT ![c] = Counted(@, a.count)]
    /\ peaks' = [peaks EXCEPT ![c] = IF creds[c] # None /\ a.count > @ THEN a.count ELSE @]
    /\ accepted' = [accepted EXCEPT ![x] = @ \cup {r}]
    /\ Goto(r, "ok")
    /\ UNCHANGED <<now, load, sessions, totp, challenges, job, answers, checked, crossed, contended>>

\* DELETE ... WHERE id = ? AND user_id = ?
DeleteCredential(r) ==
    LET c == job[r].arg IN
    /\ pc[r] = "unregister"
    /\ IF creds[c] # None /\ creds[c].user = job[r].user
       THEN creds' = [creds EXCEPT ![c] = None] /\ peaks' = [peaks EXCEPT ![c] = 0]
       ELSE UNCHANGED <<creds, peaks>>
    /\ Goto(r, "ok")
    /\ UNCHANGED <<now, load, sessions, totp, challenges, job, answers, checked, crossed, accepted, contended>>
-----------------------------------------------------------------------------
\* A statement fails, the handler is dropped, or what the authenticator sent does
\* not verify.  (Before a registration deletes its challenge, that leaves the
\* challenge in place.)
CallFails(r) ==
    /\ Faults /\ pc[r] \notin {"new", "ok", "failed"}
    /\ Goto(r, "failed")
    /\ UNCHANGED <<now, load, rows, job, answers, history>>

Step(r) ==
    \/ ResolveUser(r) \/ FindSecret(r) \/ UpsertSecret(r) \/ ConfirmSecret(r) \/ RemoveSecret(r)
    \/ CreateChallenge(r) \/ FindChallenge(r) \/ DeleteChallenge(r) \/ DeletionFails(r) \/ InsertCredential(r)
    \/ Verify(r) \/ UpdatePasskey(r) \/ DeleteCredential(r)

NewCall(r) ==
    /\ pc[r] = "new"
    /\ \/ LoginBegin(r) \/ LoginComplete(r)
       \/ \E u \in Users :
             \/ SetupPage(r, u) \/ ConfirmForm(r, u) \/ RemoveForm(r, u)
             \/ RegisterBegin(r, u) \/ RegisterComplete(r, u) \/ DeleteForm(r, u)

Next ==
    \/ Tick \/ \E u \in Users : EndSession(u)
    \/ \E r \in Requests : NewCall(r) \/ Step(r) \/ CallFails(r)

Spec == Init /\ [][Next]_vars
-----------------------------------------------------------------------------
(* What the code guarantees.                                                *)

\* Where a setup and a confirmation of one account do not overlap, a secret
\* that logins ask for is one whose code the account has presented: nobody is
\* locked out by a secret no authenticator has.
ConfirmedSecretChecked ==
    \A u \in Users \ crossed : totp[u] # None /\ totp[u].confirmed => totp[u].secret \in checked

\* A login challenge is accepted once: of the calls it was accepted for, all
\* had found it before the first of them deleted it.
ChallengeNotReplayed ==
    [][\A r \in Requests : pc[r] = "challenge" /\ pc'[r] = "drop" => accepted[job[r].arg] = {}]_vars

\* A passkey belongs to the account whose session began its registration.
PasskeyOfRequester ==
    \A x \in Requests : creds[x] # None => job[x].kind = "enrol" /\ creds[x].user = job[x].user

\* A copy of a credential gives itself away: the counter of an accepted
\* assertion exceeds all that were accepted since the registration, where
\* assertions of the credential did not overlap; only a credential that has
\* never counted is accepted with a zero.
AcceptedCountersGrow ==
    [][\A r \in Requests : pc[r] \in {"credential", "update"} /\ pc'[r] = "ok" =>
          LET a == answers[job[r].arg] IN
          a.cred \in contended \/ a.count > peaks[a.cred] \/ (a.count = 0 /\ peaks[a.cred] = 0)]_vars
=============================================================================
