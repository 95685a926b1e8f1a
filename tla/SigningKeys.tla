----------------------------- MODULE SigningKeys -----------------------------
(***************************************************************************)
(* The signing keys: bootstrap at the start of every instance of the       *)
(* server, the rotation task each of them runs, the administrators'        *)
(* operations, and the tokens that are signed and verified meanwhile.      *)
(*                                                                         *)
(* All instances share the table.  A key's kid is its place in the         *)
(* sequence `keys`, in which a deleted row leaves "DELETED".  An action is *)
(* one SQL statement; find_active and the signature, with nothing to await *)
(* between them, are one.                                                  *)
(***************************************************************************)
EXTENDS Integers, Sequences, FiniteSets

CONSTANTS
    Instances,   \* processes of the API server on one database
    Requests,    \* the administrators' calls that may happen (bound)
    Validity,    \* KEY_VALIDITY_DAYS
    Lead,        \* key_rotation_lead_days
    Interval,    \* time between two checks of the rotation task
    TokenTtl,    \* the lifetime of a signed token
    MaxKeys,     \* no more keys are made (bound)
    MaxNow,      \* the clock stops here (bound)
    Faults,      \* TRUE: an instance may crash and a check may fail
    None

ASSUME KeysAssumption ==
    /\ Validity \in Nat /\ Lead \in 0..(Validity - 1) /\ Interval \in Nat \ {0}
    /\ TokenTtl \in Nat /\ MaxKeys \in Nat \ {0} /\ MaxNow \in Nat /\ Faults \in BOOLEAN
    /\ None \notin Instances \cup Nat /\ Instances \cap Requests = {}

VARIABLES
    now,
    keys,       \* signing_keys
    lock,       \* who holds GET_LOCK('idp.signing_key_bootstrap')
    pc, job,    \* where every instance's task and every call stands, and its locals
    token,      \* history: one of the signed tokens that have not expired
    disturbed   \* history: a key was retired by hand, or checks did not happen

vars == <<now, keys, lock, pc, job, token, disturbed>>
Actors == Instances \cup Requests
-----------------------------------------------------------------------------
Key == [status : {"ACTIVE", "RETIRED", "DELETED"}, from : Int, until : Int, boot : BOOLEAN]
Job == [kid : Nat \cup {None}, at : Int, due : Int]
Kids == 1..Len(keys)

\* An actor that has nothing under way keeps no locals.
Idle == [kid |-> None, at |-> 0, due |-> 0]

Booting == {"boot", "lock", "recheck", "first", "release"}
Checking == {"check", "insert", "retire"}
Calling == {"find ACTIVE", "find RETIRED", "generate", "withdraw", "delete"}
Places == {"down", "idle", "new", "ended"} \cup Booting \cup Checking \cup Calling
Serving(i) == pc[i] \in {"idle"} \cup Checking

TypeOK ==
    /\ now \in 0..MaxNow
    /\ keys \in Seq(Key) /\ Len(keys) <= MaxKeys
    /\ lock \in Instances \cup {None}
    /\ pc \in [Actors -> Places]
    /\ job \in [Actors -> Job]
    /\ token # None => token.kid \in Kids /\ token.expires \in Int
    /\ disturbed \in BOOLEAN
    /\ \A i \in Instances : lock = i <=> pc[i] \in {"recheck", "first", "release"}

\* new_key_material
NewKey(at, boot) == [status |-> "ACTIVE", from |-> at, until |-> at + Validity, boot |-> boot]

\* The table is empty, or has the key of an earlier life of the service.
Init ==
    /\ now = 0
    /\ keys \in {<<>>} \cup {<<NewKey(-age, TRUE)>> : age \in 0..Validity}
    /\ lock = None
    /\ pc = [a \in Actors |-> IF a \in Instances THEN "down" ELSE "new"]
    /\ job = [a \in Actors |-> Idle]
    /\ token = None
    /\ disturbed = (\E k \in Kids : keys[k].until <= Lead)

Goto(a, l) == pc' = [pc EXCEPT ![a] = l]

End(a, l) == Goto(a, l) /\ job' = [job EXCEPT ![a] = Idle]

\* find_active: any of the usable keys with the latest not_before.
Usable == {k \in Kids : keys[k].status = "ACTIVE" /\ keys[k].from <= now /\ now < keys[k].until}
FindActive == {k \in Usable : \A q \in Usable : keys[q].from <= keys[k].from}

\* Mutant of Published: a retired key is not published.
PublishedActive == {k \in Kids : keys[k].status = "ACTIVE" /\ keys[k].until > now}

\* list_published, what jwks serves
Published == {k \in Kids : keys[k].status \in {"ACTIVE", "RETIRED"} /\ keys[k].until > now}

Insert(at, boot) == Len(keys) < MaxKeys /\ keys' = Append(keys, NewKey(at, boot))
-----------------------------------------------------------------------------
(* Start of an instance: ensure_active_key.                                 *)

Start(i) == pc[i] = "down" /\ Goto(i, "boot") /\ UNCHANGED <<now, keys, lock, job, token, disturbed>>

\* The server is up; after a minute, which is less than a tick, its task makes
\* the first check.
Up(i) == Goto(i, "idle") /\ job' = [job EXCEPT ![i] = [Idle EXCEPT !.due = now]]

FindAtStart(i) ==
    /\ pc[i] = "boot"
    /\ IF FindActive # {} THEN Up(i)
       ELSE Goto(i, "lock") /\ job' = [job EXCEPT ![i].at = now]
    /\ UNCHANGED <<now, keys, lock, token, disturbed>>

\* GET_LOCK, which gives up after ten seconds, and the start with it.
GetLock(i) ==
    /\ pc[i] = "lock"
    /\ \/ lock = None /\ lock' = i /\ Goto(i, "recheck") /\ UNCHANGED job
       \/ lock # None /\ End(i, "down") /\ UNCHANGED lock
    /\ UNCHANGED <<now, keys, token, disturbed>>

\* Mutant of SomeActive: there is no second look.
SomeActiveUnseen == FALSE

\* The second look asks for the status and not for the validity.
SomeActive == \E k \in Kids : keys[k].status = "ACTIVE"

InsertIfNoActive(i) ==
    /\ \/ pc[i] = "recheck" /\ Goto(i, IF SomeActive THEN "release" ELSE "first") /\ UNCHANGED keys
       \/ pc[i] = "first" /\ Insert(job[i].at, TRUE) /\ Goto(i, "release")
    /\ UNCHANGED <<now, lock, job, token, disturbed>>

ReleaseLock(i) ==
    /\ pc[i] = "release"
    /\ lock' = None /\ Up(i)
    /\ UNCHANGED <<now, keys, token, disturbed>>
-----------------------------------------------------------------------------
(* The task of every instance: rotate_if_needed, then an hour's sleep.      *)

Sleep(i) == Goto(i, "idle") /\ job' = [job EXCEPT ![i] = [Idle EXCEPT !.due = now + Interval]]

\* At the end of the modelled time the checks go on.
Wake(i) ==
    /\ pc[i] = "idle" /\ (job[i].due <= now \/ now = MaxNow)
    /\ Goto(i, "check") /\ job' = [job EXCEPT ![i].at = now]
    /\ UNCHANGED <<now, keys, lock, token, disturbed>>

\* Mutant of EnoughLeft: a key is replaced when it has expired.
EnoughLeftToday(k, at) == keys[k].until - at > 0

EnoughLeft(k, at) == keys[k].until - at > Lead

Check(i) ==
    /\ pc[i] = "check"
    /\ \/ FindActive = {} /\ Goto(i, "insert") /\ job' = [job EXCEPT ![i].kid = None, ![i].at = now]
       \/ \E k \in FindActive :
             IF EnoughLeft(k, job[i].at) THEN Sleep(i)
             ELSE Goto(i, "insert") /\ job' = [job EXCEPT ![i].kid = k, ![i].at = now]
    /\ UNCHANGED <<now, keys, lock, token, disturbed>>

\* Mutant of InsertNew: without a key in use, another start is waited for.
InsertNewLazily(i) ==
    /\ pc[i] = "insert"
    /\ IF job[i].kid = None THEN Sleep(i) /\ UNCHANGED keys
       ELSE Insert(job[i].at, FALSE) /\ Goto(i, "retire") /\ UNCHANGED job
    /\ UNCHANGED <<now, lock, token, disturbed>>

InsertNew(i) ==
    /\ pc[i] = "insert"
    /\ Insert(job[i].at, FALSE)
    /\ IF job[i].kid = None THEN Sleep(i) ELSE Goto(i, "retire") /\ UNCHANGED job
    /\ UNCHANGED <<now, lock, token, disturbed>>

\* update_status, to RETIRED; it touches no row if the key was deleted.
UpdateStatus(k) == keys' = IF keys[k].status = "DELETED" THEN keys ELSE [keys EXCEPT ![k].status = "RETIRED"]

RetireOld(i) ==
    /\ pc[i] = "retire"
    /\ UpdateStatus(job[i].kid)
    /\ Sleep(i)
    /\ UNCHANGED <<now, lock, token, disturbed>>

\* The check fails in the database; the task logs it and sleeps on.  The checks
\* after the end of the modelled time do not all fail.
CheckFails(i) ==
    /\ Faults /\ pc[i] \in Checking /\ now < MaxNow
    /\ Sleep(i)
    /\ disturbed' = TRUE
    /\ UNCHANGED <<now, keys, lock, token>>

\* The connection goes with the process, and the lock with the connection.
Crash(i) ==
    /\ Faults /\ pc[i] # "down"
    /\ End(i, "down")
    /\ lock' = IF lock = i THEN None ELSE lock
    /\ disturbed' = (disturbed \/ ~\E q \in Instances \ {i} : Serving(q))
    /\ UNCHANGED <<now, keys, token>>
-----------------------------------------------------------------------------
(* Requests.                                                                *)

\* active_signing_key and the signature; without a key the request fails.
\* It is enough to follow one token at a time: it may be any.
Sign(i) ==
    /\ Serving(i) /\ token = None
    /\ \E k \in FindActive : token' = [kid |-> k, expires |-> now + TokenTtl]
    /\ UNCHANGED <<now, keys, lock, pc, job, disturbed>>

\* The console's forms, and the API behind them, let an administrator in who
\* presents the session's CSRF token; the others change nothing.
Served(r) == pc[r] = "new" /\ \E i \in Instances : Serving(i)

CallGenerate(r) ==
    /\ Served(r)
    /\ Goto(r, "generate") /\ job' = [job EXCEPT ![r].at = now]
    /\ UNCHANGED <<now, keys, lock, token, disturbed>>

CallRetire(r, k) ==
    /\ Served(r)
    /\ Goto(r, "find ACTIVE") /\ job' = [job EXCEPT ![r].kid = k]
    /\ UNCHANGED <<now, keys, lock, token, disturbed>>

CallDelete(r, k) ==
    /\ Served(r)
    /\ Goto(r, "find RETIRED") /\ job' = [job EXCEPT ![r].kid = k]
    /\ UNCHANGED <<now, keys, lock, token, disturbed>>

GenerateKey(r) ==
    /\ pc[r] = "generate"
    /\ Insert(job[r].at, FALSE) /\ End(r, "ended")
    /\ UNCHANGED <<now, lock, token, disturbed>>

\* retire_key wants an ACTIVE key, delete_key a RETIRED one.
AfterFind(r) ==
    LET status == keys[job[r].kid].status IN
    IF pc[r] = "find ACTIVE" /\ status = "ACTIVE" THEN "withdraw"
    ELSE IF pc[r] = "find RETIRED" /\ status = "RETIRED" THEN "delete" ELSE "ended"

FindByKid(r) ==
    /\ pc[r] \in {"find ACTIVE", "find RETIRED"}
    /\ IF AfterFind(r) = "ended" THEN End(r, "ended") ELSE Goto(r, AfterFind(r)) /\ UNCHANGED job
    /\ UNCHANGED <<now, keys, lock, token, disturbed>>

RetireKey(r) ==
    /\ pc[r] = "withdraw"
    /\ UpdateStatus(job[r].kid) /\ End(r, "ended")
    /\ disturbed' = TRUE
    /\ UNCHANGED <<now, lock, token>>

\* The DELETE names the kid only.
DeleteKey(r) ==
    /\ pc[r] = "delete"
    /\ keys' = [keys EXCEPT ![job[r].kid].status = "DELETED"] /\ End(r, "ended")
    /\ UNCHANGED <<now, lock, token, disturbed>>

\* The handler is dropped.
CallDropped(r) ==
    /\ Faults /\ pc[r] \in Calling
    /\ End(r, "ended")
    /\ UNCHANGED <<now, keys, lock, token, disturbed>>

\* A tick is long against a statement: a check that is due or running is over
\* before the next one.
Tick ==
    /\ now < MaxNow /\ now' = now + 1
    /\ \A i \in Instances : pc[i] \notin Checking /\ (pc[i] = "idle" => job[i].due > now)
    /\ token' = IF token # None /\ token.expires > now + 1 THEN token ELSE None
    /\ disturbed' = (disturbed \/ ~\E i \in Instances : Serving(i))
    /\ UNCHANGED <<keys, lock, pc, job>>

Task(i) ==
    \/ FindAtStart(i) \/ GetLock(i) \/ InsertIfNoActive(i) \/ ReleaseLock(i)
    \/ Wake(i) \/ Check(i) \/ InsertNew(i) \/ RetireOld(i)

Next ==
    \/ Tick
    \/ \E i \in Instances : Start(i) \/ Task(i) \/ CheckFails(i) \/ Crash(i) \/ Sign(i)
    \/ \E r \in Requests :
          \/ CallGenerate(r) \/ \E k \in Kids : CallRetire(r, k) \/ CallDelete(r, k)
          \/ GenerateKey(r) \/ FindByKid(r) \/ RetireKey(r) \/ DeleteKey(r) \/ CallDropped(r)

\* Time passes, and the runtime goes on polling the task of an instance that is up.
Spec == Init /\ [][Next]_vars /\ SF_vars(Tick) /\ \A i \in Instances : WF_vars(Task(i))
-----------------------------------------------------------------------------
(* What the code guarantees.                                                *)

\* Once the service has a key, it can sign: the overlap of rotations by several
\* instances, one of which may crash at any point, with generation and deletion
\* by administrators leaves no gap.
NoSigningGap == ~disturbed /\ (\E i \in Instances : Serving(i)) => Usable # {}

\* A relying party can verify a token for as long as it lives: its key is
\* published till then, unless an administrator deletes it.
SignedTokensVerifiable ==
    ~disturbed /\ token # None => token.kid \in Published \/ keys[token.kid].status = "DELETED"

\* Instances that start together make one key.
OneBootstrapKey ==
    \A k, q \in {k \in Kids : keys[k].boot /\ keys[k].status = "ACTIVE"} : k = q

\* After an outage, failed checks, or the retirement of the last key the task
\* comes to make one: an instance that goes on serving can sign again
\* (unless the model runs out of kids).
SigningResumes ==
    \A i \in Instances : Serving(i) ~> (Usable # {} \/ ~Serving(i) \/ Len(keys) = MaxKeys)
=============================================================================
