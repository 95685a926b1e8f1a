-------------------------- MODULE SigningKeysProofs --------------------------
(***************************************************************************)
(* Proofs about SigningKeys, for any number of instances, calls and keys   *)
(* and for any validity, lead and interval: instances that start together  *)
(* make one key; where the lead covers the sleep of the task there is      *)
(* always a key to sign with; where it also covers the life of a token,    *)
(* every token can be verified.                                            *)
(***************************************************************************)
EXTENDS SigningKeys, TLAPS

\* Who can be where.
PlacesInv ==
    /\ \A i \in Instances : pc[i] \in {"down", "idle"} \cup Booting \cup Checking
    /\ \A r \in Requests : pc[r] \in {"new", "ended"} \cup Calling

\* The locals: a time that has been, a key that there was.
LocalsInv == \A a \in Actors :
    /\ 0 <= job[a].at /\ job[a].at <= now
    /\ job[a].kid \in Kids \cup {None}
    /\ pc[a] \in {"retire", "find ACTIVE", "find RETIRED", "withdraw", "delete"} => job[a].kid # None

\* Every key is valid for the same time, from a time that has been.
KeyInv == \A k \in Kids : keys[k].until = keys[k].from + Validity /\ keys[k].from <= now

TInv == TypeOK /\ PlacesInv /\ LocalsInv /\ KeyInv

\* The holder of the lock inserts where no bootstrap key is in use.
BootInv ==
    /\ OneBootstrapKey
    /\ \A i \in Instances : pc[i] = "first" => \A k \in Kids : ~(keys[k].boot /\ keys[k].status = "ACTIVE")

\* A task sleeps no longer than the interval; a check takes no time, and gives
\* up only a key that has no more than the lead left; nobody deletes a key in use.
TaskInv ==
    /\ \A i \in Instances :
          /\ pc[i] = "idle" => now <= job[i].due /\ job[i].due <= now + Interval
          /\ pc[i] \in Checking => job[i].at = now
          /\ pc[i] \in {"insert", "retire"} /\ job[i].kid # None => keys[job[i].kid].until <= now + Lead
    /\ \A r \in Requests : pc[r] = "delete" => keys[job[r].kid].status # "ACTIVE"

\* A key in use lasts longer than until n.
Lasts(n) == \E k \in Kids : keys[k].status = "ACTIVE" /\ keys[k].until > n

\* Before the service was ever up, no time has passed and all keys are new.
NotYetUp ==
    /\ \A i \in Instances : ~Serving(i)
    /\ now = 0 /\ \A k \in Kids : keys[k].until > Lead
    /\ (\E i \in Instances : pc[i] = "release") => Lasts(Lead)

\* Afterwards each task has left a key that had more than the lead when it fell
\* asleep.
KeptUp ==
    /\ \E i \in Instances : Serving(i)
    /\ Lasts(now + Lead - Interval)
    /\ \A i \in Instances : pc[i] = "idle" => Lasts(job[i].due + Lead - Interval)
    /\ \A i \in Instances : pc[i] = "retire" => Lasts(now + Lead)

LeadInv == ~disturbed => NotYetUp \/ KeptUp

\* A token does not outlive its key.
TokenInv == ~disturbed /\ token # None => keys[token.kid].until > now /\ keys[token.kid].until >= token.expires
-----------------------------------------------------------------------------
(* How the table changes.                                                   *)

\* Keys are not lost, keep their validity, and do not come back into use.
KeysKept ==
    /\ keys' \in Seq(Key) /\ Len(keys) <= Len(keys') /\ Len(keys') <= MaxKeys
    /\ \A k \in Kids : /\ k \in 1..Len(keys')
                       /\ keys'[k].from = keys[k].from /\ keys'[k].until = keys[k].until
                       /\ keys'[k].boot = keys[k].boot
                       /\ keys'[k].status = "ACTIVE" => keys[k].status = "ACTIVE"

\* A step leaves the keys, appends one that is new, or changes the status of one.
Appends(at, boot) ==
    /\ Len(keys') = Len(keys) + 1
    /\ \A k \in Kids : keys'[k] = keys[k]
    /\ keys'[Len(keys) + 1] = NewKey(at, boot)

Changes(k, s) ==
    /\ k \in Kids /\ Len(keys') = Len(keys)
    /\ \A q \in Kids \ {k} : keys'[q] = keys[q]
    /\ keys'[k].status = s

LEMMA NewKeyType ==
    ASSUME NEW at \in Int, NEW boot \in BOOLEAN
    PROVE  NewKey(at, boot) \in Key
<1>1. at + Validity \in Int
  BY KeysAssumption
<1> QED
  BY <1>1 DEF NewKey, Key

LEMMA Inserted ==
    ASSUME TypeOK, NEW at \in Int, NEW boot \in BOOLEAN, Insert(at, boot)
    PROVE  KeysKept /\ Appends(at, boot)
<1>1. NewKey(at, boot) \in Key
  BY NewKeyType
<1>2. keys \in Seq(Key) /\ Len(keys) < MaxKeys /\ keys' = Append(keys, NewKey(at, boot))
  BY DEF TypeOK, Insert
<1>3. /\ keys' \in Seq(Key) /\ Len(keys') = Len(keys) + 1
      /\ \A k \in Kids : keys'[k] = keys[k]
      /\ keys'[Len(keys) + 1] = NewKey(at, boot)
  BY <1>1, <1>2 DEF Kids
<1>4. Len(keys) \in Nat
  BY <1>2
<1> QED
  BY <1>2, <1>3, <1>4, KeysAssumption DEF KeysKept, Appends, Kids

LEMMA Restated ==
    ASSUME TypeOK, NEW k \in Kids, NEW s \in {"RETIRED", "DELETED"},
           keys' = [keys EXCEPT ![k].status = s]
    PROVE  KeysKept /\ Changes(k, s)
<1>1. keys \in Seq(Key) /\ Len(keys) \in Nat /\ Len(keys) <= MaxKeys
  BY DEF TypeOK
<1>2. keys[k] \in Key
  BY <1>1 DEF Kids
<1> DEFINE new == [keys[k] EXCEPT !.status = s]
<1>3. new \in Key /\ new.from = keys[k].from /\ new.until = keys[k].until /\ new.boot = keys[k].boot /\ new.status = s
  BY <1>2 DEF Key
<1>4. keys' = [keys EXCEPT ![k] = new]
  OBVIOUS
<1> HIDE DEF new
<1>5. keys' \in Seq(Key) /\ Len(keys') = Len(keys)
  BY <1>1, <1>3, <1>4 DEF Kids
<1>6. keys'[k] = new /\ \A q \in Kids \ {k} : keys'[q] = keys[q]
  BY <1>1, <1>4 DEF Kids
<1>7. ASSUME NEW q \in Kids
      PROVE  /\ q \in 1..Len(keys')
             /\ keys'[q].from = keys[q].from /\ keys'[q].until = keys[q].until
             /\ keys'[q].boot = keys[q].boot
             /\ keys'[q].status = "ACTIVE" => keys[q].status = "ACTIVE"
  <2>1. CASE q = k
    BY <2>1, <1>3, <1>5, <1>6 DEF Kids
  <2>2. CASE q # k
    BY <2>2, <1>5, <1>6 DEF Kids
  <2> QED
    BY <2>1, <2>2
<1> QED
  BY <1>1, <1>3, <1>5, <1>6, <1>7 DEF KeysKept, Changes

LEMMA Untouched ==
    ASSUME TypeOK, keys' = keys
    PROVE  KeysKept
BY DEF TypeOK, KeysKept, Kids

LEMMA Updated ==
    ASSUME TypeOK, NEW k \in Kids, UpdateStatus(k)
    PROVE  KeysKept /\ (keys' = keys \/ Changes(k, "RETIRED"))
<1>1. CASE keys[k].status = "DELETED"
  BY <1>1, Untouched DEF UpdateStatus
<1>2. CASE keys[k].status # "DELETED"
  BY <1>2, Restated DEF UpdateStatus
<1> QED
  BY <1>1, <1>2
-----------------------------------------------------------------------------
(* How an actor moves, and the type invariant.                              *)

Holding == {"recheck", "first", "release"}
Keyed == {"retire", "find ACTIVE", "find RETIRED", "withdraw", "delete"}

JobOf(kid, at, due) == [kid |-> kid, at |-> at, due |-> due]

\* Actor a goes to l with locals j, and the others stay.
Move(a, l, j) ==
    /\ pc' \in [Actors -> Places] /\ job' \in [Actors -> Job]
    /\ pc'[a] = l /\ job'[a] = j
    /\ \A b \in Actors \ {a} : pc'[b] = pc[b] /\ job'[b] = job[b]

\* Where an actor may go, and with which locals.
Allowed(a, l, j) ==
    /\ a \in Instances => l \in {"down", "idle"} \cup Booting \cup Checking
    /\ a \in Requests => l \in {"new", "ended"} \cup Calling
    /\ 0 <= j.at /\ j.at <= now
    /\ j.kid \in Kids \cup {None}
    /\ l \in Keyed => j.kid # None

\* The lock goes with its holder.
LockMoves(a, l) ==
    /\ lock' \in Instances \cup {None}
    /\ \A i \in Instances \ {a} : lock' = i <=> lock = i
    /\ a \in Instances => (lock' = a <=> l \in Holding)

\* The keys that the step adds begin no later than now.
NewKeysOK == \A k \in 1..Len(keys') :
    k \notin Kids => /\ keys'[k].until = keys'[k].from + Validity
                     /\ 0 <= keys'[k].from /\ keys'[k].from <= now

LEMMA JobOfType ==
    ASSUME NEW kid \in Nat \cup {None}, NEW at \in Int, NEW due \in Int
    PROVE  /\ JobOf(kid, at, due) \in Job
           /\ JobOf(kid, at, due).kid = kid /\ JobOf(kid, at, due).at = at /\ JobOf(kid, at, due).due = due
BY DEF JobOf, Job

LEMMA IdleType == Idle \in Job /\ Idle = JobOf(None, 0, 0) /\ Idle.kid = None /\ Idle.at = 0 /\ Idle.due = 0
BY DEF Idle, Job, JobOf

\* The updates of the locals that the actions make.
LEMMA Updates ==
    ASSUME NEW j \in Job, NEW n \in Int, NEW k \in Nat \cup {None}
    PROVE  /\ [Idle EXCEPT !.due = n] = JobOf(None, 0, n)
           /\ [j EXCEPT !.at = n] = JobOf(j.kid, n, j.due)
           /\ [j EXCEPT !.kid = k] = JobOf(k, j.at, j.due)
           /\ [[j EXCEPT !.kid = k] EXCEPT !.at = n] = JobOf(k, n, j.due)
           /\ j.kid \in Nat \cup {None} /\ j.at \in Int /\ j.due \in Int
<1>1. [Idle EXCEPT !.due = n] = JobOf(None, 0, n)
  BY DEF Idle, JobOf
<1>2. PICK q \in Nat \cup {None}, s \in Int, d \in Int : j = [kid |-> q, at |-> s, due |-> d]
  BY DEF Job
<1>3. [j EXCEPT !.at = n] = JobOf(j.kid, n, j.due)
  BY <1>2 DEF JobOf
<1>4. [j EXCEPT !.kid = k] = JobOf(k, j.at, j.due)
  BY <1>2 DEF JobOf
<1>5. [[j EXCEPT !.kid = k] EXCEPT !.at = n] = JobOf(k, n, j.due)
  <2>1. [JobOf(k, j.at, j.due) EXCEPT !.at = n] = JobOf(k, n, j.due)
    BY DEF JobOf
  <2> QED
    BY <2>1, <1>4
<1> QED
  BY <1>1, <1>3, <1>4, <1>5 DEF Job

LEMMA Moved ==
    ASSUME TypeOK, NEW a \in Actors, NEW l \in Places, NEW j \in Job,
           pc' = [pc EXCEPT ![a] = l], job' = [job EXCEPT ![a] = j]
    PROVE  Move(a, l, j)
<1>1. pc \in [Actors -> Places] /\ job \in [Actors -> Job]
  BY DEF TypeOK
<1> QED
  BY <1>1 DEF Move

LEMMA SelfMoved ==
    ASSUME TypeOK, NEW a \in Actors, NEW l \in Places, pc' = [pc EXCEPT ![a] = l], job' = job
    PROVE  Move(a, l, job[a])
<1>1. pc \in [Actors -> Places] /\ job \in [Actors -> Job]
  BY DEF TypeOK
<1> QED
  BY <1>1 DEF Move

LEMMA KeysTyped ==
    ASSUME TInv
    PROVE  /\ Len(keys) \in Nat /\ now \in Nat
           /\ \A k \in Kids : keys[k] \in Key /\ keys[k].from \in Int /\ keys[k].until \in Int /\ keys[k].boot \in BOOLEAN
           /\ \A a \in Actors : job[a] \in Job /\ job[a].at \in Int /\ job[a].due \in Int /\ job[a].kid \in Nat \cup {None}
<1>1. keys \in Seq(Key) /\ job \in [Actors -> Job] /\ now \in 0..MaxNow
  BY DEF TInv, TypeOK
<1>2. \A k \in Kids : keys[k] \in Key
  BY <1>1 DEF Kids
<1>3. \A a \in Actors : job[a] \in Job
  BY <1>1
<1> QED
  BY <1>1, <1>2, <1>3, KeysAssumption DEF Key, Job

\* The types of the locals.
LEMMA LocalFacts ==
    ASSUME TInv, NEW a \in Actors
    PROVE  /\ now \in Int /\ now >= 0 /\ now + Interval \in Int
           /\ job[a].at \in Int /\ job[a].due \in Int /\ job[a].kid \in Kids \cup {None}
           /\ 0 <= job[a].at /\ job[a].at <= now
<1>1. job[a].kid \in Kids \cup {None} /\ 0 <= job[a].at /\ job[a].at <= now
  BY DEF TInv, LocalsInv
<1> QED
  BY <1>1, KeysTyped, KeysAssumption

LEMMA KeyInvKept ==
    ASSUME TInv, KeysKept, NewKeysOK, now' \in Int, now <= now'
    PROVE  KeyInv'
<1> SUFFICES ASSUME NEW k \in 1..Len(keys')
             PROVE  keys'[k].until = keys'[k].from + Validity /\ keys'[k].from <= now'
  BY DEF KeyInv, Kids
<1>0. keys'[k] \in Key /\ now \in Nat
  BY KeysTyped DEF KeysKept
<1>1. keys'[k].from \in Int
  BY <1>0 DEF Key
<1>2. CASE k \in Kids
  BY <1>0, <1>1, <1>2 DEF TInv, KeyInv, KeysKept
<1>3. CASE k \notin Kids
  BY <1>0, <1>1, <1>3 DEF NewKeysOK
<1> QED
  BY <1>2, <1>3

LEMMA TInvKept ==
    ASSUME TInv, KeysKept, NewKeysOK, now' = now, disturbed' \in BOOLEAN, token' = token,
           NEW a \in Actors, NEW l, NEW j, Move(a, l, j), Allowed(a, l, j), LockMoves(a, l)
    PROVE  TInv'
<1>1. KeyInv'
  BY KeyInvKept, KeysTyped
<1>2. Kids \subseteq 1..Len(keys')
  BY DEF KeysKept
<1>3. TypeOK'
  <2>1. \A i \in Instances : lock' = i <=> pc'[i] \in Holding
    BY DEF TInv, TypeOK, Move, LockMoves, Holding, Actors
  <2>2. token' # None => token'.kid \in 1..Len(keys') /\ token'.expires \in Int
    BY <1>2 DEF TInv, TypeOK
  <2> QED
    BY <2>1, <2>2 DEF TypeOK, TInv, KeysKept, LockMoves, Move, Holding, Kids
<1>4. PlacesInv'
  BY DEF TInv, PlacesInv, Move, Allowed, Actors
<1>5. LocalsInv'
  <2> SUFFICES ASSUME NEW b \in Actors
               PROVE  /\ 0 <= job'[b].at /\ job'[b].at <= now'
                      /\ job'[b].kid \in 1..Len(keys') \cup {None}
                      /\ pc'[b] \in Keyed => job'[b].kid # None
    BY DEF LocalsInv, Keyed, Kids
  <2>1. CASE b = a
    BY <2>1, <1>2 DEF Move, Allowed
  <2>2. CASE b # a
    BY <2>2, <1>2 DEF Move, TInv, LocalsInv, Keyed
  <2> QED
    BY <2>1, <2>2
<1> QED
  BY <1>1, <1>3, <1>4, <1>5 DEF TInv

\* Nothing is added.
LEMMA NoNewKeys ==
    ASSUME TypeOK, Len(keys') = Len(keys)
    PROVE  NewKeysOK
BY DEF NewKeysOK, Kids

\* The key of a time that has been.
LEMMA NewKeyOK ==
    ASSUME TInv, NEW at \in Int, NEW boot \in BOOLEAN, Appends(at, boot), 0 <= at, at <= now
    PROVE  NewKeysOK
<1>1. NewKey(at, boot).until = NewKey(at, boot).from + Validity /\ NewKey(at, boot).from = at
  BY DEF NewKey
<1>2. Len(keys) \in Nat
  BY KeysTyped
<1> SUFFICES ASSUME NEW k \in 1..Len(keys'), k \notin Kids
             PROVE  /\ keys'[k].until = keys'[k].from + Validity
                    /\ 0 <= keys'[k].from /\ keys'[k].from <= now
  BY DEF NewKeysOK
<1>3. k = Len(keys) + 1
  BY <1>2 DEF Appends, Kids
<1> QED
  BY <1>1, <1>3 DEF Appends

\* What every step of an instance's task does to its own place and locals.
Sleeps(i) == Move(i, "idle", JobOf(None, 0, now + Interval))
GoesUp(i) == Move(i, "idle", JobOf(None, 0, now))
GoesDown(a, l) == Move(a, l, JobOf(None, 0, 0))

LEMMA Ends ==
    ASSUME TInv, NEW a \in Actors, NEW l \in {"down", "ended"}, End(a, l)
    PROVE  GoesDown(a, l)
BY Moved, IdleType DEF End, Goto, GoesDown, TInv, Places

LEMMA FallsAsleep ==
    ASSUME TInv, NEW i \in Instances, Sleep(i)
    PROVE  Sleeps(i)
<1>1. now + Interval \in Int
  BY KeysTyped, KeysAssumption
<1>2. [Idle EXCEPT !.due = now + Interval] = JobOf(None, 0, now + Interval) /\ JobOf(None, 0, now + Interval) \in Job
  BY <1>1, Updates, JobOfType, IdleType
<1> QED
  BY <1>2, Moved DEF Sleep, Sleeps, Goto, TInv, Places, Actors

LEMMA ComesUp ==
    ASSUME TInv, NEW i \in Instances, Up(i)
    PROVE  GoesUp(i)
<1>1. now \in Int
  BY KeysTyped
<1>2. [Idle EXCEPT !.due = now] = JobOf(None, 0, now) /\ JobOf(None, 0, now) \in Job
  BY <1>1, Updates, JobOfType, IdleType
<1> QED
  BY <1>2, Moved DEF Up, GoesUp, Goto, TInv, Places, Actors

LEMMA Times ==
    ASSUME TInv, NEW a \in Actors, NEW l \in Places, Goto(a, l), job' = [job EXCEPT ![a].at = now]
    PROVE  Move(a, l, JobOf(job[a].kid, now, job[a].due))
<1>1. job[a] \in Job /\ now \in Int
  BY KeysTyped
<1>2. [job[a] EXCEPT !.at = now] = JobOf(job[a].kid, now, job[a].due)
  BY <1>1, Updates
<1>3. JobOf(job[a].kid, now, job[a].due) \in Job
  BY <1>1, Updates, JobOfType
<1>4. job' = [job EXCEPT ![a] = JobOf(job[a].kid, now, job[a].due)]
  BY <1>2
<1> QED
  BY <1>3, <1>4, Moved DEF Goto, TInv
-----------------------------------------------------------------------------
(* What each action does, in terms of moves and of changes of the table.    *)

Rest == now' = now /\ token' = token
Still == Rest /\ keys' = keys /\ disturbed' = disturbed

LEMMA StartDoes ==
    ASSUME TInv, NEW i \in Instances, Start(i)
    PROVE  pc[i] = "down" /\ Still /\ lock' = lock /\ Move(i, "boot", job[i])
BY SelfMoved DEF Start, Goto, Still, Rest, TInv, Actors, Places, Booting

LEMMA FindAtStartDoes ==
    ASSUME TInv, NEW i \in Instances, FindAtStart(i)
    PROVE  /\ pc[i] = "boot" /\ Still /\ lock' = lock
           /\ \/ FindActive # {} /\ GoesUp(i)
              \/ Move(i, "lock", JobOf(job[i].kid, now, job[i].due))
<1>1. CASE FindActive # {}
  BY <1>1, ComesUp DEF FindAtStart, Still, Rest
<1>2. CASE FindActive = {}
  BY <1>2, Times DEF FindAtStart, Still, Rest, Actors, Places, Booting
<1> QED
  BY <1>1, <1>2

LEMMA GetLockDoes ==
    ASSUME TInv, NEW i \in Instances, GetLock(i)
    PROVE  /\ pc[i] = "lock" /\ Still
           /\ \/ lock = None /\ lock' = i /\ Move(i, "recheck", job[i])
              \/ lock' = lock /\ GoesDown(i, "down")
<1>1. CASE lock = None /\ lock' = i /\ Goto(i, "recheck") /\ UNCHANGED job
  BY <1>1, SelfMoved DEF GetLock, Goto, Still, Rest, TInv, Actors, Places, Booting
<1>2. CASE lock # None /\ End(i, "down") /\ UNCHANGED lock
  BY <1>2, Ends DEF GetLock, Still, Rest, Actors
<1> QED
  BY <1>1, <1>2 DEF GetLock

LEMMA InsertIfNoActiveDoes ==
    ASSUME TInv, NEW i \in Instances, InsertIfNoActive(i)
    PROVE  /\ Rest /\ disturbed' = disturbed /\ lock' = lock
           /\ \/ pc[i] = "recheck" /\ SomeActive /\ keys' = keys /\ Move(i, "release", job[i])
              \/ pc[i] = "recheck" /\ ~SomeActive /\ keys' = keys /\ Move(i, "first", job[i])
              \/ pc[i] = "first" /\ KeysKept /\ Appends(job[i].at, TRUE) /\ Move(i, "release", job[i])
<1>1. CASE pc[i] = "recheck" /\ SomeActive /\ UNCHANGED keys /\ Goto(i, "release")
  BY <1>1, SelfMoved DEF InsertIfNoActive, Goto, Rest, TInv, Actors, Places, Booting
<1>2. CASE pc[i] = "recheck" /\ ~SomeActive /\ UNCHANGED keys /\ Goto(i, "first")
  BY <1>2, SelfMoved DEF InsertIfNoActive, Goto, Rest, TInv, Actors, Places, Booting
<1>3. CASE pc[i] = "first" /\ Insert(job[i].at, TRUE) /\ Goto(i, "release")
  <2>1. KeysKept /\ Appends(job[i].at, TRUE)
    BY <1>3, Inserted, KeysTyped DEF TInv, Actors
  <2> QED
    BY <1>3, <2>1, SelfMoved DEF InsertIfNoActive, Goto, Rest, TInv, Actors, Places, Booting
<1> QED
  BY <1>1, <1>2, <1>3 DEF InsertIfNoActive

LEMMA ReleaseLockDoes ==
    ASSUME TInv, NEW i \in Instances, ReleaseLock(i)
    PROVE  pc[i] = "release" /\ Still /\ lock' = None /\ GoesUp(i)
BY ComesUp DEF ReleaseLock, Still, Rest

LEMMA WakeDoes ==
    ASSUME TInv, NEW i \in Instances, Wake(i)
    PROVE  pc[i] = "idle" /\ Still /\ lock' = lock /\ Move(i, "check", JobOf(job[i].kid, now, job[i].due))
BY Times DEF Wake, Still, Rest, Actors, Places, Checking

LEMMA Begins ==
    ASSUME TInv, NEW i \in Instances, NEW k \in Nat \cup {None},
           Goto(i, "insert"), job' = [job EXCEPT ![i].kid = k, ![i].at = now]
    PROVE  Move(i, "insert", JobOf(k, now, job[i].due))
<1>1. job[i] \in Job /\ now \in Int /\ i \in Actors
  BY KeysTyped DEF Actors
<1>2. [[job[i] EXCEPT !.kid = k] EXCEPT !.at = now] = JobOf(k, now, job[i].due)
  BY <1>1, Updates
<1>3. JobOf(k, now, job[i].due) \in Job
  BY <1>1, Updates, JobOfType
<1>4. job \in [Actors -> Job]
  BY DEF TInv, TypeOK
<1>5. job' = [job EXCEPT ![i] = [[job[i] EXCEPT !.kid = k] EXCEPT !.at = now]]
  BY <1>1, <1>4
<1>6. job' = [job EXCEPT ![i] = JobOf(k, now, job[i].due)]
  BY <1>2, <1>5
<1> QED
  BY <1>1, <1>3, <1>6, Moved DEF Goto, TInv, Places, Checking

LEMMA CheckDoes ==
    ASSUME TInv, NEW i \in Instances, Check(i)
    PROVE  /\ pc[i] = "check" /\ Still /\ lock' = lock
           /\ \/ Sleeps(i) /\ \E k \in FindActive : EnoughLeft(k, job[i].at)
              \/ Move(i, "insert", JobOf(None, now, job[i].due))
              \/ \E k \in FindActive : ~EnoughLeft(k, job[i].at) /\ Move(i, "insert", JobOf(k, now, job[i].due))
<1>0. FindActive \subseteq Nat
  BY KeysTyped DEF FindActive, Usable, Kids
<1>1. CASE FindActive = {} /\ Goto(i, "insert") /\ job' = [job EXCEPT ![i].kid = None, ![i].at = now]
  BY <1>1, Begins DEF Check, Still, Rest
<1>2. ASSUME NEW k \in FindActive, EnoughLeft(k, job[i].at), Sleep(i)
      PROVE  Sleeps(i)
  BY <1>2, FallsAsleep
<1>3. ASSUME NEW k \in FindActive, ~EnoughLeft(k, job[i].at),
             Goto(i, "insert"), job' = [job EXCEPT ![i].kid = k, ![i].at = now]
      PROVE  Move(i, "insert", JobOf(k, now, job[i].due))
  BY <1>0, <1>3, Begins
<1> QED
  BY <1>1, <1>2, <1>3 DEF Check, Still, Rest

LEMMA InsertNewDoes ==
    ASSUME TInv, NEW i \in Instances, InsertNew(i)
    PROVE  /\ pc[i] = "insert" /\ Rest /\ disturbed' = disturbed /\ lock' = lock
           /\ KeysKept /\ Appends(job[i].at, FALSE)
           /\ \/ Sleeps(i)
              \/ job[i].kid # None /\ Move(i, "retire", job[i])
<1>1. KeysKept /\ Appends(job[i].at, FALSE)
  BY Inserted, KeysTyped DEF InsertNew, TInv, Actors
<1>2. CASE job[i].kid = None
  BY <1>1, <1>2, FallsAsleep DEF InsertNew, Rest
<1>3. CASE job[i].kid # None
  BY <1>1, <1>3, SelfMoved DEF InsertNew, Rest, Goto, TInv, Actors, Places, Checking
<1> QED
  BY <1>2, <1>3

LEMMA RetireOldDoes ==
    ASSUME TInv, NEW i \in Instances, RetireOld(i)
    PROVE  /\ pc[i] = "retire" /\ Rest /\ disturbed' = disturbed /\ lock' = lock /\ Sleeps(i)
           /\ job[i].kid \in Kids /\ KeysKept /\ (keys' = keys \/ Changes(job[i].kid, "RETIRED"))
<1>1. pc[i] = "retire" /\ job[i].kid \in Kids
  BY DEF RetireOld, TInv, LocalsInv, Actors
<1> QED
  BY <1>1, Updated, FallsAsleep DEF RetireOld, Rest, TInv

LEMMA CheckFailsDoes ==
    ASSUME TInv, NEW i \in Instances, CheckFails(i)
    PROVE  pc[i] \in Checking /\ Rest /\ keys' = keys /\ disturbed' = TRUE /\ lock' = lock /\ Sleeps(i)
BY FallsAsleep DEF CheckFails, Rest

LEMMA CrashDoes ==
    ASSUME TInv, NEW i \in Instances, Crash(i)
    PROVE  /\ Rest /\ keys' = keys /\ GoesDown(i, "down")
           /\ lock' = (IF lock = i THEN None ELSE lock)
           /\ disturbed' \in BOOLEAN
           /\ ~disturbed' => ~disturbed /\ \E q \in Instances \ {i} : Serving(q)
BY Ends DEF Crash, Rest, Actors, TInv, TypeOK

LEMMA SignDoes ==
    ASSUME TInv, NEW i \in Instances, Sign(i)
    PROVE  /\ Serving(i) /\ UNCHANGED <<now, keys, lock, pc, job, disturbed>>
           /\ \E k \in FindActive : token' = [kid |-> k, expires |-> now + TokenTtl]
BY DEF Sign

LEMMA CallGenerateDoes ==
    ASSUME TInv, NEW r \in Requests, CallGenerate(r)
    PROVE  Still /\ lock' = lock /\ Move(r, "generate", JobOf(job[r].kid, now, job[r].due))
BY Times DEF CallGenerate, Still, Rest, Actors, Places, Calling

LEMMA Asks ==
    ASSUME TInv, NEW r \in Requests, NEW k \in Kids, NEW l \in Places, Goto(r, l), job' = [job EXCEPT ![r].kid = k]
    PROVE  Move(r, l, JobOf(k, job[r].at, job[r].due))
<1>1. job[r] \in Job /\ r \in Actors /\ k \in Nat /\ now \in Int
  BY KeysTyped DEF Actors, Kids
<1>2. [job[r] EXCEPT !.kid = k] = JobOf(k, job[r].at, job[r].due)
  BY <1>1, Updates
<1>3. JobOf(k, job[r].at, job[r].due) \in Job
  BY <1>1, Updates, JobOfType
<1>4. job' = [job EXCEPT ![r] = JobOf(k, job[r].at, job[r].due)]
  BY <1>2
<1> QED
  BY <1>1, <1>3, <1>4, Moved DEF Goto, TInv

LEMMA CallRetireDoes ==
    ASSUME TInv, NEW r \in Requests, NEW k \in Kids, CallRetire(r, k)
    PROVE  Still /\ lock' = lock /\ Move(r, "find ACTIVE", JobOf(k, job[r].at, job[r].due))
BY Asks DEF CallRetire, Still, Rest, Places, Calling

LEMMA CallDeleteDoes ==
    ASSUME TInv, NEW r \in Requests, NEW k \in Kids, CallDelete(r, k)
    PROVE  Still /\ lock' = lock /\ Move(r, "find RETIRED", JobOf(k, job[r].at, job[r].due))
BY Asks DEF CallDelete, Still, Rest, Places, Calling

LEMMA GenerateKeyDoes ==
    ASSUME TInv, NEW r \in Requests, GenerateKey(r)
    PROVE  /\ Rest /\ disturbed' = disturbed /\ lock' = lock /\ GoesDown(r, "ended")
           /\ KeysKept /\ Appends(job[r].at, FALSE)
BY Inserted, KeysTyped, Ends DEF GenerateKey, TInv, Actors, Rest

LEMMA FindByKidDoes ==
    ASSUME TInv, NEW r \in Requests, FindByKid(r)
    PROVE  /\ pc[r] \in {"find ACTIVE", "find RETIRED"} /\ Still /\ lock' = lock
           /\ \/ GoesDown(r, "ended")
              \/ Move(r, "withdraw", job[r])
              \/ Move(r, "delete", job[r]) /\ keys[job[r].kid].status = "RETIRED"
<1>1. CASE AfterFind(r) = "ended"
  BY <1>1, Ends DEF FindByKid, Still, Rest, Actors
<1>2. CASE AfterFind(r) # "ended"
  <2>1. AfterFind(r) = "withdraw" \/ (AfterFind(r) = "delete" /\ keys[job[r].kid].status = "RETIRED")
    BY <1>2 DEF AfterFind
  <2>2. AfterFind(r) \in Places
    BY <2>1 DEF Places, Calling
  <2>3. Move(r, AfterFind(r), job[r])
    BY <1>2, <2>2, SelfMoved DEF FindByKid, Goto, TInv, Actors
  <2> QED
    BY <1>2, <2>1, <2>3 DEF FindByKid, Still, Rest
<1> QED
  BY <1>1, <1>2

LEMMA RetireKeyDoes ==
    ASSUME TInv, NEW r \in Requests, RetireKey(r)
    PROVE  /\ Rest /\ disturbed' = TRUE /\ lock' = lock /\ GoesDown(r, "ended")
           /\ job[r].kid \in Kids /\ KeysKept /\ (keys' = keys \/ Changes(job[r].kid, "RETIRED"))
<1>1. job[r].kid \in Kids
  BY DEF RetireKey, TInv, LocalsInv, Actors
<1> QED
  BY <1>1, Updated, Ends DEF RetireKey, Rest, TInv, Actors

LEMMA DeleteKeyDoes ==
    ASSUME TInv, NEW r \in Requests, DeleteKey(r)
    PROVE  /\ pc[r] = "delete" /\ Rest /\ disturbed' = disturbed /\ lock' = lock /\ GoesDown(r, "ended")
           /\ job[r].kid \in Kids /\ KeysKept /\ Changes(job[r].kid, "DELETED")
<1>1. job[r].kid \in Kids
  BY DEF DeleteKey, TInv, LocalsInv, Actors
<1> QED
  BY <1>1, Restated, Ends DEF DeleteKey, Rest, TInv, Actors

LEMMA CallDroppedDoes ==
    ASSUME TInv, NEW r \in Requests, CallDropped(r)
    PROVE  Still /\ lock' = lock /\ GoesDown(r, "ended")
BY Ends DEF CallDropped, Still, Rest, Actors
-----------------------------------------------------------------------------
(* Types.                                                                   *)

LEMMA InitTInv == Init => TInv
<1> SUFFICES ASSUME Init
             PROVE  TInv
  OBVIOUS
<1>1. /\ keys \in Seq(Key) /\ Len(keys) <= 1
      /\ \A k \in Kids : keys[k].until = keys[k].from + Validity /\ keys[k].from <= now
  <2>1. CASE keys = <<>>
    BY <2>1 DEF Kids
  <2>2. ASSUME NEW age \in 0..Validity, keys = <<NewKey(-age, TRUE)>>
        PROVE  /\ keys \in Seq(Key) /\ Len(keys) <= 1
               /\ \A k \in Kids : keys[k].until = keys[k].from + Validity /\ keys[k].from <= now
    <3>0. age \in Int /\ age >= 0 /\ Validity \in Int /\ -age \in Int /\ -age <= 0
      BY KeysAssumption
    <3> DEFINE first == -age
               key == NewKey(first, TRUE)
    <3>1. key \in Key
      BY <3>0, NewKeyType
    <3>2. key.until = first + Validity /\ key.from = first
      BY DEF NewKey
    <3> HIDE DEF key, first
    <3>3. Kids = {1} /\ keys[1] = key /\ Len(keys) = 1
      BY <2>2 DEF Kids, key, first
    <3>4. keys = <<key>>
      BY <2>2 DEF key, first
    <3>5. keys \in Seq(Key)
      BY <3>1, <3>4
    <3>6. now = 0 /\ first <= 0
      BY <3>0 DEF Init, first
    <3> QED
      BY <3>2, <3>3, <3>5, <3>6
  <2> QED
    BY <2>1, <2>2 DEF Init
<1>2. TypeOK
  BY <1>1, KeysAssumption, IdleType DEF Init, TypeOK, Actors, Places
<1>3. PlacesInv
  BY KeysAssumption DEF Init, PlacesInv, Actors
<1>4. LocalsInv
  BY IdleType DEF Init, LocalsInv
<1> QED
  BY <1>1, <1>2, <1>3, <1>4 DEF TInv, KeyInv

\* An actor that does not hold the lock, nor will.
LEMMA LockStays ==
    ASSUME TInv, NEW a \in Actors, NEW l, lock' = lock, pc[a] \notin Holding, l \notin Holding
    PROVE  LockMoves(a, l)
BY DEF LockMoves, TInv, TypeOK, Holding

\* Steps that leave the lock alone.
LEMMA MoveTInv ==
    ASSUME TInv, Rest, lock' = lock, disturbed' \in BOOLEAN, KeysKept, NewKeysOK,
           NEW a \in Actors, NEW l, NEW j, Move(a, l, j), Allowed(a, l, j), pc[a] \notin Holding, l \notin Holding
    PROVE  TInv'
BY LockStays, TInvKept DEF Rest

LEMMA StillKeys ==
    ASSUME TInv, keys' = keys
    PROVE  KeysKept /\ NewKeysOK
BY Untouched, NoNewKeys DEF TInv

LEMMA AllowedSleeps ==
    ASSUME TInv, NEW n \in Int
    PROVE  /\ \A i \in Instances : Allowed(i, "idle", JobOf(None, 0, n)) /\ Allowed(i, "down", JobOf(None, 0, n))
           /\ \A r \in Requests : Allowed(r, "ended", JobOf(None, 0, n))
<1>1. JobOf(None, 0, n).kid = None /\ JobOf(None, 0, n).at = 0
  BY DEF JobOf
<1> QED
  BY <1>1, KeysTyped, KeysAssumption DEF Allowed, Keyed

LEMMA TickTInv ==
    ASSUME TInv, Tick
    PROVE  TInv'
<1>0. now \in Nat /\ Len(keys) \in Nat
  BY KeysTyped
<1>1. KeyInv'
  <2>1. KeysKept /\ NewKeysOK
    BY StillKeys DEF Tick
  <2> QED
    BY <1>0, <2>1, KeyInvKept DEF Tick
<1>2. TypeOK'
  <2>1. now' \in 0..MaxNow
    BY <1>0, KeysAssumption DEF Tick
  <2>2. disturbed' \in BOOLEAN
    BY DEF Tick
  <2>3. token' # None => token'.kid \in Kids /\ token'.expires \in Int
    BY DEF Tick, TInv, TypeOK
  <2> QED
    BY <2>1, <2>2, <2>3 DEF TypeOK, TInv, Tick, Kids
<1>3. PlacesInv'
  BY DEF Tick, TInv, PlacesInv
<1>4. LocalsInv'
  <2> SUFFICES ASSUME NEW a \in Actors
               PROVE  /\ 0 <= job[a].at /\ job[a].at <= now + 1
                      /\ job[a].kid \in Kids \cup {None}
                      /\ pc[a] \in Keyed => job[a].kid # None
    BY DEF Tick, LocalsInv, Keyed, Kids
  <2>1. job[a].at \in Int
    BY KeysTyped
  <2>2. 0 <= job[a].at /\ job[a].at <= now
    BY DEF TInv, LocalsInv
  <2>3. job[a].kid \in Kids \cup {None} /\ (pc[a] \in Keyed => job[a].kid # None)
    BY DEF TInv, LocalsInv, Keyed
  <2> QED
    BY <1>0, <2>1, <2>2, <2>3
<1> QED
  BY <1>1, <1>2, <1>3, <1>4 DEF TInv

LEMMA SignTInv ==
    ASSUME TInv, NEW i \in Instances, Sign(i)
    PROVE  TInv'
<1>0. now \in Nat
  BY KeysTyped
<1>1. token'.kid \in Kids /\ token'.expires \in Int
  <2>1. PICK k \in FindActive : token' = [kid |-> k, expires |-> now + TokenTtl]
    BY DEF Sign
  <2> QED
    BY <1>0, <2>1, KeysAssumption DEF FindActive, Usable
<1> QED
  BY <1>1 DEF Sign, TInv, TypeOK, PlacesInv, LocalsInv, KeyInv, Kids

LEMMA InstanceTInv ==
    ASSUME TInv, NEW i \in Instances, Start(i) \/ Task(i) \/ CheckFails(i) \/ Crash(i)
    PROVE  TInv'
<1>0. /\ i \in Actors /\ i \notin Requests /\ now \in Int /\ now >= 0 /\ now + Interval \in Int
      /\ disturbed \in BOOLEAN /\ job[i].at \in Int /\ job[i].due \in Int
      /\ job[i].kid \in Kids \cup {None}
      /\ 0 <= job[i].at /\ job[i].at <= now
      /\ lock \in Instances \cup {None}
      /\ \A q \in Instances : lock = q <=> pc[q] \in Holding
  <2>1. i \in Actors /\ i \notin Requests
    BY KeysAssumption DEF Actors
  <2>2. /\ disturbed \in BOOLEAN /\ lock \in Instances \cup {None}
        /\ \A q \in Instances : lock = q <=> pc[q] \in Holding
    BY DEF TInv, TypeOK, Holding
  <2> QED
    BY <2>1, <2>2, LocalFacts
<1>1. \A l \in {"lock", "check", "insert"}, k \in Kids \cup {None} : Allowed(i, l, JobOf(k, now, job[i].due))
  <2> SUFFICES ASSUME NEW l \in {"lock", "check", "insert"}, NEW k \in Kids \cup {None}
               PROVE  Allowed(i, l, JobOf(k, now, job[i].due))
    OBVIOUS
  <2> DEFINE j == JobOf(k, now, job[i].due)
  <2>1. j.kid = k /\ j.at = now
    BY DEF JobOf
  <2>2. l \in Booting \cup Checking /\ l \notin Keyed
    BY DEF Booting, Checking, Keyed
  <2> HIDE DEF j
  <2>3. Allowed(i, l, j)
    BY <1>0, <2>1, <2>2 DEF Allowed
  <2> QED
    BY <2>3 DEF j
<1>2. \A l \in {"boot", "recheck", "first", "release"} : Allowed(i, l, job[i])
  BY <1>0 DEF Allowed, Booting, Keyed
<1>3. /\ Allowed(i, "idle", JobOf(None, 0, now)) /\ Allowed(i, "idle", JobOf(None, 0, now + Interval))
      /\ Allowed(i, "down", JobOf(None, 0, 0))
  BY <1>0, AllowedSleeps
<1>4. CASE Start(i)
  BY <1>0, <1>2, <1>4, StartDoes, StillKeys, MoveTInv DEF Still, Holding
<1>5. CASE FindAtStart(i)
  BY <1>0, <1>1, <1>3, <1>5, FindAtStartDoes, StillKeys, MoveTInv DEF Still, GoesUp, Holding
<1>6. CASE GetLock(i)
  <2>1. CASE lock = None /\ lock' = i /\ Move(i, "recheck", job[i])
    <3>1. LockMoves(i, "recheck")
      BY <1>0, <2>1, KeysAssumption DEF LockMoves, Holding
    <3> QED
      BY <1>0, <1>2, <1>6, <2>1, <3>1, GetLockDoes, StillKeys, TInvKept DEF Still, Rest
  <2>2. CASE lock' = lock /\ GoesDown(i, "down")
    BY <1>0, <1>3, <1>6, <2>2, GetLockDoes, StillKeys, MoveTInv DEF Still, GoesDown, Holding
  <2> QED
    BY <1>6, <2>1, <2>2, GetLockDoes
<1>7. CASE InsertIfNoActive(i)
  <2>1. LockMoves(i, "release") /\ LockMoves(i, "first")
    BY <1>0, <1>7, InsertIfNoActiveDoes DEF LockMoves, Holding
  <2>2. CASE keys' = keys
    BY <1>0, <1>2, <1>7, <2>1, <2>2, InsertIfNoActiveDoes, StillKeys, TInvKept DEF Rest
  <2>3. CASE KeysKept /\ Appends(job[i].at, TRUE) /\ Move(i, "release", job[i])
    <3>1. NewKeysOK
      BY <1>0, <2>3, NewKeyOK
    <3> QED
      BY <1>0, <1>2, <1>7, <2>1, <2>3, <3>1, InsertIfNoActiveDoes, TInvKept DEF Rest
  <2> QED
    BY <1>7, <2>2, <2>3, InsertIfNoActiveDoes
<1>8. CASE ReleaseLock(i)
  <2>1. LockMoves(i, "idle")
    BY <1>0, <1>8, ReleaseLockDoes, KeysAssumption DEF LockMoves, Holding
  <2> QED
    BY <1>0, <1>3, <1>8, <2>1, ReleaseLockDoes, StillKeys, TInvKept DEF Still, Rest, GoesUp
<1>9. CASE Wake(i)
  BY <1>0, <1>1, <1>9, WakeDoes, StillKeys, MoveTInv DEF Still, Holding
<1>10. CASE Check(i)
  <2>1. FindActive \subseteq Kids
    BY DEF FindActive, Usable
  <2> QED
    BY <1>0, <1>1, <1>3, <1>10, <2>1, CheckDoes, StillKeys, MoveTInv DEF Still, Sleeps, Holding
<1>11. CASE InsertNew(i)
  <2>1. NewKeysOK
    BY <1>0, <1>11, InsertNewDoes, NewKeyOK
  <2>2. job[i].kid # None => Allowed(i, "retire", job[i])
    BY <1>0 DEF Allowed, Checking
  <2> QED
    BY <1>0, <1>3, <1>11, <2>1, <2>2, InsertNewDoes, MoveTInv DEF Sleeps, Holding
<1>12. CASE RetireOld(i)
  <2>1. NewKeysOK
    BY <1>12, RetireOldDoes, NoNewKeys DEF Changes, TInv
  <2> QED
    BY <1>0, <1>3, <1>12, <2>1, RetireOldDoes, MoveTInv DEF Sleeps, Holding
<1>13. CASE CheckFails(i)
  BY <1>0, <1>3, <1>13, CheckFailsDoes, StillKeys, MoveTInv DEF Sleeps, Holding, Checking
<1>14. CASE Crash(i)
  <2>1. LockMoves(i, "down")
    BY <1>0, <1>14, CrashDoes, KeysAssumption DEF LockMoves, Holding
  <2> QED
    BY <1>0, <1>3, <1>14, <2>1, CrashDoes, StillKeys, TInvKept DEF Rest, GoesDown
<1> QED
  BY <1>4, <1>5, <1>6, <1>7, <1>8, <1>9, <1>10, <1>11, <1>12, <1>13, <1>14 DEF Task

LEMMA RequestTInv ==
    ASSUME TInv, NEW r \in Requests,
           \/ CallGenerate(r) \/ \E k \in Kids : CallRetire(r, k) \/ CallDelete(r, k)
           \/ GenerateKey(r) \/ FindByKid(r) \/ RetireKey(r) \/ DeleteKey(r) \/ CallDropped(r)
    PROVE  TInv'
<1>0. /\ r \in Actors /\ r \notin Instances /\ now \in Int /\ now >= 0
      /\ job[r].at \in Int /\ job[r].due \in Int
      /\ job[r].kid \in Kids \cup {None}
      /\ 0 <= job[r].at /\ job[r].at <= now
      /\ pc[r] \notin Holding
  <2>1. r \in Actors /\ r \notin Instances
    BY KeysAssumption DEF Actors
  <2>2. pc[r] \notin Holding
    BY DEF TInv, PlacesInv, Calling, Holding
  <2> QED
    BY <2>1, <2>2, LocalFacts
<1>1. disturbed \in BOOLEAN
  BY DEF TInv, TypeOK
<1>2. Allowed(r, "ended", JobOf(None, 0, 0))
  BY AllowedSleeps
<1>3. CASE CallGenerate(r)
  <2>1. JobOf(job[r].kid, now, job[r].due).kid = job[r].kid /\ JobOf(job[r].kid, now, job[r].due).at = now
    BY DEF JobOf
  <2>2. Allowed(r, "generate", JobOf(job[r].kid, now, job[r].due))
    BY <1>0, <2>1 DEF Allowed, Calling, Keyed
  <2> QED
    BY <1>0, <1>1, <1>3, <2>2, CallGenerateDoes, StillKeys, MoveTInv DEF Still, Holding
<1>4. ASSUME NEW k \in Kids, CallRetire(r, k) \/ CallDelete(r, k)
      PROVE  TInv'
  <2>1. JobOf(k, job[r].at, job[r].due).kid = k /\ JobOf(k, job[r].at, job[r].due).at = job[r].at
    BY DEF JobOf
  <2>2. k # None
    BY KeysAssumption, KeysTyped DEF Kids
  <2>3. \A l \in {"find ACTIVE", "find RETIRED"} : Allowed(r, l, JobOf(k, job[r].at, job[r].due))
    BY <1>0, <2>1, <2>2 DEF Allowed, Calling, Keyed
  <2>4. Still /\ lock' = lock
    BY <1>4, CallRetireDoes, CallDeleteDoes
  <2>5. PICK l \in {"find ACTIVE", "find RETIRED"} : Move(r, l, JobOf(k, job[r].at, job[r].due))
    BY <1>4, CallRetireDoes, CallDeleteDoes
  <2>6. KeysKept /\ NewKeysOK
    BY <2>4, StillKeys DEF Still
  <2>7. l \notin Holding
    BY DEF Holding
  <2>8. Rest /\ disturbed' \in BOOLEAN
    BY <1>1, <2>4 DEF Still
  <2>9. Allowed(r, l, JobOf(k, job[r].at, job[r].due))
    BY <2>3
  <2> QED
    BY <1>0, <2>4, <2>5, <2>6, <2>7, <2>8, <2>9, MoveTInv
<1>5. CASE GenerateKey(r)
  <2>1. NewKeysOK
    BY <1>0, <1>5, GenerateKeyDoes, NewKeyOK
  <2> QED
    BY <1>0, <1>1, <1>2, <1>5, <2>1, GenerateKeyDoes, MoveTInv DEF GoesDown, Holding
<1>6. CASE FindByKid(r)
  <2>1. job[r].kid # None
    BY <1>0, <1>6 DEF FindByKid, TInv, LocalsInv
  <2>2. \A l \in {"withdraw", "delete"} : Allowed(r, l, job[r])
    BY <1>0, <2>1 DEF Allowed, Calling
  <2> QED
    BY <1>0, <1>1, <1>2, <1>6, <2>2, FindByKidDoes, StillKeys, MoveTInv DEF Still, GoesDown, Holding
<1>7. CASE RetireKey(r)
  <2>1. NewKeysOK
    BY <1>7, RetireKeyDoes, NoNewKeys DEF Changes, TInv
  <2> QED
    BY <1>0, <1>2, <1>7, <2>1, RetireKeyDoes, MoveTInv DEF GoesDown, Holding
<1>8. CASE DeleteKey(r)
  <2>1. NewKeysOK
    BY <1>8, DeleteKeyDoes, NoNewKeys DEF Changes, TInv
  <2> QED
    BY <1>0, <1>1, <1>2, <1>8, <2>1, DeleteKeyDoes, MoveTInv DEF GoesDown, Holding
<1>9. CASE CallDropped(r)
  BY <1>0, <1>1, <1>2, <1>9, CallDroppedDoes, StillKeys, MoveTInv DEF Still, GoesDown, Holding
<1> QED
  BY <1>3, <1>4, <1>5, <1>6, <1>7, <1>8, <1>9

LEMMA NextTInv == TInv /\ [Next]_vars => TInv'
<1> SUFFICES ASSUME TInv, [Next]_vars
             PROVE  TInv'
  OBVIOUS
<1>1. CASE UNCHANGED vars
  BY <1>1 DEF vars, TInv, TypeOK, PlacesInv, LocalsInv, KeyInv, Kids
<1>2. CASE Tick
  BY <1>2, TickTInv
<1>3. ASSUME NEW i \in Instances, Start(i) \/ Task(i) \/ CheckFails(i) \/ Crash(i) \/ Sign(i)
      PROVE  TInv'
  BY <1>3, SignTInv, InstanceTInv
<1>4. ASSUME NEW r \in Requests,
             \/ CallGenerate(r) \/ \E k \in Kids : CallRetire(r, k) \/ CallDelete(r, k)
             \/ GenerateKey(r) \/ FindByKid(r) \/ RetireKey(r) \/ DeleteKey(r) \/ CallDropped(r)
      PROVE  TInv'
  BY <1>4, RequestTInv
<1> QED
  BY <1>1, <1>2, <1>3, <1>4 DEF Next

\* The table, the lock and the calls are as declared, the holder of the lock is
\* the instance between GET_LOCK and RELEASE_LOCK, and every kid that a call or
\* a token names is that of a key there was.
THEOREM TypeCorrect == Spec => []TypeOK
<1>1. TInv => TypeOK
  BY DEF TInv
<1> QED
  BY <1>1, InitTInv, NextTInv, PTL DEF Spec
-----------------------------------------------------------------------------
(* One bootstrap key.                                                       *)

Boots(k) == keys[k].boot /\ keys[k].status = "ACTIVE"

LEMMA InitBootInv == Init => BootInv
<1> SUFFICES ASSUME Init
             PROVE  BootInv
  OBVIOUS
<1>1. \A i \in Instances : pc[i] # "first"
  BY DEF Init, Actors
<1>2. \A k, q \in Kids : k = q
  <2>1. CASE keys = <<>>
    BY <2>1 DEF Kids
  <2>2. ASSUME NEW age \in 0..Validity, keys = <<NewKey(-age, TRUE)>>
        PROVE  \A k, q \in Kids : k = q
    <3>1. Kids = {1}
      BY <2>2 DEF Kids
    <3> QED
      BY <3>1
  <2> QED
    BY <2>1, <2>2 DEF Init
<1> QED
  BY <1>1, <1>2 DEF BootInv, OneBootstrapKey

\* A step that adds no bootstrap key, and after which nobody is newly about to.
LEMMA NoBoot ==
    ASSUME TInv, BootInv, KeysKept,
           \A k \in 1..Len(keys') : k \notin Kids => ~keys'[k].boot,
           \A i \in Instances : pc'[i] = "first" => pc[i] = "first" \/ ~SomeActive
    PROVE  BootInv'
<1>1. \A k \in 1..Len(keys') : keys'[k].boot /\ keys'[k].status = "ACTIVE" => k \in Kids /\ Boots(k)
  BY DEF KeysKept, Boots
<1>2. OneBootstrapKey'
  BY <1>1 DEF BootInv, OneBootstrapKey, Kids, Boots
<1>3. ASSUME NEW i \in Instances, pc'[i] = "first", NEW k \in 1..Len(keys')
      PROVE  ~(keys'[k].boot /\ keys'[k].status = "ACTIVE")
  BY <1>1, <1>3 DEF BootInv, Boots, SomeActive
<1> QED
  BY <1>2, <1>3 DEF BootInv, Kids

\* A step that adds no key.
LEMMA SameBoot ==
    ASSUME TInv, BootInv, KeysKept, Len(keys') = Len(keys),
           \A i \in Instances : pc'[i] = "first" => pc[i] = "first" \/ ~SomeActive
    PROVE  BootInv'
BY NoBoot DEF Kids

\* A step that adds a key of the rotation or of an administrator.
LEMMA OtherBoot ==
    ASSUME TInv, BootInv, KeysKept, NEW at, Appends(at, FALSE),
           \A i \in Instances : pc'[i] = "first" => pc[i] = "first"
    PROVE  BootInv'
<1>1. ~NewKey(at, FALSE).boot
  BY DEF NewKey
<1>2. Len(keys) \in Nat
  BY KeysTyped
<1>3. \A k \in 1..Len(keys') : k \notin Kids => k = Len(keys) + 1
  BY <1>2 DEF Appends, Kids
<1> QED
  BY <1>1, <1>3, NoBoot DEF Appends

\* Actor a moves, and not to the insertion of the first key.
LEMMA NotFirst ==
    ASSUME NEW a \in Actors, NEW l, NEW j, Move(a, l, j), l # "first"
    PROVE  \A i \in Instances : pc'[i] = "first" => pc[i] = "first"
BY DEF Move, Actors

LEMMA FirstBoot ==
    ASSUME TInv, BootInv, NEW i \in Instances, InsertIfNoActive(i)
    PROVE  BootInv'
<1>1. CASE pc[i] = "recheck" /\ keys' = keys /\ Move(i, "release", job[i])
  BY <1>1, NotFirst, StillKeys, SameBoot DEF Actors
<1>2. CASE pc[i] = "recheck" /\ ~SomeActive /\ keys' = keys /\ Move(i, "first", job[i])
  BY <1>2, StillKeys, SameBoot
<1>3. CASE pc[i] = "first" /\ KeysKept /\ Appends(job[i].at, TRUE) /\ Move(i, "release", job[i])
  <2>0. Len(keys) \in Nat
    BY KeysTyped
  <2>1. \A k \in 1..Len(keys') : keys'[k].boot /\ keys'[k].status = "ACTIVE" => k = Len(keys) + 1
    <3> SUFFICES ASSUME NEW k \in 1..Len(keys'), k # Len(keys) + 1
                 PROVE  ~(keys'[k].boot /\ keys'[k].status = "ACTIVE")
      OBVIOUS
    <3>1. k \in Kids
      BY <1>3, <2>0 DEF Appends, Kids
    <3> QED
      BY <1>3, <3>1 DEF BootInv, Appends
  <2>2. ASSUME NEW q \in Instances
        PROVE  pc'[q] # "first"
    <3>1. lock = i
      BY <1>3 DEF TInv, TypeOK
    <3>2. q # i => pc[q] # "first"
      BY <3>1 DEF TInv, TypeOK
    <3> QED
      BY <1>3, <3>2 DEF Move, Actors
  <2> QED
    BY <2>1, <2>2 DEF BootInv, OneBootstrapKey, Kids
<1> QED
  BY <1>1, <1>2, <1>3, InsertIfNoActiveDoes

LEMMA NextBootInv == TInv /\ BootInv /\ [Next]_vars => BootInv'
<1> SUFFICES ASSUME TInv, BootInv, [Next]_vars
             PROVE  BootInv'
  OBVIOUS
<1>1. CASE keys' = keys /\ pc' = pc
  BY <1>1, StillKeys, SameBoot
<1>2. ASSUME NEW i \in Instances, Start(i) \/ Task(i) \/ CheckFails(i) \/ Crash(i) \/ Sign(i)
      PROVE  BootInv'
  <2>0. i \in Actors
    BY DEF Actors
  <2>1. CASE Start(i)
    BY <2>0, <2>1, StartDoes, NotFirst, StillKeys, SameBoot DEF Still
  <2>2. CASE FindAtStart(i)
    BY <2>0, <2>2, FindAtStartDoes, NotFirst, StillKeys, SameBoot DEF Still, GoesUp
  <2>3. CASE GetLock(i)
    BY <2>0, <2>3, GetLockDoes, NotFirst, StillKeys, SameBoot DEF Still, GoesDown
  <2>4. CASE InsertIfNoActive(i)
    BY <2>4, FirstBoot
  <2>5. CASE ReleaseLock(i)
    BY <2>0, <2>5, ReleaseLockDoes, NotFirst, StillKeys, SameBoot DEF Still, GoesUp
  <2>6. CASE Wake(i)
    BY <2>0, <2>6, WakeDoes, NotFirst, StillKeys, SameBoot DEF Still
  <2>7. CASE Check(i)
    BY <2>0, <2>7, CheckDoes, NotFirst, StillKeys, SameBoot DEF Still, Sleeps
  <2>8. CASE InsertNew(i)
    BY <2>0, <2>8, InsertNewDoes, NotFirst, OtherBoot DEF Sleeps
  <2>9. CASE RetireOld(i)
    BY <2>0, <2>9, RetireOldDoes, NotFirst, SameBoot DEF Sleeps, Changes
  <2>10. CASE CheckFails(i)
    BY <2>0, <2>10, CheckFailsDoes, NotFirst, StillKeys, SameBoot DEF Sleeps
  <2>11. CASE Crash(i)
    BY <2>0, <2>11, CrashDoes, NotFirst, StillKeys, SameBoot DEF GoesDown
  <2>12. CASE Sign(i)
    BY <1>1, <2>12, SignDoes
  <2> QED
    BY <1>2, <2>1, <2>2, <2>3, <2>4, <2>5, <2>6, <2>7, <2>8, <2>9, <2>10, <2>11, <2>12 DEF Task
<1>3. ASSUME NEW r \in Requests,
             \/ CallGenerate(r) \/ \E k \in Kids : CallRetire(r, k) \/ CallDelete(r, k)
             \/ GenerateKey(r) \/ FindByKid(r) \/ RetireKey(r) \/ DeleteKey(r) \/ CallDropped(r)
      PROVE  BootInv'
  <2>0. r \in Actors
    BY DEF Actors
  <2>1. CASE CallGenerate(r)
    BY <2>0, <2>1, CallGenerateDoes, NotFirst, StillKeys, SameBoot DEF Still
  <2>2. ASSUME NEW k \in Kids, CallRetire(r, k)
        PROVE  BootInv'
    BY <2>0, <2>2, CallRetireDoes, NotFirst, StillKeys, SameBoot DEF Still
  <2>3. ASSUME NEW k \in Kids, CallDelete(r, k)
        PROVE  BootInv'
    BY <2>0, <2>3, CallDeleteDoes, NotFirst, StillKeys, SameBoot DEF Still
  <2>4. CASE GenerateKey(r)
    BY <2>0, <2>4, GenerateKeyDoes, NotFirst, OtherBoot DEF GoesDown
  <2>5. CASE FindByKid(r)
    BY <2>0, <2>5, FindByKidDoes, NotFirst, StillKeys, SameBoot DEF Still, GoesDown
  <2>6. CASE RetireKey(r)
    BY <2>0, <2>6, RetireKeyDoes, NotFirst, SameBoot DEF GoesDown, Changes
  <2>7. CASE DeleteKey(r)
    BY <2>0, <2>7, DeleteKeyDoes, NotFirst, SameBoot DEF GoesDown, Changes
  <2>8. CASE CallDropped(r)
    BY <2>0, <2>8, CallDroppedDoes, NotFirst, StillKeys, SameBoot DEF Still, GoesDown
  <2> QED
    BY <1>3, <2>1, <2>2, <2>3, <2>4, <2>5, <2>6, <2>7, <2>8
<1>4. CASE Tick
  BY <1>1, <1>4 DEF Tick
<1>5. CASE UNCHANGED vars
  BY <1>1, <1>5 DEF vars
<1> QED
  BY <1>2, <1>3, <1>4, <1>5 DEF Next

\* However many instances start together, and whichever of them crash on the
\* way, they make one key: the second look under the lock sees the key of the
\* instance that held it before.
THEOREM OneKeyAtBootstrap == Spec => []OneBootstrapKey
<1>1. BootInv => OneBootstrapKey
  BY DEF BootInv
<1> QED
  BY <1>1, InitTInv, NextTInv, InitBootInv, NextBootInv, PTL DEF Spec
-----------------------------------------------------------------------------
(* The tasks.                                                               *)

\* What TaskInv asks of an actor that goes to l with locals j.
TaskOK(a, l, j) ==
    /\ a \in Instances =>
          /\ l = "idle" => now <= j.due /\ j.due <= now + Interval
          /\ l \in Checking => j.at = now
          /\ l \in {"insert", "retire"} /\ j.kid # None => keys[j.kid].until <= now + Lead
    /\ a \in Requests => (l = "delete" => keys[j.kid].status # "ACTIVE")

LEMMA TaskHolds ==
    ASSUME TaskInv, NEW a \in Actors
    PROVE  TaskOK(a, pc[a], job[a])
BY DEF TaskInv, TaskOK, Actors

LEMMA TaskKept ==
    ASSUME TInv, TaskInv, KeysKept, now' = now,
           NEW a \in Actors, NEW l, NEW j, Move(a, l, j), Allowed(a, l, j), TaskOK(a, l, j)
    PROVE  TaskInv'
<1>1. ASSUME NEW i \in Instances
      PROVE  /\ pc'[i] = "idle" => now <= job'[i].due /\ job'[i].due <= now + Interval
             /\ pc'[i] \in Checking => job'[i].at = now
             /\ pc'[i] \in {"insert", "retire"} /\ job'[i].kid # None => keys'[job'[i].kid].until <= now + Lead
  <2>1. CASE i = a
    BY <2>1 DEF TaskOK, Move, Allowed, KeysKept
  <2>2. CASE i # a
    <3>1. pc'[i] = pc[i] /\ job'[i] = job[i] /\ i \in Actors
      BY <2>2 DEF Move, Actors
    <3>2. job[i].kid \in Kids \cup {None}
      BY <3>1 DEF TInv, LocalsInv
    <3>3. job[i].kid # None => keys'[job[i].kid].until = keys[job[i].kid].until
      BY <3>2 DEF KeysKept
    <3> QED
      BY <3>1, <3>3 DEF TaskInv
  <2> QED
    BY <2>1, <2>2
<1>2. ASSUME NEW r \in Requests, pc'[r] = "delete"
      PROVE  keys'[job'[r].kid].status # "ACTIVE"
  <2>1. CASE r = a
    <3>1. j.kid \in Kids /\ keys[j.kid].status # "ACTIVE" /\ job'[r] = j
      BY <1>2, <2>1 DEF TaskOK, Move, Allowed, Keyed
    <3> QED
      BY <3>1 DEF KeysKept
  <2>2. CASE r # a
    <3>1. pc'[r] = pc[r] /\ job'[r] = job[r] /\ r \in Actors
      BY <2>2 DEF Move, Actors
    <3>2. job[r].kid \in Kids
      BY <1>2, <3>1 DEF TInv, LocalsInv
    <3> QED
      BY <1>2, <3>1, <3>2 DEF TaskInv, KeysKept
  <2> QED
    BY <2>1, <2>2
<1> QED
  BY <1>1, <1>2 DEF TaskInv

LEMMA InitTaskInv == Init => TaskInv
BY DEF Init, TaskInv, Actors, Checking

\* Every step but a tick leaves the clock; a signature moves nobody.  The others
\* are a move whose place and locals TaskInv allows.
LEMMA InstanceTask ==
    ASSUME TInv, TaskInv, NEW i \in Instances, Start(i) \/ Task(i) \/ CheckFails(i) \/ Crash(i)
    PROVE  TaskInv'
<1>0. /\ i \in Actors /\ i \notin Requests /\ now \in Int /\ now >= 0 /\ now + Interval \in Int
      /\ job[i].at \in Int /\ job[i].due \in Int /\ job[i].kid \in Kids \cup {None}
      /\ 0 <= job[i].at /\ job[i].at <= now
  <2>1. i \in Actors /\ i \notin Requests
    BY KeysAssumption DEF Actors
  <2> QED
    BY <2>1, LocalFacts
<1>1. /\ Allowed(i, "idle", JobOf(None, 0, now)) /\ Allowed(i, "idle", JobOf(None, 0, now + Interval))
      /\ Allowed(i, "down", JobOf(None, 0, 0))
  BY <1>0, AllowedSleeps
<1>2. /\ TaskOK(i, "idle", JobOf(None, 0, now)) /\ TaskOK(i, "idle", JobOf(None, 0, now + Interval))
      /\ TaskOK(i, "down", JobOf(None, 0, 0))
  <2>1. JobOf(None, 0, now).due = now /\ JobOf(None, 0, now + Interval).due = now + Interval
    BY DEF JobOf
  <2> QED
    BY <1>0, <2>1, KeysAssumption DEF TaskOK, Checking
<1>3. \A l \in {"boot", "recheck", "first", "release"} : Allowed(i, l, job[i]) /\ TaskOK(i, l, job[i])
  BY <1>0 DEF Allowed, TaskOK, Booting, Checking, Keyed
<1>4. ASSUME NEW l \in {"lock", "check"}
      PROVE  Allowed(i, l, JobOf(job[i].kid, now, job[i].due)) /\ TaskOK(i, l, JobOf(job[i].kid, now, job[i].due))
  <2> DEFINE j == JobOf(job[i].kid, now, job[i].due)
  <2>1. j.kid = job[i].kid /\ j.at = now
    BY DEF JobOf
  <2>2. l \in Booting \cup Checking /\ l \notin Keyed /\ l \notin {"idle", "insert", "retire"}
    BY DEF Booting, Checking, Keyed
  <2> HIDE DEF j
  <2>3. Allowed(i, l, j) /\ TaskOK(i, l, j)
    BY <1>0, <2>1, <2>2 DEF Allowed, TaskOK
  <2> QED
    BY <2>3 DEF j
<1>5. CASE Start(i)
  BY <1>0, <1>3, <1>5, StartDoes, StillKeys, TaskKept DEF Still, Rest
<1>6. CASE FindAtStart(i)
  BY <1>0, <1>1, <1>2, <1>4, <1>6, FindAtStartDoes, StillKeys, TaskKept DEF Still, Rest, GoesUp
<1>7. CASE GetLock(i)
  BY <1>0, <1>1, <1>2, <1>3, <1>7, GetLockDoes, StillKeys, TaskKept DEF Still, Rest, GoesDown
<1>8. CASE InsertIfNoActive(i)
  BY <1>0, <1>3, <1>8, InsertIfNoActiveDoes, StillKeys, TaskKept DEF Rest
<1>9. CASE ReleaseLock(i)
  BY <1>0, <1>1, <1>2, <1>9, ReleaseLockDoes, StillKeys, TaskKept DEF Still, Rest, GoesUp
<1>10. CASE Wake(i)
  BY <1>0, <1>4, <1>10, WakeDoes, StillKeys, TaskKept DEF Still, Rest
<1>11. CASE Check(i)
  <2>0. Still /\ KeysKept /\ now' = now /\ pc[i] = "check"
    BY <1>11, CheckDoes, StillKeys DEF Still, Rest
  <2>1. CASE Sleeps(i)
    BY <1>0, <1>1, <1>2, <2>0, <2>1, TaskKept DEF Sleeps
  <2>2. ASSUME NEW k \in FindActive \cup {None}, Move(i, "insert", JobOf(k, now, job[i].due)),
               k # None => ~EnoughLeft(k, job[i].at)
        PROVE  TaskInv'
    <3> DEFINE j == JobOf(k, now, job[i].due)
    <3>1. j.kid = k /\ j.at = now
      BY DEF JobOf
    <3>2. k \in Kids \cup {None}
      BY DEF FindActive, Usable
    <3>3. job[i].at = now
      BY <2>0 DEF TaskInv, Checking
    <3>4. k # None => keys[k].until <= now + Lead
      BY <1>0, <2>2, <3>2, <3>3, KeysTyped, KeysAssumption DEF EnoughLeft
    <3> HIDE DEF j
    <3>5. Allowed(i, "insert", j) /\ TaskOK(i, "insert", j)
      BY <1>0, <3>1, <3>2, <3>4 DEF Allowed, TaskOK, Checking, Keyed
    <3>6. Move(i, "insert", j)
      BY <2>2 DEF j
    <3> QED
      BY <1>0, <2>0, <3>5, <3>6, TaskKept
  <2> QED
    BY <1>11, <2>1, <2>2, CheckDoes
<1>12. CASE InsertNew(i)
  <2>1. job[i].kid # None => Allowed(i, "retire", job[i]) /\ TaskOK(i, "retire", job[i])
    <3>1. TaskOK(i, "insert", job[i])
      BY <1>0, <1>12, TaskHolds, InsertNewDoes
    <3> QED
      BY <1>0, <3>1 DEF Allowed, TaskOK, Checking
  <2> QED
    BY <1>0, <1>1, <1>2, <1>12, <2>1, InsertNewDoes, TaskKept DEF Rest, Sleeps
<1>13. CASE RetireOld(i)
  BY <1>0, <1>1, <1>2, <1>13, RetireOldDoes, TaskKept DEF Rest, Sleeps
<1>14. CASE CheckFails(i)
  BY <1>0, <1>1, <1>2, <1>14, CheckFailsDoes, StillKeys, TaskKept DEF Rest, Sleeps
<1>15. CASE Crash(i)
  BY <1>0, <1>1, <1>2, <1>15, CrashDoes, StillKeys, TaskKept DEF Rest, GoesDown
<1> QED
  BY <1>5, <1>6, <1>7, <1>8, <1>9, <1>10, <1>11, <1>12, <1>13, <1>14, <1>15 DEF Task

LEMMA RequestTask ==
    ASSUME TInv, TaskInv, NEW r \in Requests,
           \/ CallGenerate(r) \/ \E k \in Kids : CallRetire(r, k) \/ CallDelete(r, k)
           \/ GenerateKey(r) \/ FindByKid(r) \/ RetireKey(r) \/ DeleteKey(r) \/ CallDropped(r)
    PROVE  TaskInv'
<1>0. r \in Actors /\ r \notin Instances
  BY KeysAssumption DEF Actors
<1>1. Allowed(r, "ended", JobOf(None, 0, 0))
  BY AllowedSleeps
<1>2. \A l : l # "delete" => \A j : TaskOK(r, l, j)
  BY <1>0 DEF TaskOK
<1>3. ASSUME NEW l, NEW j, l \in {"new", "ended"} \cup Calling, j.kid \in Kids \cup {None}, j.at \in Int,
             0 <= j.at, j.at <= now, l \in Keyed => j.kid # None
      PROVE  Allowed(r, l, j)
  BY <1>0, <1>3 DEF Allowed
<1>4. /\ now \in Int /\ now >= 0 /\ job[r].at \in Int /\ 0 <= job[r].at /\ job[r].at <= now
      /\ job[r].kid \in Kids \cup {None}
  BY <1>0, LocalFacts
<1>5. CASE CallGenerate(r)
  <2> DEFINE j == JobOf(job[r].kid, now, job[r].due)
  <2>1. j.kid = job[r].kid /\ j.at = now
    BY DEF JobOf
  <2>2. "generate" \in Calling /\ "generate" \notin Keyed
    BY DEF Calling, Keyed
  <2>3. Still /\ Move(r, "generate", j)
    BY <1>5, CallGenerateDoes
  <2> HIDE DEF j
  <2>4. Allowed(r, "generate", j)
    BY <1>3, <1>4, <2>1, <2>2
  <2> QED
    BY <1>0, <1>2, <2>3, <2>4, StillKeys, TaskKept DEF Still, Rest
<1>6. ASSUME NEW k \in Kids, CallRetire(r, k) \/ CallDelete(r, k)
      PROVE  TaskInv'
  <2> DEFINE j == JobOf(k, job[r].at, job[r].due)
  <2>1. j.kid = k /\ j.at = job[r].at
    BY DEF JobOf
  <2>2. k # None
    BY KeysAssumption, KeysTyped DEF Kids
  <2>3. PICK l \in {"find ACTIVE", "find RETIRED"} : Still /\ Move(r, l, j)
    BY <1>6, CallRetireDoes, CallDeleteDoes
  <2>4. l \in Calling /\ l # "delete"
    BY DEF Calling
  <2> HIDE DEF j
  <2>5. Allowed(r, l, j)
    BY <1>3, <1>4, <2>1, <2>2, <2>4
  <2>6. KeysKept /\ now' = now
    BY <2>3, StillKeys DEF Still, Rest
  <2>7. TaskOK(r, l, j)
    BY <1>2, <2>4
  <2> QED
    BY <1>0, <2>3, <2>5, <2>6, <2>7, TaskKept
<1>7. CASE GenerateKey(r)
  BY <1>0, <1>1, <1>2, <1>7, GenerateKeyDoes, TaskKept DEF Rest, GoesDown
<1>8. CASE FindByKid(r)
  <2>1. job[r].kid # None
    BY <1>0, <1>8 DEF FindByKid, TInv, LocalsInv
  <2>2. Allowed(r, "withdraw", job[r]) /\ Allowed(r, "delete", job[r])
    BY <1>3, <1>4, <2>1 DEF Calling
  <2>3. keys[job[r].kid].status = "RETIRED" => TaskOK(r, "delete", job[r])
    BY <1>0 DEF TaskOK
  <2> QED
    BY <1>0, <1>1, <1>2, <1>8, <2>2, <2>3, FindByKidDoes, StillKeys, TaskKept DEF Still, Rest, GoesDown
<1>9. CASE RetireKey(r)
  BY <1>0, <1>1, <1>2, <1>9, RetireKeyDoes, TaskKept DEF Rest, GoesDown
<1>10. CASE DeleteKey(r)
  BY <1>0, <1>1, <1>2, <1>10, DeleteKeyDoes, TaskKept DEF Rest, GoesDown
<1>11. CASE CallDropped(r)
  BY <1>0, <1>1, <1>2, <1>11, CallDroppedDoes, StillKeys, TaskKept DEF Still, Rest, GoesDown
<1> QED
  BY <1>5, <1>6, <1>7, <1>8, <1>9, <1>10, <1>11

LEMMA TickTask ==
    ASSUME TInv, TaskInv, Tick
    PROVE  TaskInv'
<1>0. now \in Int /\ now' = now + 1 /\ Interval \in Int
  BY KeysTyped, KeysAssumption DEF Tick
<1>1. ASSUME NEW i \in Instances
      PROVE  pc[i] \notin Checking /\ (pc[i] = "idle" => now + 1 <= job[i].due /\ job[i].due <= now + 1 + Interval)
  <2>1. pc[i] \notin Checking /\ (pc[i] = "idle" => job[i].due > now /\ job[i].due <= now + Interval)
    BY DEF Tick, TaskInv
  <2>2. job[i].due \in Int
    BY KeysTyped DEF Actors
  <2> QED
    BY <1>0, <2>1, <2>2
<1>2. \A i \in Instances : pc[i] \notin {"insert", "retire"}
  BY <1>1 DEF Checking
<1> QED
  BY <1>0, <1>1, <1>2 DEF Tick, TaskInv

LEMMA NextTaskInv == TInv /\ TaskInv /\ [Next]_vars => TaskInv'
<1> SUFFICES ASSUME TInv, TaskInv, [Next]_vars
             PROVE  TaskInv'
  OBVIOUS
<1>1. CASE UNCHANGED vars
  BY <1>1 DEF vars, TaskInv
<1>2. ASSUME NEW i \in Instances, Sign(i)
      PROVE  TaskInv'
  BY <1>2 DEF Sign, TaskInv
<1>3. ASSUME NEW i \in Instances, Start(i) \/ Task(i) \/ CheckFails(i) \/ Crash(i)
      PROVE  TaskInv'
  BY <1>3, InstanceTask
<1>4. ASSUME NEW r \in Requests,
             \/ CallGenerate(r) \/ \E k \in Kids : CallRetire(r, k) \/ CallDelete(r, k)
             \/ GenerateKey(r) \/ FindByKid(r) \/ RetireKey(r) \/ DeleteKey(r) \/ CallDropped(r)
      PROVE  TaskInv'
  BY <1>4, RequestTask
<1> QED
  BY <1>1, <1>2, <1>3, <1>4, TickTask DEF Next
-----------------------------------------------------------------------------
(* There is a key to sign with.                                             *)

\* Lasts, after the step.
LastsNext(n) == \E k \in 1..Len(keys') : keys'[k].status = "ACTIVE" /\ keys'[k].until > n

\* No key goes out of use.
NoLoss == \A k \in Kids : keys[k].status = "ACTIVE" => keys'[k].status = "ACTIVE"

LEMMA LastsOn ==
    ASSUME TInv, KeysKept, NoLoss, NEW m \in Int, NEW n \in Int, Lasts(m), n <= m
    PROVE  LastsNext(n)
<1>1. PICK k \in Kids : keys[k].status = "ACTIVE" /\ keys[k].until > m
  BY DEF Lasts
<1>2. keys[k].until \in Int
  BY KeysTyped
<1> QED
  BY <1>1, <1>2 DEF LastsNext, NoLoss, KeysKept

LEMMA LastsByNew ==
    ASSUME TInv, KeysKept, NEW at \in Int, NEW boot \in BOOLEAN, Appends(at, boot), NEW n \in Int, n < at + Validity
    PROVE  LastsNext(n)
<1>1. NewKey(at, boot).status = "ACTIVE" /\ NewKey(at, boot).until = at + Validity
  BY DEF NewKey
<1>2. Len(keys) + 1 \in 1..Len(keys')
  BY KeysTyped DEF Appends
<1> QED
  BY <1>1, <1>2 DEF LastsNext, Appends

LEMMA StillNoLoss ==
    ASSUME TInv, keys' = keys
    PROVE  NoLoss
BY DEF NoLoss

LEMMA AppendNoLoss ==
    ASSUME TInv, NEW at, NEW boot, Appends(at, boot)
    PROVE  NoLoss
BY DEF NoLoss, Appends

Awake == {"idle"} \cup Checking

\* Before the service is up: a step of an instance that starts.
LEMMA StaysDown ==
    ASSUME TInv, NotYetUp, KeysKept, NewKeysOK, NoLoss, now' = now,
           NEW a \in Actors, NEW l, NEW j, Move(a, l, j),
           a \in Instances => l \notin Awake,
           a \in Instances /\ l = "release" => LastsNext(Lead)
    PROVE  NotYetUp'
<1>1. \A i \in Instances : pc'[i] \notin Awake
  BY DEF NotYetUp, Serving, Awake, Move, Actors
<1>2. \A k \in 1..Len(keys') : keys'[k].until > Lead
  <2> SUFFICES ASSUME NEW k \in 1..Len(keys')
               PROVE  keys'[k].until > Lead
    OBVIOUS
  <2>1. CASE k \in Kids
    BY <2>1 DEF KeysKept, NotYetUp
  <2>2. CASE k \notin Kids
    <3>1. keys'[k] \in Key
      BY DEF KeysKept
    <3>2. keys'[k].from \in Int
      BY <3>1 DEF Key
    <3> QED
      BY <2>2, <3>2, KeysAssumption DEF NewKeysOK
  <2> QED
    BY <2>1, <2>2
<1>3. ASSUME NEW i \in Instances, pc'[i] = "release"
      PROVE  LastsNext(Lead)
  <2>1. CASE i = a
    BY <1>3, <2>1 DEF Move
  <2>2. CASE i # a
    <3>1. Lasts(Lead)
      BY <1>3, <2>2 DEF Move, Actors, NotYetUp
    <3> QED
      BY <3>1, LastsOn, KeysAssumption
  <2> QED
    BY <2>1, <2>2
<1> QED
  BY <1>1, <1>2, <1>3 DEF NotYetUp, Serving, Awake, Lasts, LastsNext, Kids

\* The first instance comes up.
LEMMA FirstUp ==
    ASSUME TInv, NotYetUp, keys' = keys, now' = now, NEW i \in Instances, GoesUp(i), Lasts(Lead)
    PROVE  KeptUp'
<1>0. i \in Actors /\ now = 0 /\ Lead \in Int /\ Interval \in Int /\ Interval > 0 /\ Lead - Interval \in Int
  BY KeysAssumption DEF Actors, NotYetUp
<1>1. pc'[i] = "idle" /\ job'[i].due = 0
  BY <1>0 DEF GoesUp, Move, JobOf
<1>2. \A q \in Instances \ {i} : pc'[q] \notin Awake
  BY DEF GoesUp, Move, Actors, NotYetUp, Serving, Awake
<1>3. LastsNext(0 + Lead - Interval)
  BY <1>0, StillKeys, StillNoLoss, LastsOn
<1>4. \A q \in Instances : /\ pc'[q] = "idle" => job'[q].due = 0
                           /\ pc'[q] # "retire"
  BY <1>1, <1>2 DEF Awake, Checking
<1> QED
  BY <1>0, <1>1, <1>3, <1>4 DEF KeptUp, Serving, Lasts, LastsNext, Kids

\* The service is up, and stays so.
LEMMA StaysUp ==
    ASSUME TInv, TaskInv, KeptUp, KeysKept, NoLoss, now' = now,
           NEW a \in Actors, NEW l, NEW j, Move(a, l, j),
           a \in Instances /\ pc[a] \in Awake => l \in Awake,
           a \in Instances /\ l = "idle" => LastsNext(j.due + Lead - Interval),
           a \in Instances /\ l = "retire" => LastsNext(now + Lead)
    PROVE  KeptUp'
<1>0. now \in Int /\ Lead \in Int /\ Interval \in Int /\ now + Lead \in Int /\ now + Lead - Interval \in Int
  BY KeysTyped, KeysAssumption
<1>1. \E i \in Instances : pc'[i] \in Awake
  BY DEF KeptUp, Serving, Awake, Move, Actors
<1>2. LastsNext(now + Lead - Interval)
  BY <1>0, LastsOn DEF KeptUp
<1>3. ASSUME NEW i \in Instances, pc'[i] = "idle"
      PROVE  LastsNext(job'[i].due + Lead - Interval)
  <2>1. CASE i = a
    BY <1>3, <2>1 DEF Move
  <2>2. CASE i # a
    <3>1. pc[i] = "idle" /\ job'[i] = job[i]
      BY <1>3, <2>2 DEF Move, Actors
    <3>2. job[i].due + Lead - Interval \in Int
      BY <1>0, KeysTyped DEF Actors
    <3> QED
      BY <3>1, <3>2, LastsOn DEF KeptUp
  <2> QED
    BY <2>1, <2>2
<1>4. ASSUME NEW i \in Instances, pc'[i] = "retire"
      PROVE  LastsNext(now + Lead)
  <2>1. CASE i = a
    BY <1>4, <2>1 DEF Move
  <2>2. CASE i # a
    BY <1>0, <1>4, <2>2, LastsOn DEF Move, Actors, KeptUp
  <2> QED
    BY <2>1, <2>2
<1> QED
  BY <1>1, <1>2, <1>3, <1>4 DEF KeptUp, Serving, Awake, Lasts, LastsNext, Kids

\* A step of an actor that is not awake before and not up, retiring or about to
\* release the lock after it, and takes no key out of use.
LEMMA Aside ==
    ASSUME TInv, TaskInv, LeadInv, KeysKept, NewKeysOK, NoLoss, now' = now, disturbed' = disturbed,
           NEW a \in Actors, NEW l, NEW j, Move(a, l, j),
           a \in Instances => pc[a] \notin Awake /\ l \notin Awake \cup {"release"}
    PROVE  LeadInv'
<1> SUFFICES ASSUME ~disturbed
             PROVE  NotYetUp' \/ KeptUp'
  BY DEF LeadInv
<1>1. CASE NotYetUp
  BY <1>1, StaysDown
<1>2. CASE KeptUp
  <2>1. a \in Instances => l # "idle" /\ l # "retire"
    BY DEF Awake, Checking
  <2> QED
    BY <1>2, <2>1, StaysUp
<1> QED
  BY <1>1, <1>2 DEF LeadInv

\* A step of an instance that is awake, and stays awake.
LEMMA OnDuty ==
    ASSUME TInv, TaskInv, LeadInv, KeysKept, NoLoss, now' = now, disturbed' = disturbed,
           NEW i \in Instances, NEW l, NEW j, Move(i, l, j), pc[i] \in Awake, l \in Awake,
           ~disturbed /\ l = "idle" => LastsNext(j.due + Lead - Interval),
           ~disturbed /\ l = "retire" => LastsNext(now + Lead)
    PROVE  LeadInv'
<1> SUFFICES ASSUME ~disturbed
             PROVE  KeptUp'
  BY DEF LeadInv
<1>1. KeptUp
  BY DEF LeadInv, NotYetUp, Serving, Awake
<1> QED
  BY <1>1, StaysUp DEF Actors

\* An instance that starts comes up.
LEMMA UpLead ==
    ASSUME TInv, TaskInv, LeadInv, Still, NEW i \in Instances, GoesUp(i), pc[i] \notin Awake,
           NotYetUp => Lasts(Lead)
    PROVE  LeadInv'
<1> SUFFICES ASSUME ~disturbed
             PROVE  KeptUp'
  BY DEF LeadInv, Still
<1>1. CASE NotYetUp
  BY <1>1, FirstUp DEF Still, Rest
<1>2. CASE KeptUp
  <2>0. /\ now + Lead - Interval \in Int /\ Move(i, "idle", JobOf(None, 0, now)) /\ i \in Actors
        /\ JobOf(None, 0, now).due = now
    BY KeysTyped, KeysAssumption DEF GoesUp, Actors, JobOf
  <2>1. LastsNext(now + Lead - Interval)
    BY <1>2, <2>0, StillKeys, StillNoLoss, LastsOn DEF Still, KeptUp
  <2>2. KeysKept /\ NoLoss /\ now' = now
    BY StillKeys, StillNoLoss DEF Still, Rest
  <2> QED
    BY <1>2, <2>0, <2>1, <2>2, StaysUp DEF Awake
<1> QED
  BY <1>1, <1>2 DEF LeadInv

LEMMA FindAtStartLead ==
    ASSUME TInv, TaskInv, LeadInv, NEW i \in Instances, FindAtStart(i)
    PROVE  LeadInv'
<1>0. pc[i] \notin Awake /\ "lock" \notin Awake
  BY FindAtStartDoes DEF Awake, Checking
<1>1. CASE FindActive # {} /\ GoesUp(i)
  <2>1. NotYetUp => Lasts(Lead)
    BY <1>1 DEF FindActive, Usable, Lasts, NotYetUp
  <2> QED
    BY <1>0, <1>1, <2>1, UpLead, FindAtStartDoes
<1>2. CASE Move(i, "lock", JobOf(job[i].kid, now, job[i].due))
  BY <1>0, <1>2, FindAtStartDoes, StillKeys, StillNoLoss, Aside DEF Still, Rest, Actors
<1> QED
  BY <1>1, <1>2, FindAtStartDoes

LEMMA ReleaseLockLead ==
    ASSUME TInv, TaskInv, LeadInv, NEW i \in Instances, ReleaseLock(i)
    PROVE  LeadInv'
<1>0. pc[i] \notin Awake
  BY ReleaseLockDoes DEF Awake, Checking
<1>1. NotYetUp => Lasts(Lead)
  BY ReleaseLockDoes DEF NotYetUp
<1> QED
  BY <1>0, <1>1, UpLead, ReleaseLockDoes

LEMMA InsertIfNoActiveLead ==
    ASSUME TInv, TaskInv, LeadInv, NEW i \in Instances, InsertIfNoActive(i)
    PROVE  LeadInv'
<1>0. pc[i] \notin Awake /\ "release" \notin Awake /\ "first" \notin Awake \cup {"release"} /\ i \in Actors
  BY InsertIfNoActiveDoes DEF Awake, Checking, Actors
<1>1. now' = now /\ disturbed' = disturbed
  BY InsertIfNoActiveDoes DEF Rest
<1>2. ASSUME KeysKept, NewKeysOK, NoLoss, Move(i, "release", job[i]), NotYetUp => LastsNext(Lead)
      PROVE  LeadInv'
  <2> SUFFICES ASSUME ~disturbed
               PROVE  NotYetUp' \/ KeptUp'
    BY <1>1 DEF LeadInv
  <2>1. CASE NotYetUp
    BY <1>0, <1>1, <1>2, <2>1, StaysDown
  <2>2. CASE KeptUp
    BY <1>0, <1>1, <1>2, <2>2, StaysUp
  <2> QED
    BY <2>1, <2>2 DEF LeadInv
<1>3. CASE SomeActive /\ keys' = keys /\ Move(i, "release", job[i])
  <2>1. NotYetUp => LastsNext(Lead)
    BY <1>3 DEF SomeActive, NotYetUp, LastsNext, Kids
  <2> QED
    BY <1>2, <1>3, <2>1, StillKeys, StillNoLoss
<1>4. CASE keys' = keys /\ Move(i, "first", job[i])
  BY <1>0, <1>1, <1>4, StillKeys, StillNoLoss, Aside
<1>5. CASE KeysKept /\ Appends(job[i].at, TRUE) /\ Move(i, "release", job[i])
  <2>1. job[i].at \in Int /\ 0 <= job[i].at /\ job[i].at <= now
    BY <1>0, KeysTyped DEF TInv, LocalsInv
  <2>2. NewKeysOK
    BY <1>5, <2>1, NewKeyOK
  <2>3. Lead < job[i].at + Validity /\ Lead \in Int
    BY <2>1, KeysAssumption
  <2>4. LastsNext(Lead)
    BY <1>5, <2>1, <2>3, LastsByNew
  <2> QED
    BY <1>2, <1>5, <2>2, <2>4, AppendNoLoss
<1> QED
  BY <1>3, <1>4, <1>5, InsertIfNoActiveDoes

\* The instance has seen, or made, a key that has more than the lead left.
LEMMA SleepLead ==
    ASSUME TInv, TaskInv, LeadInv, KeysKept, NoLoss, now' = now, disturbed' = disturbed,
           NEW i \in Instances, Sleeps(i), pc[i] \in Awake, LastsNext(now + Lead)
    PROVE  LeadInv'
<1>1. JobOf(None, 0, now + Interval).due = now + Interval
  BY DEF JobOf
<1>2. now + Interval + Lead - Interval = now + Lead
  BY KeysTyped, KeysAssumption
<1>3. LastsNext(JobOf(None, 0, now + Interval).due + Lead - Interval)
  BY <1>1, <1>2
<1> QED
  BY <1>3, OnDuty DEF Sleeps, Awake

LEMMA CheckLead ==
    ASSUME TInv, TaskInv, LeadInv, NEW i \in Instances, Check(i)
    PROVE  LeadInv'
<1>0. /\ pc[i] \in Awake /\ "insert" \in Awake /\ now' = now /\ disturbed' = disturbed
      /\ KeysKept /\ NoLoss /\ keys' = keys
  BY CheckDoes, StillKeys, StillNoLoss DEF Still, Rest, Awake, Checking
<1>1. ASSUME Sleeps(i), NEW k \in FindActive, EnoughLeft(k, job[i].at)
      PROVE  LeadInv'
  <2>1. job[i].at = now
    BY CheckDoes DEF TaskInv, Checking
  <2>2. k \in Kids /\ keys[k].status = "ACTIVE" /\ keys[k].until \in Int
    BY KeysTyped DEF FindActive, Usable
  <2>3. keys[k].until > now + Lead
    BY <1>1, <2>1, <2>2, KeysTyped, KeysAssumption DEF EnoughLeft
  <2>4. LastsNext(now + Lead)
    BY <1>0, <2>2, <2>3 DEF LastsNext, Kids
  <2> QED
    BY <1>0, <1>1, <2>4, SleepLead
<1>2. ASSUME NEW j, Move(i, "insert", j)
      PROVE  LeadInv'
  BY <1>0, <1>2, OnDuty
<1> QED
  BY <1>1, <1>2, CheckDoes

LEMMA InsertNewLead ==
    ASSUME TInv, TaskInv, LeadInv, NEW i \in Instances, InsertNew(i)
    PROVE  LeadInv'
<1>0. /\ pc[i] \in Awake /\ "retire" \in Awake /\ now' = now /\ disturbed' = disturbed
      /\ KeysKept /\ NoLoss /\ Appends(job[i].at, FALSE)
  BY InsertNewDoes, AppendNoLoss DEF Rest, Awake, Checking
<1>1. job[i].at = now
  BY InsertNewDoes DEF TaskInv, Checking
<1>2. now \in Int /\ now + Lead \in Int /\ now + Lead < now + Validity
  BY KeysTyped, KeysAssumption
<1>3. LastsNext(now + Lead)
  BY <1>0, <1>1, <1>2, LastsByNew
<1>4. CASE Sleeps(i)
  BY <1>0, <1>3, <1>4, SleepLead
<1>5. CASE Move(i, "retire", job[i])
  BY <1>0, <1>3, <1>5, OnDuty
<1> QED
  BY <1>4, <1>5, InsertNewDoes

\* The key that is retired is not the one that lasts.
LEMMA RetireOldLead ==
    ASSUME TInv, TaskInv, LeadInv, NEW i \in Instances, RetireOld(i)
    PROVE  LeadInv'
<1>0. /\ pc[i] = "retire" /\ now' = now /\ disturbed' = disturbed /\ Sleeps(i) /\ KeysKept
      /\ job[i].kid \in Kids /\ (keys' = keys \/ Changes(job[i].kid, "RETIRED"))
  BY RetireOldDoes DEF Rest
<1>a. now \in Int /\ Lead \in Int /\ Interval \in Int /\ now + Lead \in Int /\ Interval > 0
  BY KeysTyped, KeysAssumption
<1> SUFFICES ASSUME ~disturbed
             PROVE  KeptUp'
  BY <1>0 DEF LeadInv
<1>1. KeptUp
  BY <1>0 DEF LeadInv, NotYetUp, Serving, Checking
<1>2. PICK k \in Kids : keys[k].status = "ACTIVE" /\ keys[k].until > now + Lead
  BY <1>0, <1>1 DEF KeptUp, Lasts
<1>3. job[i].kid # None /\ keys[job[i].kid].until <= now + Lead
  <2>1. job[i].kid # None
    BY <1>0, KeysAssumption, KeysTyped DEF Kids
  <2> QED
    BY <1>0, <2>1 DEF TaskInv
<1>4. keys[k].until \in Int /\ keys[job[i].kid].until \in Int
  BY <1>0, KeysTyped
<1>5. k # job[i].kid
  BY <1>a, <1>2, <1>3, <1>4
<1>6. k \in 1..Len(keys') /\ keys'[k].status = "ACTIVE" /\ keys'[k].until = keys[k].until
  BY <1>0, <1>2, <1>5 DEF KeysKept, Changes
<1>7. \A n \in Int : n <= now + Lead => LastsNext(n)
  BY <1>a, <1>2, <1>4, <1>6 DEF LastsNext
<1>8. pc'[i] = "idle" /\ job'[i].due = now + Interval
  BY <1>0 DEF Sleeps, Move, JobOf
<1>9. ASSUME NEW q \in Instances, pc'[q] = "idle"
      PROVE  LastsNext(job'[q].due + Lead - Interval)
  <2>1. job'[q].due \in Int /\ job'[q].due <= now + Interval
    <3>1. CASE q = i
      BY <1>a, <1>8, <3>1
    <3>2. CASE q # i
      <4>1. pc[q] = "idle" /\ job'[q] = job[q] /\ q \in Actors
        BY <1>0, <1>9, <3>2 DEF Sleeps, Move, Actors
      <4>2. job[q].due \in Int
        BY <4>1, KeysTyped
      <4> QED
        BY <4>1, <4>2 DEF TaskInv
    <3> QED
      BY <3>1, <3>2
  <2> QED
    BY <1>a, <1>7, <2>1
<1>10. LastsNext(now + Lead) /\ LastsNext(now + Lead - Interval)
  BY <1>a, <1>7
<1> QED
  BY <1>0, <1>8, <1>9, <1>10 DEF KeptUp, Serving, Lasts, LastsNext, Kids

LEMMA CrashLead ==
    ASSUME TInv, TaskInv, LeadInv, NEW i \in Instances, Crash(i)
    PROVE  LeadInv'
<1> SUFFICES ASSUME ~disturbed'
             PROVE  KeptUp'
  BY DEF LeadInv
<1>1. ~disturbed /\ now' = now /\ keys' = keys /\ GoesDown(i, "down")
  BY CrashDoes DEF Rest
<1>2. PICK q \in Instances \ {i} : pc[q] \in Awake
  BY CrashDoes DEF Serving, Awake
<1>3. KeptUp
  BY <1>1, <1>2 DEF LeadInv, NotYetUp, Serving, Awake
<1>4. pc'[q] \in Awake
  BY <1>1, <1>2 DEF GoesDown, Move, Actors
<1>5. \A p \in Instances : /\ pc'[p] = "idle" => pc[p] = "idle" /\ job'[p] = job[p]
                           /\ pc'[p] = "retire" => pc[p] = "retire"
  BY <1>1 DEF GoesDown, Move, Actors
<1> QED
  BY <1>1, <1>2, <1>3, <1>4, <1>5 DEF KeptUp, Serving, Awake, Lasts, Kids

LEMMA InstanceLead ==
    ASSUME TInv, TaskInv, LeadInv, NEW i \in Instances, Start(i) \/ Task(i) \/ CheckFails(i) \/ Crash(i)
    PROVE  LeadInv'
<1>0. i \in Actors
  BY DEF Actors
<1>1. CASE Start(i)
  <2>1. pc[i] \notin Awake /\ "boot" \notin Awake \cup {"release"}
    BY <1>1, StartDoes DEF Awake, Checking
  <2> QED
    BY <1>0, <1>1, <2>1, StartDoes, StillKeys, StillNoLoss, Aside DEF Still, Rest
<1>2. CASE GetLock(i)
  <2>1. pc[i] \notin Awake /\ "recheck" \notin Awake \cup {"release"} /\ "down" \notin Awake \cup {"release"}
    BY <1>2, GetLockDoes DEF Awake, Checking
  <2> QED
    BY <1>0, <1>2, <2>1, GetLockDoes, StillKeys, StillNoLoss, Aside DEF Still, Rest, GoesDown
<1>3. CASE Wake(i)
  <2>1. pc[i] \in Awake /\ "check" \in Awake
    BY <1>3, WakeDoes DEF Awake, Checking
  <2> QED
    BY <1>0, <1>3, <2>1, WakeDoes, StillKeys, StillNoLoss, OnDuty DEF Still, Rest
<1>4. CASE CheckFails(i)
  BY <1>4, CheckFailsDoes DEF LeadInv
<1> QED
  BY <1>1, <1>2, <1>3, <1>4, FindAtStartLead, InsertIfNoActiveLead, ReleaseLockLead, CheckLead,
     InsertNewLead, RetireOldLead, CrashLead DEF Task

LEMMA RequestLead ==
    ASSUME TInv, TaskInv, LeadInv, NEW r \in Requests,
           \/ CallGenerate(r) \/ \E k \in Kids : CallRetire(r, k) \/ CallDelete(r, k)
           \/ GenerateKey(r) \/ FindByKid(r) \/ RetireKey(r) \/ DeleteKey(r) \/ CallDropped(r)
    PROVE  LeadInv'
<1>0. r \in Actors /\ r \notin Instances
  BY KeysAssumption DEF Actors
<1>1. ASSUME Still, NEW l, NEW j, Move(r, l, j)
      PROVE  LeadInv'
  BY <1>0, <1>1, StillKeys, StillNoLoss, Aside DEF Still, Rest
<1>2. CASE GenerateKey(r)
  <2>1. job[r].at \in Int /\ 0 <= job[r].at /\ job[r].at <= now
    BY <1>0, KeysTyped DEF TInv, LocalsInv
  <2>2. NewKeysOK /\ NoLoss
    BY <1>2, <2>1, GenerateKeyDoes, NewKeyOK, AppendNoLoss
  <2> QED
    BY <1>0, <1>2, <2>2, GenerateKeyDoes, Aside DEF Rest, GoesDown
<1>3. CASE RetireKey(r)
  BY <1>3, RetireKeyDoes DEF LeadInv
<1>4. CASE DeleteKey(r)
  <2>1. NewKeysOK
    BY <1>4, DeleteKeyDoes, NoNewKeys DEF Changes, TInv
  <2>2. NoLoss
    BY <1>4, DeleteKeyDoes DEF NoLoss, Changes, TaskInv
  <2> QED
    BY <1>0, <1>4, <2>1, <2>2, DeleteKeyDoes, Aside DEF Rest, GoesDown
<1>5. CASE CallGenerate(r)
  BY <1>1, <1>5, CallGenerateDoes
<1>6. ASSUME NEW k \in Kids, CallRetire(r, k) \/ CallDelete(r, k)
      PROVE  LeadInv'
  BY <1>1, <1>6, CallRetireDoes, CallDeleteDoes
<1>7. CASE FindByKid(r)
  BY <1>1, <1>7, FindByKidDoes DEF GoesDown
<1>8. CASE CallDropped(r)
  BY <1>1, <1>8, CallDroppedDoes DEF GoesDown
<1> QED
  BY <1>2, <1>3, <1>4, <1>5, <1>6, <1>7, <1>8

\* Nobody is late: a task that is asleep at a tick wakes no earlier than after it.
LEMMA TickLead ==
    ASSUME TInv, TaskInv, LeadInv, Tick
    PROVE  LeadInv'
<1> SUFFICES ASSUME ~disturbed'
             PROVE  KeptUp'
  BY DEF LeadInv
<1>1. ~disturbed /\ \E i \in Instances : Serving(i)
  BY DEF Tick
<1>2. KeptUp
  BY <1>1 DEF LeadInv, NotYetUp
<1>3. PICK i \in Instances : pc[i] = "idle" /\ job[i].due > now
  BY <1>1 DEF Tick, Serving
<1>4. job[i].due \in Int /\ now \in Int /\ Lead \in Int /\ Interval \in Int
  BY KeysTyped, KeysAssumption DEF Actors
<1>5. PICK k \in Kids : keys[k].status = "ACTIVE" /\ keys[k].until > job[i].due + Lead - Interval
  BY <1>2, <1>3 DEF KeptUp, Lasts
<1>6. keys[k].until \in Int
  BY KeysTyped
<1>7. keys[k].until > now + 1 + Lead - Interval
  BY <1>3, <1>4, <1>5, <1>6
<1>8. now' = now + 1 /\ pc' = pc /\ job' = job /\ keys' = keys
  BY DEF Tick
<1>9. \A q \in Instances : pc[q] # "retire"
  BY DEF Tick, Checking
<1> QED
  BY <1>1, <1>2, <1>5, <1>7, <1>8, <1>9 DEF KeptUp, Serving, Lasts, Kids

LEMMA InitLeadInv == Init => LeadInv
<1> SUFFICES ASSUME Init, ~disturbed
             PROVE  NotYetUp
  BY DEF LeadInv
<1>1. \A i \in Instances : pc[i] = "down"
  BY DEF Init, Actors
<1>2. TInv
  BY InitTInv
<1>3. \A k \in Kids : keys[k].until \in Int /\ ~(keys[k].until <= Lead)
  BY <1>2, KeysTyped DEF Init
<1>4. \A k \in Kids : keys[k].until > Lead
  BY <1>3, KeysAssumption
<1> QED
  BY <1>1, <1>4 DEF Init, NotYetUp, Serving, Checking

LEMMA NextLeadInv == TInv /\ TaskInv /\ LeadInv /\ [Next]_vars => LeadInv'
<1> SUFFICES ASSUME TInv, TaskInv, LeadInv, [Next]_vars
             PROVE  LeadInv'
  OBVIOUS
<1>1. CASE UNCHANGED <<now, keys, pc, job, disturbed>>
  BY <1>1 DEF LeadInv, NotYetUp, KeptUp, Serving, Lasts, Kids
<1>2. CASE UNCHANGED vars
  BY <1>1, <1>2 DEF vars
<1>3. ASSUME NEW i \in Instances, Sign(i)
      PROVE  LeadInv'
  BY <1>1, <1>3, SignDoes
<1>4. ASSUME NEW i \in Instances, Start(i) \/ Task(i) \/ CheckFails(i) \/ Crash(i)
      PROVE  LeadInv'
  BY <1>4, InstanceLead
<1>5. ASSUME NEW r \in Requests,
             \/ CallGenerate(r) \/ \E k \in Kids : CallRetire(r, k) \/ CallDelete(r, k)
             \/ GenerateKey(r) \/ FindByKid(r) \/ RetireKey(r) \/ DeleteKey(r) \/ CallDropped(r)
      PROVE  LeadInv'
  BY <1>5, RequestLead
<1> QED
  BY <1>2, <1>3, <1>4, <1>5, TickLead DEF Next

\* Where the lead is at least the interval of the checks, whoever serves has a
\* usable key.
LEMMA LeadCovers ==
    ASSUME Interval <= Lead, TInv, LeadInv
    PROVE  NoSigningGap
<1> SUFFICES ASSUME ~disturbed, NEW i \in Instances, Serving(i)
             PROVE  Usable # {}
  BY DEF NoSigningGap
<1>1. PICK k \in Kids : keys[k].status = "ACTIVE" /\ keys[k].until > now + Lead - Interval
  BY DEF LeadInv, NotYetUp, KeptUp, Lasts
<1>2. keys[k].until > now
  BY <1>1, KeysTyped, KeysAssumption
<1>3. keys[k].from <= now
  BY DEF TInv, KeyInv
<1> QED
  BY <1>1, <1>2, <1>3 DEF Usable

\* Where KEY_ROTATION_LEAD_DAYS covers the sleep of the rotation task, a service
\* that has come up always has a key to sign with: no interleaving of rotations
\* by any number of instances, of crashes that leave one of them serving, and of
\* keys that administrators generate and delete leaves a gap.
THEOREM ThereIsAKeyToSignWith == Interval <= Lead => (Spec => []NoSigningGap)
<1> SUFFICES ASSUME Interval <= Lead
             PROVE  Spec => []NoSigningGap
  OBVIOUS
<1>1. TInv /\ LeadInv => NoSigningGap
  BY LeadCovers
<1> QED
  BY <1>1, InitTInv, NextTInv, InitTaskInv, NextTaskInv, InitLeadInv, NextLeadInv, PTL DEF Spec
-----------------------------------------------------------------------------
(* Tokens.                                                                  *)

\* Steps other than a tick or a signature.
LEMMA OtherSteps ==
    ASSUME TInv, \/ UNCHANGED vars
                 \/ \E i \in Instances : Start(i) \/ Task(i) \/ CheckFails(i) \/ Crash(i)
                 \/ \E r \in Requests :
                       \/ CallGenerate(r) \/ \E k \in Kids : CallRetire(r, k) \/ CallDelete(r, k)
                       \/ GenerateKey(r) \/ FindByKid(r) \/ RetireKey(r) \/ DeleteKey(r) \/ CallDropped(r)
    PROVE  KeysKept /\ Rest /\ (~disturbed' => ~disturbed)
<1>1. CASE UNCHANGED vars
  BY <1>1, StillKeys DEF vars, Rest
<1>2. ASSUME NEW i \in Instances, Start(i) \/ Task(i) \/ CheckFails(i) \/ Crash(i)
      PROVE  KeysKept /\ Rest /\ (~disturbed' => ~disturbed)
  <2>1. CASE Start(i) \/ FindAtStart(i) \/ GetLock(i) \/ ReleaseLock(i) \/ Wake(i) \/ Check(i)
    BY <2>1, StartDoes, FindAtStartDoes, GetLockDoes, ReleaseLockDoes, WakeDoes, CheckDoes, StillKeys DEF Still
  <2>2. CASE InsertIfNoActive(i)
    BY <2>2, InsertIfNoActiveDoes, StillKeys
  <2>3. CASE InsertNew(i) \/ RetireOld(i)
    BY <2>3, InsertNewDoes, RetireOldDoes
  <2>4. CASE CheckFails(i) \/ Crash(i)
    BY <2>4, CheckFailsDoes, CrashDoes, StillKeys
  <2> QED
    BY <1>2, <2>1, <2>2, <2>3, <2>4 DEF Task
<1>3. ASSUME NEW r \in Requests,
             \/ CallGenerate(r) \/ \E k \in Kids : CallRetire(r, k) \/ CallDelete(r, k)
             \/ GenerateKey(r) \/ FindByKid(r) \/ RetireKey(r) \/ DeleteKey(r) \/ CallDropped(r)
      PROVE  KeysKept /\ Rest /\ (~disturbed' => ~disturbed)
  <2>1. CASE CallGenerate(r) \/ FindByKid(r) \/ CallDropped(r)
    BY <2>1, CallGenerateDoes, FindByKidDoes, CallDroppedDoes, StillKeys DEF Still
  <2>2. ASSUME NEW k \in Kids, CallRetire(r, k) \/ CallDelete(r, k)
        PROVE  KeysKept /\ Rest /\ (~disturbed' => ~disturbed)
    BY <2>2, CallRetireDoes, CallDeleteDoes, StillKeys DEF Still
  <2>3. CASE GenerateKey(r) \/ RetireKey(r) \/ DeleteKey(r)
    BY <2>3, GenerateKeyDoes, RetireKeyDoes, DeleteKeyDoes
  <2> QED
    BY <1>3, <2>1, <2>2, <2>3
<1> QED
  BY <1>1, <1>2, <1>3

\* The key that signs is the one of those in use that lasts longest.
LEMMA SignToken ==
    ASSUME Interval <= Lead, Interval + TokenTtl <= Lead + 1, TInv, LeadInv, NEW i \in Instances, Sign(i)
    PROVE  TokenInv'
<1> SUFFICES ASSUME ~disturbed
             PROVE  keys[token'.kid].until > now /\ keys[token'.kid].until >= token'.expires
  BY DEF TokenInv, Sign
<1>1. Serving(i)
  BY DEF Sign
<1>2. PICK k \in FindActive : token' = [kid |-> k, expires |-> now + TokenTtl]
  BY DEF Sign
<1>3. PICK e \in Kids : keys[e].status = "ACTIVE" /\ keys[e].until > now + Lead - Interval
  BY <1>1 DEF LeadInv, NotYetUp, KeptUp, Lasts
<1>4. k \in Kids /\ keys[k].until > now
  BY DEF FindActive, Usable
<1>5. /\ now \in Int /\ keys[k].from \in Int /\ keys[k].until \in Int /\ keys[e].from \in Int /\ keys[e].until \in Int
      /\ Lead \in Int /\ Interval \in Int /\ TokenTtl \in Int /\ Validity \in Int
  BY <1>4, KeysTyped, KeysAssumption
<1>6. keys[e].until > now /\ keys[e].from <= now
  BY <1>3, <1>5 DEF TInv, KeyInv
<1>7. keys[e].from <= keys[k].from
  BY <1>3, <1>6 DEF FindActive, Usable
<1>8. keys[k].until = keys[k].from + Validity /\ keys[e].until = keys[e].from + Validity
  BY <1>4 DEF TInv, KeyInv
<1>9. keys[k].until >= now + TokenTtl
  BY <1>3, <1>5, <1>7, <1>8
<1> QED
  BY <1>2, <1>4, <1>9

LEMMA NextTokenInv ==
    ASSUME Interval <= Lead, Interval + TokenTtl <= Lead + 1
    PROVE  TInv /\ LeadInv /\ TokenInv /\ [Next]_vars => TokenInv'
<1> SUFFICES ASSUME TInv, LeadInv, TokenInv, [Next]_vars
             PROVE  TokenInv'
  OBVIOUS
<1>1. token # None => token.kid \in Kids /\ token.expires \in Int
  BY DEF TInv, TypeOK
<1>2. ASSUME KeysKept, Rest, ~disturbed' => ~disturbed
      PROVE  TokenInv'
  BY <1>1, <1>2 DEF TokenInv, Rest, KeysKept
<1>3. CASE Tick
  <2> SUFFICES ASSUME ~disturbed', token' # None
               PROVE  keys[token'.kid].until > now + 1 /\ keys[token'.kid].until >= token'.expires
    BY <1>3 DEF TokenInv, Tick
  <2>1. token # None /\ token' = token /\ token.expires > now + 1 /\ ~disturbed
    BY <1>3 DEF Tick
  <2>2. now \in Int /\ keys[token.kid].until \in Int
    BY <1>1, <2>1, KeysTyped
  <2> QED
    BY <1>1, <2>1, <2>2 DEF TokenInv
<1>4. ASSUME NEW i \in Instances, Sign(i)
      PROVE  TokenInv'
  BY <1>4, SignToken
<1>5. CASE \/ UNCHANGED vars
           \/ \E i \in Instances : Start(i) \/ Task(i) \/ CheckFails(i) \/ Crash(i)
           \/ \E r \in Requests :
                 \/ CallGenerate(r) \/ \E k \in Kids : CallRetire(r, k) \/ CallDelete(r, k)
                 \/ GenerateKey(r) \/ FindByKid(r) \/ RetireKey(r) \/ DeleteKey(r) \/ CallDropped(r)
  BY <1>2, <1>5, OtherSteps
<1> QED
  BY <1>3, <1>4, <1>5 DEF Next

LEMMA TokenCovers ==
    ASSUME TInv, TokenInv
    PROVE  SignedTokensVerifiable
<1> SUFFICES ASSUME ~disturbed, token # None
             PROVE  token.kid \in Published \/ keys[token.kid].status = "DELETED"
  BY DEF SignedTokensVerifiable
<1>1. token.kid \in Kids
  BY DEF TInv, TypeOK
<1>2. keys[token.kid].status \in {"ACTIVE", "RETIRED", "DELETED"}
  BY <1>1, KeysTyped DEF Key
<1> QED
  BY <1>1, <1>2 DEF TokenInv, Published

\* Where the lead covers the sleep of the rotation task and the life of a token
\* (a token that is signed at the end of the one lives to the end of the other),
\* jwks publishes the key of every token until the token expires, unless an
\* administrator deletes it.
THEOREM TokensCanBeVerified ==
    Interval <= Lead /\ Interval + TokenTtl <= Lead + 1 => (Spec => []SignedTokensVerifiable)
<1> SUFFICES ASSUME Interval <= Lead, Interval + TokenTtl <= Lead + 1
             PROVE  Spec => []SignedTokensVerifiable
  OBVIOUS
<1>1. TInv /\ TokenInv => SignedTokensVerifiable
  BY TokenCovers
<1>2. Init => TokenInv
  BY DEF Init, TokenInv
<1>3. TInv /\ LeadInv /\ TokenInv /\ [Next]_vars => TokenInv'
  BY NextTokenInv
<1> QED
  BY <1>1, <1>2, <1>3, InitTInv, NextTInv, InitTaskInv, NextTaskInv, InitLeadInv, NextLeadInv, PTL DEF Spec
=============================================================================
