---------------------------- MODULE MailedLinks ----------------------------
(***************************************************************************)
(* One-time links sent by mail: self-registration with email verification, *)
(* and the reset of a forgotten password.  Both keep a table of token      *)
(* hashes (email_verification_tokens, password_reset_tokens) with the same *)
(* three statements, so one table with a purpose stands for both.          *)
(*                                                                         *)
(* A member of Requests is one call of a handler; an action is one SQL     *)
(* statement of it.  It also names the link the call creates, at most one. *)
(* A member of Users is an email address and the one account that may be   *)
(* registered for it.                                                      *)
(***************************************************************************)
EXTENDS Integers, FiniteSets, Accounts

CONSTANTS
    Existing,    \* the accounts that an administrator created
    Requests,    \* the handler calls that may happen (bound)
    Kinds,       \* the handlers that are called
    Ttl,         \* reset_ttl and verification_ttl
    MaxNow,      \* the clock stops here (bound)
    Faults       \* TRUE: a statement may fail, a handler may be dropped

ASSUME LinkAssumption ==
    /\ Existing \subseteq Users
    /\ Kinds \subseteq {"register", "request", "reset", "verify"}
    /\ Ttl \in Nat \ {0} /\ MaxNow \in Nat /\ Faults \in BOOLEAN
    /\ None \notin Requests \cup Int

VARIABLES
    now,
    smtp,      \* whether the system settings hold an SMTP server
    users,     \* users and their HOME memberships
    links,     \* the two token tables, by the call that inserted the row
    mailbox,   \* the links whose mail was delivered
    pc, job,   \* where each call stands, and its locals
    winner     \* history: the call that consumed each link

rows == <<users, links, mailbox, winner>>
vars == <<now, smtp, rows, pc, job>>

Link == [user : Users, purpose : {"reset", "verify"}, expires : Int, used : BOOLEAN, gone : BOOLEAN]
Account == [status : {"NONE", "ACTIVE", "DISABLED", "DELETED"}, home : BOOLEAN,
            verified : BOOLEAN, setBy : Requests \cup {None}]
Job == [kind : Kinds, user : Users \cup {None}, tenant : Tenants \cup {None},
        link : Requests \cup {None}, time : Int]

ASSUME NoneIsNoRecord == None \notin Link /\ None \notin Job

Pcs == {"new", "taken", "insert", "home", "smtp", "find", "invalidate", "create", "mail",
        "consume", "fetch", "owner", "apply", "ok", "failed"}
Ended == {"ok", "failed"}

TypeOK ==
    /\ now \in 0..MaxNow /\ smtp \in BOOLEAN
    /\ users \in [Users -> Account]
    /\ links \in [Requests -> Link \cup {None}]
    /\ mailbox \subseteq {l \in Requests : links[l] # None}
    /\ pc \in [Requests -> Pcs]
    /\ job \in [Requests -> Job \cup {None}]
    /\ winner \in [Requests -> Requests \cup {None}]

Init ==
    /\ now = 0 /\ smtp \in BOOLEAN
    /\ users = [u \in Users |->
                  [status |-> IF u \in Existing THEN "ACTIVE" ELSE "NONE", home |-> u \in Existing,
                   verified |-> u \in Existing, setBy |-> None]]
    /\ links = [r \in Requests |-> None]
    /\ mailbox = {}
    /\ pc = [r \in Requests |-> "new"]
    /\ job = [r \in Requests |-> None]
    /\ winner = [r \in Requests |-> None]
-----------------------------------------------------------------------------
(* The environment.                                                         *)

Tick == now < MaxNow /\ now' = now + 1 /\ UNCHANGED <<smtp, rows, pc, job>>

\* SystemSettingsService: an administrator sets up SMTP.
ConfigureSmtp == ~smtp /\ smtp' = TRUE /\ UNCHANGED <<now, rows, pc, job>>

DisableUser(u) ==
    /\ users[u].status = "ACTIVE"
    /\ users' = [users EXCEPT ![u].status = "DISABLED"]
    /\ UNCHANGED <<now, smtp, links, mailbox, winner, pc, job>>

EnableUser(u) ==
    /\ users[u].status = "DISABLED"
    /\ users' = [users EXCEPT ![u].status = "ACTIVE"]
    /\ UNCHANGED <<now, smtp, links, mailbox, winner, pc, job>>

\* The rows of both token tables cascade.
DeleteUser(u) ==
    /\ users[u].status \in {"ACTIVE", "DISABLED"}
    /\ users' = [users EXCEPT ![u].status = "DELETED", ![u].home = FALSE]
    /\ links' = [l \in Requests |-> IF links[l] # None /\ links[l].user = u
                                    THEN [links[l] EXCEPT !.gone = TRUE] ELSE links[l]]
    /\ UNCHANGED <<now, smtp, mailbox, winner, pc, job>>
-----------------------------------------------------------------------------
(* Calls begin.  Tokens are 32 random bytes: only who has the mail presents *)
(* one, at the page of any tenant.                                          *)

Goto(r, l) == pc' = [pc EXCEPT ![r] = l]

Begin(r, l, j) ==
    /\ j.kind \in Kinds
    /\ Goto(r, l) /\ job' = [job EXCEPT ![r] = j]
    /\ UNCHANGED <<now, smtp, rows>>

\* RegisterService::register, in a tenant that allows it, with valid input.
Register(r, u) ==
    Begin(r, "taken", [kind |-> "register", user |-> u, tenant |-> Home[u], link |-> None, time |-> now])

\* PasswordResetService::request_reset, below its rate limit.
RequestReset(r, u, t) ==
    Begin(r, "smtp", [kind |-> "request", user |-> u, tenant |-> t, link |-> None, time |-> now])

Purpose(k) == IF k = "verify" THEN "verify" ELSE "reset"

\* A link is presented to the service that looks in the table it is in.
PresentLink(r, k, l, t) ==
    /\ k \in {"reset", "verify"} /\ links[l].purpose = Purpose(k)
    /\ Begin(r, "consume", [kind |-> k, user |-> None, tenant |-> t, link |-> l, time |-> now])

\* PasswordResetService::reset_password, with a strong password given twice.
ResetPassword(r, l, t) == PresentLink(r, "reset", l, t)

\* EmailVerificationService::verify
VerifyEmail(r, l, t) == PresentLink(r, "verify", l, t)
-----------------------------------------------------------------------------
(* Registration.                                                            *)

Exists(u) == users[u].status \in {"ACTIVE", "DISABLED"}

CheckTaken(r) ==
    /\ pc[r] = "taken"
    /\ Goto(r, IF Exists(job[r].user) THEN "failed" ELSE "insert")
    /\ UNCHANGED <<now, smtp, rows, job>>

\* users is unique on (tenant_id, email): the second INSERT fails.
InsertUser(r) ==
    LET u == job[r].user IN
    /\ pc[r] = "insert"
    /\ IF users[u].status # "NONE" THEN Goto(r, "failed") /\ UNCHANGED users
       ELSE /\ users' = [users EXCEPT ![u].status = "ACTIVE", ![u].setBy = r]
            /\ Goto(r, "home")
    /\ UNCHANGED <<now, smtp, links, mailbox, winner, job>>

InsertHome(r) ==
    LET u == job[r].user IN
    /\ pc[r] = "home"
    /\ IF Exists(u) THEN users' = [users EXCEPT ![u].home = TRUE] /\ Goto(r, "smtp")
       ELSE Goto(r, "failed") /\ UNCHANGED users
    /\ UNCHANGED <<now, smtp, links, mailbox, winner, job>>
-----------------------------------------------------------------------------
(* A link is made and mailed.                                               *)

\* Without SMTP no link is made; registration has succeeded all the same.
LoadSmtp(r) ==
    /\ pc[r] = "smtp"
    /\ Goto(r, IF ~smtp THEN "ok" ELSE IF job[r].kind = "request" THEN "find" ELSE "invalidate")
    /\ job' = [job EXCEPT ![r].time = now]
    /\ UNCHANGED <<now, smtp, rows>>

\* find_by_email in the tenant of the page; answers the same if there is none.
FindByEmail(r) ==
    LET j == job[r] IN
    /\ pc[r] = "find"
    /\ Goto(r, IF users[j.user].status = "ACTIVE" /\ Home[j.user] = j.tenant THEN "invalidate" ELSE "ok")
    /\ job' = [job EXCEPT ![r].time = now]
    /\ UNCHANGED <<now, smtp, rows>>

\* The rows that invalidate_all_for_user marks as used.
Stale(l, u, p) == links[l] # None /\ links[l].user = u /\ links[l].purpose = p /\ ~links[l].used

InvalidateAllForUser(r) ==
    LET j == job[r] IN
    /\ pc[r] = "invalidate"
    /\ links' = [l \in Requests |-> IF Stale(l, j.user, IF j.kind = "request" THEN "reset" ELSE "verify")
                                    THEN [links[l] EXCEPT !.used = TRUE] ELSE links[l]]
    /\ Goto(r, "create")
    /\ UNCHANGED <<now, smtp, users, mailbox, winner, job>>

NewLink(j) == [user |-> j.user, purpose |-> IF j.kind = "request" THEN "reset" ELSE "verify",
               expires |-> j.time + Ttl, used |-> FALSE, gone |-> FALSE]

\* The INSERT fails on its foreign key once the account is deleted.
CreateLink(r) ==
    /\ pc[r] = "create"
    /\ IF Exists(job[r].user)
       THEN links' = [links EXCEPT ![r] = NewLink(job[r])] /\ Goto(r, "mail")
       ELSE Goto(r, "ok") /\ UNCHANGED links
    /\ UNCHANGED <<now, smtp, users, mailbox, winner, job>>

\* Mailer::send, where the server takes the mail and it arrives.
Delivered(r) == mailbox \cup {r}

\* A mail that is not sent is only logged.
SendMail(r) ==
    /\ pc[r] = "mail"
    /\ mailbox' = Delivered(r) \/ (Faults /\ UNCHANGED mailbox)
    /\ Goto(r, "ok")
    /\ UNCHANGED <<now, smtp, users, links, winner, job>>
-----------------------------------------------------------------------------
(* A link is used.                                                          *)

\* Mutant of Consumable: a used link is consumed again.
ConsumableAgain(l, time) == ~links[l].gone /\ links[l].expires > time

\* The WHERE clause of the consuming UPDATE.
Consumable(l, time) == ~links[l].gone /\ ~links[l].used /\ links[l].expires > time

Consume(r) ==
    LET j == job[r] IN
    /\ pc[r] = "consume"
    /\ IF Consumable(j.link, j.time)
       THEN /\ links' = [links EXCEPT ![j.link].used = TRUE]
            /\ winner' = [winner EXCEPT ![j.link] = r]
            /\ Goto(r, "fetch")
       ELSE Goto(r, "failed") /\ UNCHANGED <<links, winner>>
    /\ UNCHANGED <<now, smtp, users, mailbox, job>>

\* The SELECT of the row just consumed.
FetchConsumed(r) ==
    LET l == links[job[r].link] IN
    /\ pc[r] = "fetch"
    /\ IF l.gone THEN Goto(r, "failed") /\ UNCHANGED job
       ELSE Goto(r, "owner") /\ job' = [job EXCEPT ![r].user = l.user]
    /\ UNCHANGED <<now, smtp, rows>>

\* Mutant of Accepts: the tenant of the page is not compared.
AcceptsAnyTenant(k, u, t) == IF k = "reset" THEN users[u].status = "ACTIVE" ELSE Exists(u)

\* The account the link is for, and the tenant of the page.
Accepts(k, u, t) == /\ IF k = "reset" THEN users[u].status = "ACTIVE" ELSE Exists(u)
                    /\ Home[u] = t

CheckOwner(r) ==
    LET j == job[r] IN
    /\ pc[r] = "owner"
    /\ Goto(r, IF Accepts(j.kind, j.user, j.tenant) THEN "apply" ELSE "failed")
    /\ UNCHANGED <<now, smtp, rows, job>>

\* update_password or mark_email_verified; no row, no effect.  What follows a
\* reset, the end of all sessions and tokens, is in TokenEndpoint and AuthFlow.
ApplyLink(r) ==
    LET j == job[r] IN
    /\ pc[r] = "apply"
    /\ users' = [users EXCEPT ![j.user] =
          IF ~Exists(j.user) THEN @
          ELSE IF j.kind = "reset" THEN [@ EXCEPT !.setBy = r] ELSE [@ EXCEPT !.verified = TRUE]]
    /\ Goto(r, "ok")
    /\ UNCHANGED <<now, smtp, links, mailbox, winner, job>>

CallFails(r) ==
    /\ Faults /\ pc[r] \notin Ended \cup {"new"}
    /\ Goto(r, "failed")
    /\ UNCHANGED <<now, smtp, rows, job>>
-----------------------------------------------------------------------------
Step(r) ==
    \/ CheckTaken(r) \/ InsertUser(r) \/ InsertHome(r)
    \/ LoadSmtp(r) \/ FindByEmail(r) \/ InvalidateAllForUser(r) \/ CreateLink(r) \/ SendMail(r)
    \/ Consume(r) \/ FetchConsumed(r) \/ CheckOwner(r) \/ ApplyLink(r)

NewCall(r) ==
    /\ pc[r] = "new"
    /\ \/ \E u \in Users : Register(r, u) \/ \E t \in Tenants : RequestReset(r, u, t)
       \/ \E l \in mailbox, t \in Tenants : ResetPassword(r, l, t) \/ VerifyEmail(r, l, t)

Next ==
    \/ Tick \/ ConfigureSmtp
    \/ \E u \in Users : DisableUser(u) \/ EnableUser(u) \/ DeleteUser(u)
    \/ \E r \in Requests : NewCall(r) \/ Step(r) \/ CallFails(r)

Spec == Init /\ [][Next]_vars
-----------------------------------------------------------------------------
(* What the code guarantees.                                                *)

\* Of all concurrent uses, invalidations and deletions of a link at most one
\* has effect: the link tables implement the abstract one-time grant store.
phase == [l \in Requests |-> IF links[l] = None THEN "unissued"
                             ELSE IF links[l].used \/ links[l].gone THEN "closed" ELSE "open"]

Store == INSTANCE OneTimeGrant WITH Grants <- Requests, Redeemers <- Requests, Nobody <- None,
                                    phase <- phase, redeemer <- winner
ImplementsOneTimeGrant == Store!Spec

\* A password set by a reset, and a verified address, rest on a link that was
\* made for that very account and purpose, delivered, consumed by that call
\* within its lifetime, and opened at the page of the account's own tenant.
EffectsComeFromLinks ==
    \A r \in Requests : job[r] # None /\ job[r].kind \in {"reset", "verify"} /\ pc[r] = "ok" =>
        LET l == job[r].link IN
        /\ winner[l] = r /\ l \in mailbox
        /\ links[l].user = job[r].user /\ links[l].purpose = Purpose(job[r].kind)
        /\ job[r].time < links[l].expires
        /\ job[r].tenant = Home[job[r].user]
=============================================================================
