# TLA+ models of the identity provider

A verification project for the multi-tenant OpenID Connect provider of this repository
(Rust, axum, sqlx on MariaDB): models of its parts in TLA+, model-checked by TLC on small
instances, and theorems about them checked by TLAPS. `PROJECT.json` is the machine-readable
index: which definition models which lines, which run checks which property, the mutant that
shows each property can fail, the hazards, the theorems.

Contents: 1 the system, 2 how it is modelled, 3 the modules, 4 the runs, 5 fairness,
6 the proofs, 7 what is only model-checked, 8 where the code departs from its comments,
9 what is not modelled, 10 the plan.

## 1 The system

`crates/core` holds the domain (entities and the ports to storage, clock, mail, crypto), the
application services (one per use case) and the infrastructure (sqlx repositories, an in-memory
cache and rate limiter). `crates/api` is the axum server: public OIDC endpoints, an internal API
for the pages, the admin API. `crates/web` renders pages over the internal API and keeps no state
but the cookies of its visitors. `migrations/` is the schema.

Three facts shape every model.

* **No transactions around use cases.** Every repository call is one SQL statement on the pool
  (exceptions: `revoke_all_for_user_in_tenant` and the provisioning of a tenant). Two handlers
  interleave at every `.await`, and a row read by one statement may be different or gone at the next.
* **Handlers end anywhere.** A statement may fail, and axum drops the future of a handler whose
  client disconnects: what was written stays, what follows does not happen.
* **Some state is in memory**: the permission cache, the tenant cache and the login rate limiter are
  lost on restart and are per process. Several instances may run on one database.

| Component | State | Operations | Hard behaviour | Correct when |
|---|---|---|---|---|
| token endpoint (`token.rs`, `code_issuance.rs`) | `authorization_codes`, `refresh_tokens` | issue, exchange, rotate | concurrent redemption and rotation, failure between revoke and insert | a code is redeemed once; a chain keeps owner and expiry; a rotated token is dead |
| revocation, introspection | `refresh_tokens`, `revoked_access_tokens` | revoke, introspect | two kinds of tokens behind one endpoint | a revoked token is dead |
| account life cycle (`user_lifecycle.rs`) | `users` and everything that belongs to an account | reset, disable, enable, delete | several statements while requests run | live tokens die |
| authorization endpoint, SSO | `auth_sessions`, `sso_sessions` | authorize, resume, extend | resumption across tenants and time | `prompt`, `max_age`, lifetimes, membership hold for the code |
| interactive login | `auth_sessions` | password, TOTP, forced change, passkey | steps in any order, by several accounts | `auth_time` is genuine |
| consent | `client_consents` | approve, deny | session rewritten meanwhile | no scope without consent of that account |
| logout | `sso_sessions` | logout | | sessions go |
| portal and console login, own password | lockout columns, tickets | login, change, second step | counters written from stale rows | lockout policy, second factor, genuine tickets |
| rate limiter | memory | check_and_record | bound, restart, callers that overtake each other between clock and lock | at most so many per window |
| registration, verification, reset by mail | two token tables | register, request, present | lost mails, races for a link, dead accounts | one effect per delivered link |
| memberships, invitations | `tenant_memberships` | invite, accept, expel | overlapping grants, re-invitation | guests accepted; no orphaned permission |
| permissions and cache | `user_permissions`, memory | check, grant, revoke | check overlapping revocation | cached decisions right, or wrong only briefly |
| user administration | `users`, memberships | create, delete | two INSERTs | |
| signing keys (`key_service.rs`) | `signing_keys` | bootstrap, rotate, generate, retire, delete, publish | several instances, crashes, outages longer than a key lives | there is a key to sign with; a token's key stays published |
| second factors (`totp_registration.rs`, `passkey_*.rs`) | `totp_secrets`, `webauthn_credentials`, `passkey_challenges` | setup, confirm, remove, register, answer a challenge | ceremonies of two calls, overlapping | checked secrets, own passkeys, no replay, growing counters |
| tenants | `tenants`, memory | create, update, delete, resolve | cached status, full-row updates | a disabled tenant stops being served |
| clients | `clients` | register, edit, new secret | full-row updates | a deleted tenant leaves none behind |
| SAML registrations | `saml_service_providers` | create, edit, delete, import | a document of many entities | the import is what the document says |
| system settings | `system_settings`, environment | save, restart | several statements per form, validated twice | a finished save left nothing older; the process starts again |
| web front end | cookies of a browser | pages, forms, redirects | tabs that share cookies, answers that come late | a form does what it was shown for; who keeps trying gets in |
| audit, own-profile queries, crypto, HTTP layer | | | | not or partly modelled, section 9 |

Components meet in the database: an SSO session made by a login is resumed by the authorization
endpoint of any tenant and authorises the admin API; a code inserted by any login is redeemed at
the token endpoint; an account operation deletes or revokes in all of them.

## 2 How it is modelled

* A handler call is a member of `Requests` with a program counter `pc[r]` and its locals `job[r]`
  (`arg`, `at`, `snap` in TokenEndpoint). **One action is one SQL statement or one access to shared
  memory**, with the computation up to the next. A value the code carries over an await is in the
  locals and not read again. Reads in sequence that change nothing and whose combined answer the next
  statement checks again are one action (account and membership in `FindInvitee`, for example).
* Random identifiers (token, session, code, link) are named by the call that creates them: fresh,
  unguessable unless handed out, at most one of each kind per call.
* Hashes, signatures and passwords either match or do not: a nondeterministic Boolean where the caller
  may present either, such as `proof` of TokenEndpoint (PKCE, redirect URI).
* Time is `now`, a natural number advanced by `Tick`; what the code compares with the clock read at
  the start of a handler is compared with that value, not with `now`.
* `Faults = TRUE` (in AuthFlow: `faults` of the workload) lets every pending call end at any point (`CallFails`, `RequestFails`, `OpDropped`)
  and the process restart where memory is modelled.
* History variables (marked in the `VARIABLES` comment of each module) record what properties speak
  of and influence no guard.
* A row that is written as a whole holds the call that wrote each column instead of its contents
  (`AdminConsole`): what matters is whose value is there.
* Some runs have several small workloads instead of one large one: the behaviour chooses at its start which
  kinds of calls, operations and inputs it has (`load`, from `Workloads`; in `password`, `admin_console` and `browser`
  also by `MCSpec`, whose behaviours are behaviours of `Spec`).
* Audit records, logging, formats and error texts are left out: nothing reads them back.

## 3 The modules

**OneTimeGrant** is the abstract specification of a store of one-time credentials: opened once, closed
once, by one redeemer or by withdrawal. TokenEndpoint's code table and MailedLinks' two token tables
implement it (`ImplementsOneTimeGrant`, by `INSTANCE ... WITH`).

**TokenEndpoint**: `POST /token` with both grants, `POST /revoke` of a refresh token, and reset, disabling,
logout and deletion as far as they touch codes and tokens. Access tokens are not stored and are left out. A code request goes `consume` (conditional
UPDATE) `fetch` `user` `issue`; a refresh request `find` `reuse` `rotate` (revoke the presented token)
`user` `issue`, or `burn` when reuse is detected. An account operation is a process of its own that
revokes refresh tokens and then codes.

**AuthFlow**: everything between `GET /authorize` and a code: SSO resumption with idle extension, login,
TOTP, forced change and passkey steps on an AuthSession, consent, logout; reset, disabling, enabling,
deletion, guests that come and go. One client per tenant stands for all.

**PasswordLogin**: every place where a password is presented (OIDC login, portal, portal change, console,
console change, own account) and the portal's `mfa_ticket`, with the lockout columns and the limiter they
share. A call reads the clock and then asks the limiter, in two steps: between them another call, with a later
clock, may ask first and make the limiter forget. The answer of the console's permission check is either; when it is which is TenantAccess.
Deletion of an account is not among its operations: to a call that has not read the row it is like
disabling, and the later UPDATEs of one that has touch no row.

**MailedLinks**: registration, e-mail verification, and reset by mail, from request over mail delivery
(or loss) to the use of the link at any tenant's page. One table with a purpose stands for two tables
with the same statements.

**TenantAccess**: `RequirePerms` through the decision cache (`get`, SELECT, `insert`), grant and revoke
with the system.admin rule, invitation, acceptance, expulsion, creation and deletion of accounts. The
cache is a partial function from `<<tenant, account, code>>` to value and expiry.

**SigningKeys**: instances of the server that start (`ensure_active_key`: look, take the lock, insert if there is
none, release), crash, and run the rotation task (look, insert a successor, retire the old one, each a statement);
administrators who generate, retire and delete keys; signing with the active key and the set of published keys. A kid
is a place in the sequence `keys`. A signature is recorded with its expiry, so that `SignedTokensVerifiable` can ask
whether relying parties can still verify it.

**SecondFactors**: TOTP setup, confirmation and removal (the page, then the API's SELECT and write),
passkey registration from challenge to credential, removal, and the passkey login's `find`, `delete`,
credential lookup, counter check and update. The two calls of a ceremony may be made under different
sessions. An authenticator may count or send zero for ever; a registration goes on when the deletion of its
challenge fails, a login does not. AuthFlow has what follows an accepted login.

**ConsoleCalls** is the frame of the console's calls (`Send`, `Goto`, `Finish`, failures), extended by
**TenantRegistry** (tenants and the cache every call at a tenant passes), **ClientRegistry**,
**SamlRegistry** and **SystemSettings** (SMTP and runtime settings, restart). **SamlMetadata** is the
reader of metadata documents, one event at a time, next to a definition of what such a document says. The
documents nest as the schema has it: certificates in a KeyDescriptor or in a signature of an entity or descriptor,
elements with and without children, texts that are blank.
**AdminConsole** composes them: foreign keys between tenants, clients, service providers and accounts (of which
a tenant has some or none), the restart that empties the cache, the properties over all. Clients and service
providers have no property of their own: they are there for the deletion of their tenant and for the overlaps
that section 8 describes.

**BrowserPages**: one browser with several tabs and one cookie jar in front of `crates/web`. An exchange
is `Submit` or `Load` (the cookies go along), `Answer` (the front end, and the API as its response types
describe it) and `Deliver` (Set-Cookie, then the page or redirect); answers may overtake each other or be
lost, cookies and sessions expire. Form tokens are what they are derived from: an AuthSession, an SSO
session, or the seed in a cookie. The pages are login, TOTP, forced change and consent of the OIDC flow,
the same of the portal and of the console, account settings, and the invitation. Guests sign in with passkeys,
and a guest may be an administrator.

**Accounts** declares what MailedLinks and BrowserPages share: accounts, tenants, and which belongs to which.

`MC*.tla` add the constants of the instances; `*Proofs.tla` hold the proofs.

## 4 The runs

All runs use symmetry over interchangeable calls where they check safety only. Deadlock checking is off:
a system in which all bounded calls have ended and the clock has reached `MaxNow` stops rightly.

| Run | Instance | Shows |
|---|---|---|
| `token_core` | 1 account, 1 code, 3 requests, 1 operation, faults | `CodeRedeemedOnce`, `ImplementsOneTimeGrant`, `GrantLineage`, `RotatedParentRevoked`, `RotationWithinLifetime`, `DeadCredentialRefused`: redemption, rotation and revocation under every interleaving, failure and account operation. Three requests make code → token → successor possible while a competitor runs. |
| `token_reuse` | violation | `ReuseRevokesChain`, finding |
| `flow` | 4 calls, in four workloads. 1: an account with TOTP and passkey, reset and deletion, 2 calls at a time; 2: 2 accounts, 2 tenants, a guest, consent, faults, 2 at a time; 3: 1 account, time 0..2, `prompt`, `max_age`, logout, disabling, 2 at a time; 4: an account that is disabled, enabled and made to change its password, faults, 1 at a time | `AuthTimeGenuine`, `ConsentPrecedesCode`, `CodeForMember`, `ReauthenticationHonoured`, `ResumeWithinLifetime` |
| `flow_two_accounts` | violation | `CodeNamesWhoLoggedIn`, finding |
| `links` | 1 address, 2 pages, 4 calls, faults | `EffectsComeFromLinks`, `ImplementsOneTimeGrant` |
| `password` | workload 1: 3 overlapping calls at the counting doors, the OIDC login among them, restart, faults; workload 2: all other doors, 2 calls, resets, TOTP and status changing, 2 tenants | `LimiterBound`, `LockNeedsMaxFailures`, `SequentialFailuresLock`, `LockRunsItsTime`, `SecondFactorHonoured`, `TicketGenuine` |
| `tenant_access` | administrator, guest and new account, 2 calls of all nine kinds, faults, restart | `CacheCoherent`, `StaleDecisionExpires`, `GuestHasAccepted`, `PermissionNeedsMembership`, `SystemAdminFromSystemAdmin` |
| `signing_keys` | 2 instances that crash and return, 3 keys, 1 administrator's call, failing statements, fair | `NoSigningGap`, `SignedTokensVerifiable`, `OneBootstrapKey`, `SigningResumes` |
| `second_factors` | 2 accounts, 1 passkey, 2 open challenges, 3 calls on the TOTP pages, at the registration or at the login, counters 0..2; faults | `ConfirmedSecretChecked`, `PasskeyOfRequester`, `ChallengeNotReplayed`, `AcceptedCountersGrow` |
| `admin_console` | five sets of forms, 3 overlapping calls, time 0..2, faults, restart; five vocabularies of documents of up to 8 events | `DisabledTenantExpires`, `NoOlderMailSettings`, `RestartSucceeds`, `ImportFaithful` |
| `tenant_cache` | violation | `DisabledTenantRefused`, finding |
| `browser` | 2 tabs, 2 tenants, 3 accounts, one of them a guest who administers, 12 choices of pages to begin with, 1 disturbance, fair | `SignInServesItsForm`, `ActsForTheAccountOfItsPage`, `SelfRecovery` |

Why the bounds are enough. A property that one call can break needs one, a race needs two, and a chain
(issue, rotate, reuse; authorize, login, second step, consent) as many as it has links; the bounds are
that number, and one more where it fits. Lifetimes of one or two ticks put every comparison on both
sides of its boundary. In `flow` two calls overlap and two more come before or after, which is what an approval on
a session that another login rewrites takes, or a logout during a resumption. In `signing_keys` three keys are the one that
ages, its successor and one that a second instance or an administrator adds; a token lives one tick of a
key's three and the lead is one. Two instances suffice for a race of rotations, one call for an
administrator's step between any two of theirs. In `admin_console` three calls are two that race and one
that comes before or after; a document of eight events has two KeyDescriptors with their certificates and a
service, and so the choice between a signing and a fallback certificate, or two descriptors, or two entities. Each
vocabulary has the events of one question (keys, signatures, entities, services, names). In `browser` the hazard is a cookie that another tab replaced: two tabs, and for recovery one
disturbance (a lost answer, an expired cookie or session) in every state. Identifiers that nothing refers to
any more are used again, and four of each kind are never all in use (`Spare` holds in every state of the run). In
`tenant_access` the guest starts as none, invited or active, so that the two calls may be any two
of a longer history. Every property has a mutant of a mapped definition that breaks it in the same run.

How to run: `tlc -workers 2 -config TokenCore.cfg MCTokenEndpoint`, likewise for the others (module and
cfg are in `PROJECT.json`); `tlapm TokenEndpointProofs.tla`, likewise for the other `*Proofs.tla`.

What the properties that are weaker than one might wish exclude, and why the code allows no more:

* `AuthTimeGenuine` speaks of AuthSessions that one account used; the rest is the finding of
  `flow_two_accounts`.
* `CacheCoherent` excludes keys whose row changed while a check stood between SELECT and `insert`,
  whose writer was dropped before invalidating, or that fell to a cascade; for those
  `StaleDecisionExpires` bounds the time of a wrong decision by the cache's lifetime.
* `PermissionNeedsMembership` excludes a place at which a grant and an expulsion overlapped.
* `SequentialFailuresLock` and `LockRunsItsTime` speak of accounts whose logins never overlapped.
* `NoSigningGap` and `SignedTokensVerifiable` exclude systems in which all instances were down while time passed, a
  check failed, or a key was retired by hand (`disturbed`); `SigningResumes` says that signing recovers. `OneBootstrapKey` speaks of the
  first start.
* `ConfirmedSecretChecked` and `AcceptedCountersGrow` exclude overlapping calls on the same secret or
  credential, `ChallengeNotReplayed` calls that found the challenge before the first of them deleted it.
* `LimiterBound` does not count calls that were overtaken: asked with a time at which the limiter had forgotten a
  call of their window, because another call with a later time came first (`blind`). Each door can be overtaken so
  (section 8).
* `AcceptedCountersGrow` says nothing against a counter of zero as long as the credential has never counted, as
  WebAuthn has it.
* `NoOlderMailSettings` lets a mail be sent with the keys of several overlapping saves; it says that none of
  them is older than the last save that ended well.
* `DisabledTenantExpires` grants the cache its lifetime; what comments promise instead is the finding of
  `tenant_cache`.
* `ImportFaithful` lets a certificate of a signature count like one of a key without a use, as the code has it
  (section 8), and does not say which certificate is taken where an empty KeyDescriptor and such a signature
  meet.
* `ActsForTheAccountOfItsPage` speaks of the console and the invitation page, whose forms carry a token of
  the session; the settings pages have none (section 8).
* `GuestHasAccepted` does not say that the accepted invitation is the one in the row: `activate`
  selects by tenant and account.

## 5 Fairness

Nothing is assumed about arrivals or that administrators act.

* `SigningResumes` (`Spec` of SigningKeys): `WF` of the rotation task of each instance, which the tokio runtime
  polls as long as the process is up, and `SF` of `Tick`, since time passes whatever else goes on. Checks may
  fail as long as the clock is below `MaxNow`; the last tick stands for the time after the last failure.
* `SelfRecovery` (`FairSpec` of BrowserPages): about one persistent user's tab. `WF` of loading a page, of the
  server's answer and of its delivery, `WF` of submitting with the right credentials a form that is shown, and
  `SF` of `Retry`: a user who is refused starts again from the address of the page rather than send the same page
  for ever. The other tab is under no obligation, and may interfere whenever it wants.

## 6 The proofs

Eight modules, one per component (MailedLinks and BrowserPages share one), prove 43 listed theorems; each is for every
value of the constants (any sets of accounts, tenants, calls, any lifetimes and limits), with faults and restarts, and
rests only on the named ASSUMEs of its component. Those say that the sets are what the comments of the CONSTANTS say,
that `None` is no member of them and no row (`NoneIsNoRecord` and the like), that the addresses a user opens are those
of pages, and that identifiers of different origin differ: guests and passkeys are not named like calls, `Child` and
`Client` neither like each other nor like calls; at least one key may be made (`MaxKeys >= 1`). Three theorems have a
hypothesis on the configuration, given with them below.

The proofs are laid out alike. The locals of a call are described by constant-level predicates of place and locals
(`PlaceOK`, `Fits`, `LocalsOK`, `Local`); one lemma per action says where the call goes and what the action does to
each table (`...Does`); each invariant then has one lemma for the steps that leave its tables alone and one per action
that touches them. The invariants below were checked with TLC on the instance of the component's run before they were
proved.

**TokenEndpointProofs**: `TypeCorrect` (`TypeOK`), `OneRedemption` (`CodeRedeemedOnce`), `CodesAreOneTimeGrants`
(refinement of OneTimeGrant), `ChainsKeepTheirGrant` (`GrantLineage`), `PredecessorsAreRevoked`
(`RotatedParentRevoked`), `RotationsAreInTime` (`RotationWithinLifetime`), `DeadCredentialsStayDead`
(`DeadCredentialRefused`). `CodeRedeemedOnce` is not inductive: two requests past the UPDATE do not show who won. `OnceInv` adds that
a request holding a code is the one recorded as its redeemer and that the code is closed, which no step undoes
(`ClosedStays`). Chains need more, because `IssueTokens` writes from a row read several statements earlier: `SnapInv`
says the row in hand is still the stored row up to revocation, unless the account is deleted; `OwnerInv` that tokens
die with their account (so the exception inserts nothing); `RotateInv` that between the two statements of a rotation
the presented token is revoked; `ParentInv`, `ClockInv` the relation to the predecessor and to the clock. `FreshInv`
makes the inserted row new. `DeadInv` follows a request that came with a dead credential: the row never gets
better (`SpentCode`, `SpentToken`), by the clock the request read, also if an account operation or a rotation
writes it between the fetch and the check. The lemmas `RowsAreKept` (every step keeps every row but for its status or its deletion),
`WhoseStep` and `WhereFrom` (which step changes which request) let each part be proved once, not once per action.

**PasswordLoginProofs**: `TypeCorrect`, `NoEarlyLock` (`LockNeedsMaxFailures`), `PortalAsksForTotp`
(`SecondFactorHonoured`), `TicketsAreGenuine` (`TicketGenuine`), `FailuresLock` (`SequentialFailuresLock`),
`LocksRunTheirTime` (the action property `LockRunsItsTime`), `LimiterHolds` (`LimiterBound`). The invariant is per account
(`AccountOK`: the stored counter never exceeds the wrong passwords presented) and per call (`CallOK`): `CountOK` is why
lost updates cannot lock early: a call about to count has added a wrong password of its own since it read the row;
`WatchOK` ties the history set `bare` to the present TOTP state; `PlaceOK`, `TicketOK`, `MfaOK`, `SessionOK` say what a
call has behind it at each place. `LockInv` is about accounts whose logins never overlapped: one call is in flight, what
it read is still the row, and the counter is the streak but for the failure it is about to count. `LimiterInv` says that
the limiter forgets a call only when it has left the window that ends with the latest time the limiter was asked
with (`latest`), whoever asked; the bound on a window is a cardinality (`FiniteSetTheorems`).

**LinksAndPagesProofs**, about MailedLinks: `TypeCorrect`, `LinksAreOneTimeGrants` (refinement of OneTimeGrant),
`EffectsHaveLinks` (`EffectsComeFromLinks`). `MakerInv`: a call inserts its row once; `WinnerInv`: a link with a winner is
used, for good; `UserInv`, `UsingInv`: what a call past the conditional UPDATE knows of the link it consumed.

About BrowserPages: `FormsServeTheirSignIn` (`SignInServesItsForm`), `PagesActForTheirAccount`
(`ActsForTheAccountOfItsPage`), for any number of tabs, accounts, tenants and disturbances. Both speak of a response
under way, which fits the page its tab still shows (`Fits`). `BrowserInv` adds what that rests on: a request no form
makes (`PlainOps`) comes from a tab without a form, because a tab that waits does not change its page; the `sso`
cookie, in the jar, in a request and in a response, names a session or nothing; and a page with a console token, shown
or on its way, is for the account of the session the token names, or that session has ended (`PageOK`). The last needs
that a new session never takes an identifier something still refers to (`SessionsKept`, from `Fresh` and `Held`).
`TabStep` is proved once for any exchange of any tab, so each of the 24 handlers has only to show that its response
fits. Looking for this invariant showed that `Held` had left out the challenge of a page not delivered yet, which is
now in it.

**TenantAccessProofs**: `TypeCorrect`, `GuestsHaveAccepted`, `PermissionsNeedMembership`, `SystemAdminsFromSystemAdmins`,
`CacheIsCoherent`, `StaleDecisionsExpire`. `activate` selects by tenant and account, so the proof follows the token in the
row (`TokenInv`) and the acceptance that names it (`AcceptInv`, `GuestInv`). `PlaceInv` relates memberships and permissions
at every point of an expulsion, `SystemInv` the check of system.admin to the grant two statements later, `CacheInv` and
`StaleInv` what a check between SELECT and `insert` holds to the row and to the moment it changed.

**AuthFlowProofs**: `TypeCorrect`, `CodesNeedConsent` (`ConsentPrecedesCode`), `CodesAreForMembers` (`CodeForMember`),
`ResumesAreInTime` (`ResumeWithinLifetime`), `ReauthenticationsAreHonoured` (`ReauthenticationHonoured`),
`AuthTimesAreGenuine` (`AuthTimeGenuine`). Every property is about a code and holds of the locals of the call that is
about to insert it, and of the AuthSession it took them from: `ConsentInv`, `MemberInv`, `ResumeInv`, `RecentInv` and
`GenuineInv` state it for all three. `GenuineInv` has the exception of the finding in section 8: an account that
shares an AuthSession.

**SigningKeysProofs**: `TypeCorrect`, `OneKeyAtBootstrap` (`OneBootstrapKey`), `ThereIsAKeyToSignWith` (`NoSigningGap`, if
`Interval <= Lead`), `TokensCanBeVerified` (`SignedTokensVerifiable`, if also `Interval + TokenTtl <= Lead + 1`).
The hypotheses are what an operator has to configure: the rotation task must look before the lead is over, and the lead
must cover the life of a token. `BootInv` ties the lock to the place of its holder; `TaskInv` bounds how far a check is
behind the clock; `LeadInv` says that, undisturbed, an active key lasts until after the next check (`KeptUp`) or nobody has
come up yet.

**SecondFactorsProofs**: `TypeCorrect`, `PasskeysOfRequesters` (`PasskeyOfRequester`), `ChallengesAreNotReplayed`
(`ChallengeNotReplayed`), `ConfirmedSecretsWereChecked` (`ConfirmedSecretChecked`), `CountersGrow` (`AcceptedCountersGrow`).
`EnrolInv` carries the account from the challenge to the credential, `ReplayInv` says that a challenge a login was accepted
for is gone, `ConfirmInv` that the secret a confirmation is about to write is one it checked. The first attempt at
`CountersGrow` failed for a reason: a credential that is removed and registered again starts at zero, which six calls
reach and three do not; the history variable now counts since the registration.

**AdminConsoleProofs**: `Shapes`, `DisabledTenantsExpire`, `Restarts` (`RestartSucceeds`), `OlderMailSettingsAreGone`
(`NoOlderMailSettings`). `NextSteps` reduces the thirty-odd actions to those that write and those that only move a
call; `Shapes` is the type invariant. `ExpiryInv` bounds the expiry of an entry by the clock and, of an unservable
tenant, by `stale`. `SettingsInv`: every override is one that Config parses. `SmtpInv` describes a save half way,
among others: no key it has written so far holds a value from before its beginning, whoever wrote it last.

## 7 Only model-checked

* `SigningResumes` and `SelfRecovery`: liveness under fairness, out of the prover's reach.
* `ImportFaithful`: what the reader has collected after a document of any length. TLC has all documents of up to
  eight events of each vocabulary.
* The three runs that show a violation state what a comment says and the code does not do; there is nothing to prove.

Every other property of a passing run is a theorem. The theorems `ThereIsAKeyToSignWith` and `TokensCanBeVerified` have the hypotheses given above, which the instances of their runs satisfy.

## 8 Where the code departs from its comments

Shown by a run (see `findings`):

* Reuse of a rotated refresh token revokes only the presented token, not "全チェーン" (`token.rs:410`).
* `set_password_verified` leaves the `auth_time` of an earlier account on the AuthSession; the consent
  step then issues a code for an account that owes its TOTP (`repositories/auth_session.rs:130`).
* `TenantResolutionService::invalidate` is called by a test only, though `tenant_resolution.rs:4-6, 14-15, 53` and
  `presentation/tenant.rs:12` say that changes of a tenant invalidate its entry: a disabled or deleted tenant is
  served until the entry expires.

Found while modelling, part of the models' behaviour, without a run of their own:

* `POST /revoke` of an access token without a hint, or with the hint of a refresh token, reports success and does
  nothing: `try_revoke_refresh_token` returns `true` whether or not it found a row (`revocation.rs:132`), so the
  access token is not tried, against the comments at lines 93 ("どちらでも試す") and 123 ("失効させたら true"). A failing
  statement is reported as success too. Access tokens are not modelled, so no run shows it.
* Two rotations of one refresh token that overlap may both make a successor (`token.rs:410`); the parent is dead and
  both are of its owner and expiry.
* An account disabled while a token request or a login is past its status check keeps the refresh
  token or SSO session that request inserts (`user_lifecycle.rs:136`); it is refused at use until
  the account is enabled again.
* `RefreshTokenRepository::revoke` selects by hash alone, though `domain/refresh_token.rs:15` binds
  tokens to their tenant.
* In the OIDC login a forced change issues code and session without TOTP (`login.rs:284`), which the
  portal takes care to avoid; passkey login ignores `must_change_password` (`passkey_authentication.rs:246`).
* `prompt=consent` is forgotten when the user has to log in first (`login.rs:366`, `domain/consent.rs:24`).
* Two concurrent reset requests leave two working links (`password_reset.rs:146`); each is still single-use.
* Registration and creation of accounts are two INSERTs without a transaction (`register.rs:188`,
  `user_management.rs:187`); in between, or after a failure, the account can be invited as a guest of its
  own home tenant, which `invitation.rs:135` rules out.
* The verification mail is never sent again if SMTP was not configured (`email_verification.rs:87`).
* Overlapping logins lose updates of the lockout counter, and a late one lifts or extends a lock
  (`login.rs:431`). An `mfa_ticket` can be used several times within its lifetime.
* A permission check that overlaps a revocation puts a stale decision into the cache
  (`cached_user_permission.rs:66`, whose header says stale decisions are avoided).
* A grant that overlaps an expulsion leaves a permission without membership (`invitation.rs:365`).
* After an outage longer than a key's validity `ensure_active_key` inserts nothing, because
  `insert_if_no_active` looks at the status alone; signing fails until the task's first check.
  `rotate_if_needed` without a key does a plain INSERT, though its comment (`key_service.rs:111`) names
  `ensure_active_key()`, so two instances may make two keys; concurrent rotations leave two ACTIVE keys.
* Two completions of one passkey login challenge that overlap both succeed
  (`passkey_authentication.rs:166`, "リプレイ防止"); overlapping assertions lose an update of the counter.
* A TOTP setup that overlaps a confirmation can leave an unchecked secret confirmed, or a confirmed one
  unconfirmed (`totp_registration.rs:150`); a wrong code on the page replaces the secret.
  Expired challenges are never purged.
* Overlapping updates of tenants and clients lose one of the two: `rotate_secret` ("DB はハッシュのみ更新する",
  `client_management.rs:246`) can re-enable a client, an update can restore an old secret,
  `update_current_settings` ("`status` は変更しない", `tenant_management.rs:211`) can re-enable a tenant. An edit form shown
  before a change of status sends the old status back. No property excludes any of this. An update or deletion of a tenant that is gone
  by then is acknowledged. A new secret is lost when the lookup that follows it fails.
* The SMTP server is saved key by key: overlapping or broken saves mix two forms, and during a save mails may
  go out without TLS or password (`system_settings.rs:109`).
* A certificate of a signature inside the `SPSSODescriptor`, or one that follows an empty KeyDescriptor, is imported as
  that of the service provider if no key for signatures has one (`saml_metadata.rs:80-85, 124-128`); an empty
  KeyDescriptor's use stays in force for it (`saml_metadata.rs:102`).
* An approval or a completed login in one tab expires the cookie of another tab's flow. Beginning a passkey login
  uses the AuthSession the cookie names, not the one of the page. The settings, TOTP and passkey forms carry no
  token: a page shown to one account acts on whoever is signed in when it is sent. The portal's form, shown again
  after a CSRF failure, has an empty token and can only be left by reloading; two tabs that keep doing so can starve
  each other. Logout ignores a failure of the API and drops the cookie only; the SSO session whose cookie
  is overwritten by another login stays live.
* The limiter lives in memory (`presentation/state.rs:194`): a restart forgets it and every instance has its own,
  so `LimiterBound` speaks of one process. A call reads the clock before it waits for the limiter's lock
  (`portal_login.rs:188` and `193`, likewise at the other doors): if another call with a later clock comes first, the
  limiter forgets calls that are still in the window of the one that waits, and lets it through. The OIDC login waits
  for a query in between (`login.rs:155`).
* `max_age` of 2^63 or more becomes negative (`authorize.rs:178`), which is only stricter.

## 9 Not modelled

Access tokens, their blocklist and introspection (section 8 says what `POST /revoke` does to them); own-profile queries, audit and userinfo (reads or single-column writes that nothing else reads), cryptography
(abstracted as in section 2), routing, formats and the connection pool (wiring). Of the web front end:
templates, translations and assets; the console's member, invitation and user pages, which repeat the pattern of
the modelled ones and whose calls are TenantAccess; the pages for registration, verification and reset, whose
calls are MailedLinks and whose forms depend on no session. SAML has no login flow at this commit, and building
the IdP's own metadata is formatting. Logout notifications to relying parties and outgoing mail are I/O without
effect on state but for the delivery of links. The WebAuthn ceremony is a step that succeeds or not. A tenant
tree deeper than one level does not arise, because only the root's administrators create tenants.

## 10 The plan

Done, in this order: TokenEndpoint with OneTimeGrant, AuthFlow, PasswordLogin, MailedLinks, TenantAccess; the
proofs of TokenEndpoint and PasswordLogin; SigningKeys, SecondFactors, the console's modules, BrowserPages; the
proofs of MailedLinks, TenantAccess, AuthFlow, SigningKeys, SecondFactors and AdminConsole, and of PasswordLogin's
lock and limiter; the proof of BrowserPages.

Next, if the project is extended: access tokens with the violation that section 8 describes, and the lost updates
of clients and tenants as runs of their own; a proof of the metadata import; the console's member and invitation pages in BrowserPages, once their forms depart
from the pattern of the others; a SAML login flow when the code has one.
