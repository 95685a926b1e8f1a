------------------------ MODULE TokenEndpointProofs ------------------------
(***************************************************************************)
(* Proofs about TokenEndpoint: for any number of accounts, tenants,        *)
(* clients, codes, requests and account operations, and any lifetimes.     *)
(***************************************************************************)
EXTENDS TokenEndpoint, TLAPS

\* What a request has in hand at each label.
ArgInv ==
    \A r \in Requests :
        /\ pc[r] \in {"consume", "fetch"} => arg[r] \in CodeArg
        /\ pc[r] \in {"find", "reuse", "burn", "rotate"} => arg[r] \in RefreshArg
        /\ pc[r] \in {"user", "issue", "ok"} => arg[r] \in Arg
        /\ pc[r] \in {"reuse", "rotate"} => snap[r] \in RefreshToken
        /\ pc[r] \in {"user", "issue"} =>
              snap[r] \in IF arg[r].kind = "code" THEN Code ELSE RefreshToken

\* The operation that has something left to do belongs to an account.
OpInv == \A o \in Ops : op[o].next # "done" => op[o].user \in Users

\* A code that a request holds is closed and was closed by that request.
OnceInv ==
    \A r \in Requests : Holds(r) =>
        redeemedBy[arg[r].cred] = r /\ codes[arg[r].cred].st \notin {"none", "open"}

\* A request that has not answered has not inserted its refresh token, and
\* only a started request has redeemed anything.
FreshInv ==
    /\ \A r \in Requests : pc[r] \notin Outcomes => tokens[r].st = "none"
    /\ \A c \in Codes : redeemedBy[c] # None => pc[redeemedBy[c]] # "new"

\* Two refresh tokens of one chain agree on everything a rotation copies.
SameGrant(x, y) ==
    <<x.user, x.tenant, x.client, x.scope, x.expires, x.root>>
        = <<y.user, y.tenant, y.client, y.scope, y.expires, y.root>>

\* The row a request carries from its SELECT to its INSERT is, as long as the
\* account exists, still the stored row, but for a revocation in between; and
\* it belongs to the client and tenant that the request authenticated as.
SnapOK(r) ==
    /\ pc[r] = "fetch" /\ Row(codes[arg[r].cred]) =>
          codes[arg[r].cred].tenant = arg[r].tenant
    /\ pc[r] \in {"reuse", "user", "rotate", "issue"} =>
          snap[r].tenant = arg[r].tenant /\ snap[r].client = arg[r].client
    /\ pc[r] \in {"user", "issue"} /\ arg[r].kind = "code"
          /\ users[snap[r].user] # "DELETED" =>
          codes[arg[r].cred] = snap[r] /\ snap[r].st = "used"
    /\ pc[r] \in {"reuse", "user", "rotate", "issue"} /\ arg[r].kind = "refresh"
          /\ users[snap[r].user] # "DELETED" =>
          Row(tokens[arg[r].cred]) /\ SameGrant(tokens[arg[r].cred], snap[r])

SnapInv == \A r \in Requests : SnapOK(r)

\* ON DELETE CASCADE: no refresh token outlives its account.
OwnerInv == \A r \in Requests : Row(tokens[r]) => users[tokens[r].user] # "DELETED"

\* A token and its predecessor are of one chain.
ParentInv ==
    \A r \in Requests : Row(tokens[r]) /\ tokens[r].parent # None =>
        /\ tokens[tokens[r].parent].st = "revoked"
        /\ SameGrant(tokens[tokens[r].parent], tokens[r])

\* Between the two statements of a rotation the presented token is revoked.
RotateInv ==
    \A r \in Requests :
        pc[r] = "issue" /\ arg[r].kind = "refresh" /\ users[snap[r].user] # "DELETED" =>
            tokens[arg[r].cred].st = "revoked"

\* The clock values requests have read.
ClockInv ==
    \A r \in Requests :
        /\ at[r] <= now
        /\ pc[r] \in {"find", "reuse", "user", "rotate", "issue"} /\ arg[r].kind = "refresh" =>
              at[arg[r].cred] <= at[r] /\ pc[arg[r].cred] # "new"
        /\ pc[r] \in {"user", "rotate", "issue"} /\ arg[r].kind = "refresh" =>
              at[r] < snap[r].expires

IInv == /\ TypeOK /\ ArgInv /\ OpInv /\ OnceInv /\ FreshInv /\ SnapInv /\ OwnerInv
        /\ GrantLineage /\ RotateInv /\ ParentInv /\ ClockInv /\ RotationWithinLifetime
-----------------------------------------------------------------------------
(* Rows.                                                                    *)

\* A stored code is a Code, a stored refresh token a RefreshToken.
LEMMA StoredRows ==
    /\ \A x \in Code \cup Absent : Row(x) => x \in Code
    /\ \A x \in RefreshToken \cup Absent : Row(x) => x \in RefreshToken
  BY DEF Row, Code, RefreshToken, Absent

\* Revoking keeps every field but `st`.
LEMMA RevokedRow ==
    ASSUME NEW x \in RefreshToken
    PROVE  /\ [x EXCEPT !.st = "revoked"] \in RefreshToken
           /\ [x EXCEPT !.st = "revoked"].st = "revoked"
  BY DEF RefreshToken

LEMMA RevokedGrant ==
    ASSUME NEW x \in RefreshToken
    PROVE  /\ SameGrant([x EXCEPT !.st = "revoked"], x)
           /\ [x EXCEPT !.st = "revoked"].parent = x.parent
  BY DEF RefreshToken, SameGrant

\* Using a code up keeps every field but `st`.
LEMMA UsedRow ==
    ASSUME NEW x \in Code
    PROVE  /\ [x EXCEPT !.st = "used"] \in Code
           /\ [x EXCEPT !.st = "used"].st = "used"
  BY DEF Code
-----------------------------------------------------------------------------
(* Typing.                                                                  *)

TInv == TypeOK /\ ArgInv /\ OpInv

LEMMA TypeInit == Init => TInv
  BY TtlAssumption, RegisteredAssumption
  DEF Init, TInv, TypeOK, ArgInv, OpInv, Absent, Pcs, Outcomes

LEMMA TypeEnvironment == TInv /\ Environment => TInv'
<1> SUFFICES ASSUME TInv, Environment PROVE TInv'
  OBVIOUS
<1> USE DEF TInv, TypeOK, ArgInv, OpInv, request, tables, history
<1>1. CASE Tick
  BY <1>1, TtlAssumption DEF Tick
<1>2. CASE \E c \in Codes, u \in Users, t \in Tenants, cl \in Clients, s \in Scopes :
              IssueCode(c, u, t, cl, s)
  BY <1>2, TtlAssumption DEF IssueCode, Code
<1>3. CASE \E t \in Tenants, cl \in Clients : UpdateClient(t, cl)
  BY <1>3 DEF UpdateClient
<1>4. CASE \E u \in Users : EnableUser(u)
  BY <1>4 DEF EnableUser
<1>5. CASE \E u \in Users : DeleteUser(u)
  BY <1>5 DEF DeleteUser, Absent
<1> QED BY <1>1, <1>2, <1>3, <1>4, <1>5 DEF Environment

LEMMA TypeArrivals == TInv /\ Arrivals => TInv'
<1> SUFFICES ASSUME TInv, NEW r \in Requests, NEW t \in Tenants, NEW cl \in Clients,
                    \/ \E c \in Codes, proof \in BOOLEAN : ExchangeCode(r, t, cl, c, proof)
                    \/ \E x \in Requests : ExchangeRefreshToken(r, t, cl, x)
             PROVE  TInv'
  BY DEF Arrivals
<1> USE DEF TInv, TypeOK, ArgInv, OpInv, request, tables, history, Goto, Pcs, Outcomes,
            Arg, CodeArg, RefreshArg
<1>1. CASE \E c \in Codes, proof \in BOOLEAN : ExchangeCode(r, t, cl, c, proof)
  BY <1>1 DEF ExchangeCode
<1>2. CASE \E x \in Requests : ExchangeRefreshToken(r, t, cl, x)
  BY <1>2 DEF ExchangeRefreshToken
<1> QED BY <1>1, <1>2

LEMMA TypeRevocations == TInv /\ Revocations => TInv'
<1> SUFFICES ASSUME TInv, NEW t \in Tenants, NEW cl \in Clients, NEW x \in Requests,
                    RevokeRefreshToken(t, cl, x)
             PROVE  TInv'
  BY DEF Revocations
<1> USE DEF TInv, TypeOK, ArgInv, OpInv, request, tables, history
<1> QED BY StoredRows, RevokedRow DEF RevokeRefreshToken, Revoke

LEMMA TypeOperations == TInv /\ Operations => TInv'
<1> SUFFICES ASSUME TInv, NEW o \in Ops,
                    \/ \E u \in Users, k \in {"reset", "disable", "logout"} : StartOp(o, u, k)
                    \/ OpStep(o) \/ OpDropped(o)
             PROVE  TInv'
  BY DEF Operations
<1> USE DEF TInv, TypeOK, ArgInv, OpInv, request, tables, history
<1>1. CASE \E u \in Users, k \in {"reset", "disable", "logout"} : StartOp(o, u, k)
  BY <1>1, TtlAssumption DEF StartOp, FirstWithdrawn
<1>2. CASE OpRevokeTokens(o)
  <2>1. RevokeAllForUser(op[o].user) \in [Requests -> RefreshToken \cup Absent]
    BY StoredRows, RevokedRow DEF RevokeAllForUser, Row
  <2> QED BY <1>2, <2>1 DEF OpRevokeTokens
<1>3. CASE OpRevokeCodes(o)
  <2>1. RevokeAllActiveForUser(op[o].user, op[o].at) \in [Codes -> Code \cup Absent]
    BY StoredRows, UsedRow DEF RevokeAllActiveForUser, Row
  <2> QED BY <1>3, <2>1 DEF OpRevokeCodes
<1>4. CASE OpDropped(o)
  BY <1>4 DEF OpDropped
<1> QED BY <1>1, <1>2, <1>3, <1>4 DEF OpStep

LEMMA TypeToken ==
    ASSUME TInv, NEW r \in Requests, TokenStep(r) \/ RequestFails(r)
    PROVE  TInv'
<1> USE DEF TInv, TypeOK, ArgInv, OpInv, request, tables, history, Goto, Pcs, Outcomes
<1>1. CASE ConsumeCode(r)
  <2> DEFINE c == arg[r].cred
  <2>1. c \in Codes /\ arg[r] \in CodeArg
    BY <1>1 DEF ConsumeCode, CodeArg
  <2>2. CASE Redeemable(codes[c], arg[r].tenant, at[r])
    <3>1. codes[c] \in Code
      BY <2>1, <2>2, StoredRows DEF Redeemable, Row
    <3>2. [codes[c] EXCEPT !.st = "used"] \in Code
      BY <3>1, UsedRow
    <3>3. codes' = [codes EXCEPT ![c] = [codes[c] EXCEPT !.st = "used"]]
      BY <1>1, <2>1, <2>2 DEF ConsumeCode
    <3>4. codes' \in [Codes -> Code \cup Absent]
      BY <3>2, <3>3
    <3> QED BY <1>1, <2>1, <2>2, <3>4 DEF ConsumeCode
  <2>3. CASE ~Redeemable(codes[c], arg[r].tenant, at[r])
    BY <1>1, <2>3 DEF ConsumeCode
  <2> QED BY <2>2, <2>3
<1>2. CASE FetchConsumed(r)
  BY <1>2, StoredRows DEF FetchConsumed, Fetched, CodeArg, Arg
<1>3. CASE FindByHash(r)
  <2>1. arg[r] \in RefreshArg /\ arg' = arg
    BY <1>3 DEF FindByHash
  <2>2. tokens[arg[r].cred] \in RefreshToken \cup Absent
    BY <2>1 DEF RefreshArg
  <2>3. CASE Presentable(tokens[arg[r].cred], arg[r])
    <3>1. tokens[arg[r].cred] \in RefreshToken
      BY <2>2, <2>3, StoredRows DEF Presentable
    <3> QED BY <1>3, <2>1, <2>3, <3>1 DEF FindByHash
  <2>4. CASE ~Presentable(tokens[arg[r].cred], arg[r])
    BY <1>3, <2>1, <2>4 DEF FindByHash
  <2> QED BY <2>3, <2>4
<1>4. CASE ExistsByParentHash(r)
  BY <1>4 DEF ExistsByParentHash, RefreshArg, Arg
<1>5. CASE RevokeReused(r)
  BY <1>5, StoredRows, RevokedRow DEF RevokeReused, Revoke, RefreshArg
<1>6. CASE RevokePresented(r)
  BY <1>6, StoredRows, RevokedRow DEF RevokePresented, Revoke, RefreshArg, Arg
<1>7. CASE LoadActiveUser(r)
  BY <1>7 DEF LoadActiveUser, Arg, CodeArg, RefreshArg
<1>8. CASE IssueTokens(r)
  BY <1>8, TtlAssumption
  DEF IssueTokens, NewRefreshToken, Arg, CodeArg, RefreshArg, Code, RefreshToken
<1>9. CASE RequestFails(r)
  BY <1>9 DEF RequestFails
<1> QED BY <1>1, <1>2, <1>3, <1>4, <1>5, <1>6, <1>7, <1>8, <1>9 DEF TokenStep

LEMMA TypeNext == TInv /\ [Next]_vars => TInv'
<1> SUFFICES ASSUME TInv, [Next]_vars PROVE TInv'
  OBVIOUS
<1>1. CASE UNCHANGED vars
  BY <1>1 DEF TInv, TypeOK, ArgInv, OpInv, vars, tables, request, history
<1>2. CASE \E r \in Requests : TokenStep(r) \/ RequestFails(r)
  BY <1>2, TypeToken
<1> QED
  BY <1>1, <1>2, TypeEnvironment, TypeArrivals, TypeRevocations, TypeOperations DEF Next

\* Type correctness: in particular a request past its SELECT carries a whole
\* row, never the remains of one that a cascade removed in between.
THEOREM TypeCorrect == Spec => []TypeOK
<1>1. TInv => TypeOK
  BY DEF TInv
<1> QED BY TypeInit, TypeNext, <1>1, PTL DEF Spec
-----------------------------------------------------------------------------
(* One redemption per code.                                                 *)

Closed(c) == codes[c].st \notin {"none", "open"}

\* No step reopens a code.
LEMMA ClosedStays ==
    ASSUME TInv, [Next]_vars, NEW c \in Codes, Closed(c)
    PROVE  Closed(c)'
<1> USE DEF Closed, TInv, TypeOK
<1>1. CASE UNCHANGED vars
  BY <1>1 DEF vars, tables
<1>2. CASE Environment
  <2>1. CASE \E u \in Users : DeleteUser(u)
    BY <2>1 DEF DeleteUser
  <2>2. CASE \E d \in Codes, u \in Users, t \in Tenants, cl \in Clients, s \in Scopes :
                IssueCode(d, u, t, cl, s)
    BY <2>2 DEF IssueCode
  <2> QED BY <1>2, <2>1, <2>2 DEF Environment, Tick, UpdateClient, EnableUser, tables
<1>3. CASE Arrivals
  BY <1>3 DEF Arrivals, ExchangeCode, ExchangeRefreshToken, tables
<1>4. CASE Revocations
  BY <1>4 DEF Revocations, RevokeRefreshToken
<1>5. CASE Operations
  BY <1>5 DEF Operations, StartOp, FirstWithdrawn, OpStep, OpRevokeTokens, OpRevokeCodes, OpDropped, tables,
              RevokeAllActiveForUser
<1>6. CASE \E r \in Requests : TokenStep(r) \/ RequestFails(r)
  <2> SUFFICES ASSUME NEW r \in Requests, TokenStep(r) \/ RequestFails(r) PROVE Closed(c)'
    BY <1>6
  <2>1. CASE ConsumeCode(r)
    BY <2>1 DEF ConsumeCode, Redeemable
  <2> QED BY <2>1 DEF TokenStep, RequestFails, FetchConsumed, FindByHash, ExistsByParentHash,
                      RevokeReused, RevokePresented, LoadActiveUser, IssueTokens, tables
<1> QED BY <1>1, <1>2, <1>3, <1>4, <1>5, <1>6 DEF Next

LEMMA OnceInit == Init => OnceInv
  BY DEF Init, OnceInv, Holds

LEMMA OnceNext == TInv /\ OnceInv /\ [Next]_vars => OnceInv'
<1> SUFFICES ASSUME TInv, OnceInv, [Next]_vars, NEW r \in Requests, Holds(r)'
             PROVE  redeemedBy'[arg'[r].cred] = r /\ codes'[arg'[r].cred].st \notin {"none", "open"}
  BY DEF OnceInv
<1>a. ASSUME Holds(r), arg'[r] = arg[r], redeemedBy' = redeemedBy
      PROVE  redeemedBy'[arg'[r].cred] = r /\ codes'[arg'[r].cred].st \notin {"none", "open"}
  BY <1>a, ClosedStays DEF OnceInv, Holds, Closed, TInv, TypeOK, ArgInv, Arg, CodeArg, RefreshArg
<1>1. CASE UNCHANGED vars
  BY <1>1, <1>a DEF vars, request, history, Holds
<1>2. CASE Environment
  BY <1>2, <1>a DEF Environment, Tick, IssueCode, UpdateClient, EnableUser, DeleteUser,
                    request, history, Holds
<1>3. CASE Arrivals
  BY <1>3, <1>a DEF Arrivals, ExchangeCode, ExchangeRefreshToken, Goto, Holds, history, TInv, TypeOK
<1>4. CASE Revocations
  BY <1>4, <1>a DEF Revocations, RevokeRefreshToken, request, history, Holds
<1>5. CASE Operations
  BY <1>5, <1>a DEF Operations, StartOp, FirstWithdrawn, OpStep, OpRevokeTokens, OpRevokeCodes, OpDropped,
                    request, history, Holds
<1>6. CASE \E s \in Requests : TokenStep(s) \/ RequestFails(s)
  <2> SUFFICES ASSUME NEW s \in Requests, TokenStep(s) \/ RequestFails(s)
               PROVE  redeemedBy'[arg'[r].cred] = r /\ codes'[arg'[r].cred].st \notin {"none", "open"}
    BY <1>6
  <2>1. CASE ConsumeCode(s)
    <3> DEFINE c == arg[s].cred
    <3>1. c \in Codes /\ arg' = arg
      BY <2>1 DEF ConsumeCode, TInv, ArgInv, CodeArg
    <3>2. CASE Redeemable(codes[c], arg[s].tenant, at[s])
      <4>1. CASE r = s
        <5>1. codes[c] \in Code
          BY <3>1, <3>2, StoredRows DEF Redeemable, Row, TInv, TypeOK
        <5>2. codes' = [codes EXCEPT ![c] = [codes[c] EXCEPT !.st = "used"]]
          BY <2>1, <3>1, <3>2 DEF ConsumeCode, TInv, TypeOK
        <5>3. codes'[c].st = "used"
          BY <3>1, <5>1, <5>2, UsedRow DEF TInv, TypeOK
        <5> QED BY <2>1, <3>1, <3>2, <4>1, <5>3 DEF ConsumeCode, TInv, TypeOK
      <4>2. CASE r # s
        <5>1. Holds(r)
          BY <2>1, <3>1, <4>2 DEF ConsumeCode, Goto, Holds, TInv, TypeOK
        <5>2. arg[r].cred # c /\ arg[r].cred \in Codes
          BY <5>1, <3>2 DEF OnceInv, Redeemable, Holds, TInv, ArgInv, CodeArg, RefreshArg, Arg
        <5> QED BY <2>1, <3>1, <5>1, <5>2, <3>2 DEF ConsumeCode, OnceInv, TInv, TypeOK
      <4> QED BY <4>1, <4>2
    <3>3. CASE ~Redeemable(codes[c], arg[s].tenant, at[s])
      BY <2>1, <3>1, <3>3, <1>a DEF ConsumeCode, Goto, Holds, TInv, TypeOK
    <3> QED BY <3>2, <3>3
  <2>2. CASE ~ConsumeCode(s)
    <3>1. arg' = arg /\ redeemedBy' = redeemedBy
      BY <2>2 DEF TokenStep, RequestFails, FetchConsumed, FindByHash, ExistsByParentHash,
                  RevokeReused, RevokePresented, LoadActiveUser, IssueTokens, history
    <3>2. CASE r # s
      <4>1. pc'[r] = pc[r]
        BY <2>2, <3>2 DEF TokenStep, RequestFails, FetchConsumed, FindByHash, ExistsByParentHash,
                  RevokeReused, RevokePresented, LoadActiveUser, IssueTokens, Goto, TInv, TypeOK
      <4> QED BY <3>1, <4>1, <1>a DEF Holds
    <3>3. CASE r = s
      <4>1. pc[r] \in {"find", "reuse", "burn", "rotate"} => arg[r].kind = "refresh"
        BY DEF TInv, ArgInv, RefreshArg
      <4>2. pc[r] \in {"fetch", "user", "issue"} \/ pc[r] \in {"find", "reuse", "burn", "rotate"}
        BY <2>2, <3>3 DEF TokenStep, RequestFails, FetchConsumed, FindByHash, ExistsByParentHash,
                  RevokeReused, RevokePresented, LoadActiveUser, IssueTokens, Goto, TInv, TypeOK,
                  Holds, Outcomes
      <4> QED BY <3>1, <4>1, <4>2, <1>a DEF Holds
    <3> QED BY <3>2, <3>3
  <2> QED BY <2>1, <2>2
<1> QED BY <1>1, <1>2, <1>3, <1>4, <1>5, <1>6 DEF Next

\* An authorization code yields tokens to one request only, for any number of
\* concurrent requests and account operations.
THEOREM OneRedemption == Spec => []CodeRedeemedOnce
<1>1. TInv /\ OnceInv => CodeRedeemedOnce
  BY DEF OnceInv, CodeRedeemedOnce
<1> QED BY TypeInit, TypeNext, OnceInit, OnceNext, <1>1, PTL DEF Spec
-----------------------------------------------------------------------------
(* The code table implements OneTimeGrant.                                  *)

LEMMA GrantInit == Init => Grant!Init
  BY DEF Init, Grant!Init, CodePhase

\* A set of open codes that one statement closes is an abstract Withdraw.
LEMMA ClosingIsWithdraw ==
    ASSUME NEW S \in SUBSET Codes, redeemedBy' = redeemedBy,
           \A c \in S : codes[c].st = "open" /\ codes'[c].st \notin {"none", "open"},
           \A c \in Codes \ S : CodePhase(c)' = CodePhase(c)
    PROVE  Grant!Next
<1>1. \A c \in S : CodePhase(c) = "open" /\ CodePhase(c)' = "closed"
  BY DEF CodePhase
<1>2. Grant!Withdraw(S)
  BY <1>1 DEF Grant!Withdraw
<1> QED BY <1>2 DEF Grant!Next

LEMMA GrantStutter ==
    ASSUME codes' = codes, redeemedBy' = redeemedBy
    PROVE  UNCHANGED Grant!vars
  BY DEF Grant!vars, CodePhase

LEMMA GrantStep == TInv /\ [Next]_vars => [Grant!Next]_(Grant!vars)
<1> SUFFICES ASSUME TInv, [Next]_vars PROVE Grant!Next \/ UNCHANGED Grant!vars
  OBVIOUS
<1>1. CASE UNCHANGED vars
  BY <1>1, GrantStutter DEF vars, tables, history
<1>2. CASE Environment
  <2>1. ASSUME NEW u \in Users, DeleteUser(u) PROVE Grant!Next
    <3> DEFINE S == {c \in Codes : codes[c].st = "open" /\ codes[c].user = u}
    <3>1. \A c \in S : codes[c].st = "open" /\ codes'[c].st \notin {"none", "open"}
      BY <2>1 DEF DeleteUser, Row
    <3>2. \A c \in Codes \ S : CodePhase(c)' = CodePhase(c)
      BY <2>1 DEF DeleteUser, Row, CodePhase, TInv, TypeOK, Code, Absent
    <3> QED BY <2>1, <3>1, <3>2, ClosingIsWithdraw DEF DeleteUser, history
  <2>2. ASSUME NEW c \in Codes, NEW u \in Users, NEW t \in Tenants, NEW cl \in Clients,
               NEW s \in Scopes, IssueCode(c, u, t, cl, s)
        PROVE  Grant!Next
    <3>1. CodePhase(c) = "unissued" /\ CodePhase(c)' = "open"
      BY <2>2 DEF IssueCode, CodePhase, TInv, TypeOK
    <3>2. \A d \in Codes \ {c} : CodePhase(d)' = CodePhase(d)
      BY <2>2 DEF IssueCode, CodePhase, TInv, TypeOK
    <3>3. Grant!Open(c)
      BY <2>2, <3>1, <3>2 DEF Grant!Open, IssueCode, history
    <3> QED BY <3>3 DEF Grant!Next
  <2> QED BY <1>2, <2>1, <2>2, GrantStutter
          DEF Environment, Tick, UpdateClient, EnableUser, tables, history
<1>3. CASE Arrivals
  BY <1>3, GrantStutter DEF Arrivals, ExchangeCode, ExchangeRefreshToken, tables, history
<1>4. CASE Revocations
  BY <1>4, GrantStutter DEF Revocations, RevokeRefreshToken, history
<1>5. CASE Operations
  <2>1. ASSUME NEW o \in Ops, OpRevokeCodes(o),
               codes' = RevokeAllActiveForUser(op[o].user, op[o].at)
        PROVE  Grant!Next
    <3> DEFINE S == {c \in Codes : codes[c].st = "open" /\ codes[c].user = op[o].user
                                   /\ codes[c].expires > op[o].at}
    <3>1. \A c \in S : codes[c] \in Code
      BY StoredRows DEF TInv, TypeOK, Row
    <3>2. \A c \in S : codes[c].st = "open" /\ codes'[c].st \notin {"none", "open"}
      BY <2>1, <3>1, UsedRow DEF RevokeAllActiveForUser
    <3>3. \A c \in Codes \ S : CodePhase(c)' = CodePhase(c)
      BY <2>1 DEF RevokeAllActiveForUser, CodePhase
    <3> QED BY <2>1, <3>2, <3>3, ClosingIsWithdraw DEF OpRevokeCodes, history
  <2> QED BY <1>5, <2>1, GrantStutter
          DEF Operations, StartOp, FirstWithdrawn, OpStep, OpRevokeTokens, OpRevokeCodes, OpDropped, tables, history
<1>6. ASSUME NEW r \in Requests, ConsumeCode(r) PROVE Grant!Next \/ UNCHANGED Grant!vars
  <2>1. PICK c \in Codes : c = arg[r].cred
    BY <1>6 DEF ConsumeCode, TInv, ArgInv, CodeArg
  <2>2. CASE Redeemable(codes[c], arg[r].tenant, at[r])
    <3>1. codes[c] \in Code
      BY <2>1, <2>2, StoredRows DEF Redeemable, Row, TInv, TypeOK
    <3>2. codes' = [codes EXCEPT ![c] = [codes[c] EXCEPT !.st = "used"]]
      BY <1>6, <2>1, <2>2 DEF ConsumeCode, TInv, TypeOK
    <3>3. codes[c].st = "open" /\ codes'[c].st = "used"
      BY <2>1, <2>2, <3>1, <3>2, UsedRow DEF Redeemable, TInv, TypeOK
    <3>4. CodePhase(c) = "open" /\ CodePhase(c)' = "closed"
      BY <3>3 DEF CodePhase
    <3>5. \A d \in Codes \ {c} : CodePhase(d)' = CodePhase(d)
      BY <2>1, <3>2 DEF CodePhase, TInv, TypeOK
    <3>6. redeemedBy' = [redeemedBy EXCEPT ![c] = r]
      BY <1>6, <2>1, <2>2 DEF ConsumeCode
    <3>7. Grant!Redeem(c, r)
      BY <2>1, <3>4, <3>5, <3>6 DEF Grant!Redeem
    <3> QED BY <2>1, <3>7 DEF Grant!Next
  <2>3. CASE ~Redeemable(codes[c], arg[r].tenant, at[r])
    BY <1>6, <2>1, <2>3, GrantStutter DEF ConsumeCode
  <2> QED BY <2>2, <2>3
<1>7. ASSUME NEW r \in Requests, TokenStep(r) \/ RequestFails(r), ~ConsumeCode(r)
      PROVE  UNCHANGED Grant!vars
  BY <1>7, GrantStutter DEF TokenStep, RequestFails, FetchConsumed, FindByHash,
        ExistsByParentHash, RevokeReused, RevokePresented, LoadActiveUser, IssueTokens,
        tables, history
<1> QED BY <1>1, <1>2, <1>3, <1>4, <1>5, <1>6, <1>7 DEF Next

\* The authorization_codes table, with its two-statement consume, its expiry
\* and the bulk withdrawals of logout, reset, disabling and deletion,
\* implements the abstract store in which a grant closes once and for good.
THEOREM CodesAreOneTimeGrants == Spec => ImplementsOneTimeGrant
<1> QED BY TypeInit, TypeNext, GrantInit, GrantStep, PTL
        DEF Spec, ImplementsOneTimeGrant, Grant!Spec
-----------------------------------------------------------------------------
(* Rows between two statements of a request.                                *)

LEMMA FreshInit == Init => FreshInv
  BY DEF Init, FreshInv, Outcomes

LEMMA FreshNext == TInv /\ FreshInv /\ [Next]_vars => FreshInv'
<1> SUFFICES ASSUME TInv, FreshInv, [Next]_vars PROVE FreshInv'
  OBVIOUS
<1> USE DEF TInv, TypeOK, FreshInv, Outcomes
<1>1. CASE UNCHANGED vars
  BY <1>1 DEF vars, tables, request, history
<1>2. CASE Environment
  BY <1>2 DEF Environment, Tick, IssueCode, UpdateClient, EnableUser, DeleteUser, Row,
              tables, request, history
<1>3. CASE Arrivals
  BY <1>3 DEF Arrivals, ExchangeCode, ExchangeRefreshToken, Goto, tables, history
<1>4. CASE Revocations
  BY <1>4 DEF Revocations, RevokeRefreshToken, Revoke, Row, request, history
<1>5. CASE Operations
  BY <1>5 DEF Operations, StartOp, FirstWithdrawn, OpStep, OpRevokeTokens, OpRevokeCodes, OpDropped,
              RevokeAllForUser, tables, request, history
<1>6. ASSUME NEW r \in Requests, TokenStep(r) \/ RequestFails(r) PROVE FreshInv'
  <2>1. CASE ConsumeCode(r)
    BY <2>1, NoneAssumption DEF ConsumeCode, Goto, ArgInv, CodeArg
  <2>2. CASE RevokeReused(r) \/ RevokePresented(r)
    BY <2>2 DEF RevokeReused, RevokePresented, Revoke, Row, Goto, history, ArgInv, RefreshArg
  <2>3. CASE IssueTokens(r)
    BY <2>3 DEF IssueTokens, Goto, history
  <2>4. CASE \/ FetchConsumed(r) \/ FindByHash(r) \/ ExistsByParentHash(r)
             \/ LoadActiveUser(r) \/ RequestFails(r)
    BY <2>4 DEF FetchConsumed, FindByHash, ExistsByParentHash, LoadActiveUser, RequestFails,
                Goto, tables, history
  <2> QED BY <1>6, <2>1, <2>2, <2>3, <2>4 DEF TokenStep
<1> QED BY <1>1, <1>2, <1>3, <1>4, <1>5, <1>6 DEF Next

\* What any step does to the rows of others: a spent code stays as it is, a
\* refresh token is at most revoked, unless the account is deleted; and a
\* deleted account never returns.
CodeKept(c) ==
    /\ codes[c].st = "used" =>
          \/ codes'[c] = codes[c]
          \/ codes'[c].st = "gone" /\ users'[codes[c].user] = "DELETED"
    /\ codes[c].st = "gone" => codes'[c].st = "gone"

TokenKept(x) ==
    Row(tokens[x]) =>
        \/ /\ Row(tokens'[x]) /\ SameGrant(tokens'[x], tokens[x])
           /\ tokens'[x].parent = tokens[x].parent
           /\ tokens'[x].st \in {tokens[x].st, "revoked"}
        \/ tokens'[x].st = "gone" /\ users'[tokens[x].user] = "DELETED"

RowsKept == /\ \A u \in Users : users[u] = "DELETED" => users'[u] = "DELETED"
            /\ \A c \in Codes : CodeKept(c)
            /\ \A x \in Requests : TokenKept(x)

\* Revoking one token, or all of an account, keeps the rest of every row.
LEMMA RevokeKeeps ==
    ASSUME TInv, NEW x \in Requests,
           \/ \E y \in Requests : tokens' = Revoke(y)
           \/ \E u \in Users : tokens' = RevokeAllForUser(u)
    PROVE  TokenKept(x)
<1> SUFFICES ASSUME Row(tokens[x]) PROVE TokenKept(x)
  BY DEF TokenKept
<1>1. tokens[x] \in RefreshToken
  BY StoredRows DEF TInv, TypeOK
<1>2. tokens'[x] \in {tokens[x], [tokens[x] EXCEPT !.st = "revoked"]}
  BY DEF Revoke, RevokeAllForUser, TInv, TypeOK
<1>3. CASE tokens'[x] = tokens[x]
  BY <1>3 DEF TokenKept, SameGrant
<1>4. CASE tokens'[x] = [tokens[x] EXCEPT !.st = "revoked"]
  BY <1>1, <1>4, RevokedRow, RevokedGrant DEF TokenKept, Row
<1> QED BY <1>2, <1>3, <1>4

LEMMA RowsAreKept == TInv /\ FreshInv /\ [Next]_vars => RowsKept
<1> SUFFICES ASSUME TInv, FreshInv, [Next]_vars PROVE RowsKept
  OBVIOUS
<1>k. ASSUME codes' = codes, users' = users,
             \/ tokens' = tokens
             \/ \E y \in Requests : tokens' = Revoke(y)
             \/ \E u \in Users : tokens' = RevokeAllForUser(u)
      PROVE  RowsKept
  <2>1. CASE tokens' = tokens
    BY <1>k, <2>1 DEF RowsKept, CodeKept, TokenKept, SameGrant
  <2>2. CASE tokens' # tokens
    BY <1>k, <2>2, RevokeKeeps DEF RowsKept, CodeKept
  <2> QED BY <2>1, <2>2
<1>1. CASE UNCHANGED vars
  BY <1>1, <1>k DEF vars, tables
<1>2. CASE Environment
  <2>1. ASSUME NEW u \in Users, DeleteUser(u) PROVE RowsKept
    BY <2>1 DEF DeleteUser, TInv, TypeOK, RowsKept, CodeKept, TokenKept, Row, SameGrant
  <2>2. CASE \E c \in Codes, u \in Users, t \in Tenants, cl \in Clients, s \in Scopes :
                IssueCode(c, u, t, cl, s)
    BY <2>2 DEF IssueCode, TInv, TypeOK, RowsKept, CodeKept, TokenKept, SameGrant
  <2>3. CASE \E u \in Users : EnableUser(u)
    BY <2>3 DEF EnableUser, TInv, TypeOK, RowsKept, CodeKept, TokenKept, SameGrant
  <2> QED BY <1>2, <1>k, <2>1, <2>2, <2>3 DEF Environment, Tick, UpdateClient, tables
<1>3. CASE Arrivals
  BY <1>3, <1>k DEF Arrivals, ExchangeCode, ExchangeRefreshToken, tables
<1>4. CASE Revocations
  BY <1>4, <1>k DEF Revocations, RevokeRefreshToken
<1>5. CASE Operations
  <2>1. ASSUME NEW o \in Ops, OpRevokeCodes(o) PROVE RowsKept
    BY <2>1 DEF OpRevokeCodes, RevokeAllActiveForUser, TInv, TypeOK, RowsKept, CodeKept,
                TokenKept, SameGrant
  <2>2. ASSUME NEW o \in Ops, OpRevokeTokens(o) PROVE RowsKept
    BY <2>2, <1>k DEF OpRevokeTokens, TInv, OpInv
  <2>3. ASSUME NEW o \in Ops, NEW u \in Users, NEW k, StartOp(o, u, k) PROVE RowsKept
    BY <2>3 DEF StartOp, FirstWithdrawn, TInv, TypeOK, RowsKept, CodeKept, TokenKept, SameGrant
  <2> QED BY <1>5, <1>k, <2>1, <2>2, <2>3 DEF Operations, OpStep, OpDropped, tables
<1>6. ASSUME NEW r \in Requests, TokenStep(r) \/ RequestFails(r) PROVE RowsKept
  <2>1. CASE ConsumeCode(r)
    BY <2>1 DEF ConsumeCode, Redeemable, TInv, TypeOK, RowsKept, CodeKept, TokenKept, SameGrant
  <2>2. CASE RevokeReused(r) \/ RevokePresented(r)
    BY <2>2, <1>k DEF RevokeReused, RevokePresented, TInv, ArgInv, RefreshArg
  <2>3. CASE IssueTokens(r)
    BY <2>3 DEF IssueTokens, FreshInv, Outcomes, TInv, TypeOK, RowsKept, CodeKept, TokenKept,
                Row, SameGrant
  <2>4. CASE \/ FetchConsumed(r) \/ FindByHash(r) \/ ExistsByParentHash(r)
             \/ LoadActiveUser(r) \/ RequestFails(r)
    BY <2>4, <1>k DEF FetchConsumed, FindByHash, ExistsByParentHash, LoadActiveUser,
                      RequestFails, tables
  <2> QED BY <1>6, <2>1, <2>2, <2>3, <2>4 DEF TokenStep
<1> QED BY <1>1, <1>2, <1>3, <1>4, <1>5, <1>6 DEF Next

\* A step is somebody else's, or it is the request's own.
Untouched(r) == /\ pc'[r] = pc[r] /\ arg'[r] = arg[r]
                /\ at'[r] = at[r] /\ snap'[r] = snap[r]

Arrives(r) ==
    \E t \in Tenants, cl \in Clients :
        \/ \E c \in Codes, proof \in BOOLEAN : ExchangeCode(r, t, cl, c, proof)
        \/ \E x \in Requests : ExchangeRefreshToken(r, t, cl, x)

LEMMA WhoseStep ==
    ASSUME TInv, [Next]_vars, NEW r \in Requests
    PROVE  Untouched(r) \/ Arrives(r) \/ TokenStep(r) \/ RequestFails(r)
<1> USE DEF Untouched, TInv, TypeOK
<1>1. CASE UNCHANGED vars
  BY <1>1 DEF vars, request
<1>2. CASE Environment
  BY <1>2 DEF Environment, Tick, IssueCode, UpdateClient, EnableUser, DeleteUser, request
<1>3. CASE Arrivals
  <2>1. PICK s \in Requests : Arrives(s)
    BY <1>3 DEF Arrivals, Arrives
  <2> QED BY <2>1 DEF Arrives, ExchangeCode, ExchangeRefreshToken, Goto
<1>4. CASE Revocations
  BY <1>4 DEF Revocations, RevokeRefreshToken, request
<1>5. CASE Operations
  BY <1>5 DEF Operations, StartOp, FirstWithdrawn, OpStep, OpRevokeTokens, OpRevokeCodes, OpDropped, request
<1>6. ASSUME NEW s \in Requests, TokenStep(s) \/ RequestFails(s), s # r PROVE Untouched(r)
  BY <1>6 DEF TokenStep, RequestFails, ConsumeCode, FetchConsumed, FindByHash,
              ExistsByParentHash, RevokeReused, RevokePresented, LoadActiveUser, IssueTokens, Goto
<1> QED BY <1>1, <1>2, <1>3, <1>4, <1>5, <1>6 DEF Next

\* Steps of others keep what a request relies on.
LEMMA SnapFrame ==
    ASSUME TInv, OnceInv, RowsKept, NEW r \in Requests, SnapOK(r), Untouched(r)
    PROVE  SnapOK(r)'
<1> USE DEF Untouched
<1>1. pc[r] = "fetch" /\ Row(codes'[arg[r].cred]) =>
          codes'[arg[r].cred].tenant = arg[r].tenant
  <2> SUFFICES ASSUME pc[r] = "fetch", Row(codes'[arg[r].cred])
               PROVE  codes'[arg[r].cred].tenant = arg[r].tenant
    OBVIOUS
  <2>1. arg[r].cred \in Codes /\ arg[r].kind = "code"
    BY DEF TInv, ArgInv, CodeArg
  <2>2. codes[arg[r].cred].st \in {"used", "gone"}
    BY <2>1 DEF OnceInv, Holds, TInv, TypeOK, Code, Absent
  <2>3. codes'[arg[r].cred] = codes[arg[r].cred]
    BY <2>1, <2>2 DEF RowsKept, CodeKept, Row
  <2> QED BY <2>3 DEF SnapOK
<1>2. pc[r] \in {"user", "issue"} /\ arg[r].kind = "code"
          /\ users'[snap[r].user] # "DELETED" =>
          codes'[arg[r].cred] = snap[r] /\ snap[r].st = "used"
  <2> SUFFICES ASSUME pc[r] \in {"user", "issue"}, arg[r].kind = "code",
                      users'[snap[r].user] # "DELETED"
               PROVE  codes'[arg[r].cred] = snap[r] /\ snap[r].st = "used"
    OBVIOUS
  <2>1. arg[r].cred \in Codes /\ snap[r] \in Code /\ snap[r].user \in Users
    BY DEF TInv, ArgInv, Arg, CodeArg, RefreshArg, Code
  <2>2. codes[arg[r].cred] = snap[r] /\ snap[r].st = "used"
    BY <2>1 DEF SnapOK, RowsKept
  <2> QED BY <2>1, <2>2 DEF RowsKept, CodeKept
<1>3. pc[r] \in {"reuse", "user", "rotate", "issue"} /\ arg[r].kind = "refresh"
          /\ users'[snap[r].user] # "DELETED" =>
          Row(tokens'[arg[r].cred]) /\ SameGrant(tokens'[arg[r].cred], snap[r])
  <2> SUFFICES ASSUME pc[r] \in {"reuse", "user", "rotate", "issue"}, arg[r].kind = "refresh",
                      users'[snap[r].user] # "DELETED"
               PROVE  Row(tokens'[arg[r].cred]) /\ SameGrant(tokens'[arg[r].cred], snap[r])
    OBVIOUS
  <2>1. arg[r].cred \in Requests /\ snap[r] \in RefreshToken /\ snap[r].user \in Users
    BY DEF TInv, ArgInv, Arg, CodeArg, RefreshArg, RefreshToken
  <2>2. Row(tokens[arg[r].cred]) /\ SameGrant(tokens[arg[r].cred], snap[r])
    BY <2>1 DEF SnapOK, RowsKept
  <2> QED BY <2>1, <2>2 DEF RowsKept, TokenKept, SameGrant
<1> QED BY <1>1, <1>2, <1>3 DEF SnapOK

\* Every statement of a request leaves it with what the next one relies on.
LEMMA SnapOwn ==
    ASSUME TInv, OnceInv, RowsKept, NEW r \in Requests, SnapOK(r),
           Arrives(r) \/ TokenStep(r) \/ RequestFails(r)
    PROVE  SnapOK(r)'
<1> USE DEF SnapOK, Goto, Outcomes
<1>1. CASE Arrives(r)
  BY <1>1 DEF Arrives, ExchangeCode, ExchangeRefreshToken, TInv, TypeOK
<1>2. CASE ConsumeCode(r)
  <2>1. arg[r].cred \in Codes
    BY <1>2 DEF ConsumeCode, TInv, ArgInv, CodeArg
  <2>2. CASE Redeemable(codes[arg[r].cred], arg[r].tenant, at[r])
    <3>1. codes[arg[r].cred] \in Code
      BY <2>1, <2>2, StoredRows DEF Redeemable, Row, TInv, TypeOK
    <3>2. [codes[arg[r].cred] EXCEPT !.st = "used"].tenant = codes[arg[r].cred].tenant
      BY <3>1 DEF Code
    <3>3. codes'[arg[r].cred].tenant = arg[r].tenant
      BY <1>2, <2>1, <2>2, <3>2 DEF ConsumeCode, Redeemable, TInv, TypeOK
    <3> QED BY <1>2, <2>2, <3>3 DEF ConsumeCode, TInv, TypeOK
  <2>3. CASE ~Redeemable(codes[arg[r].cred], arg[r].tenant, at[r])
    BY <1>2, <2>3 DEF ConsumeCode, TInv, TypeOK
  <2> QED BY <2>2, <2>3
<1>3. CASE FetchConsumed(r)
  <2>1. arg[r].cred \in Codes /\ arg[r].kind = "code"
    BY <1>3 DEF FetchConsumed, TInv, ArgInv, CodeArg
  <2>2. codes[arg[r].cred].st \in {"used", "gone"}
    BY <1>3, <2>1 DEF FetchConsumed, OnceInv, Holds, TInv, TypeOK, Code, Absent
  <2> QED BY <1>3, <2>1, <2>2 DEF FetchConsumed, Fetched, Row, tables, TInv, TypeOK
<1>4. CASE FindByHash(r)
  <2>1. arg[r].kind = "refresh"
    BY <1>4 DEF FindByHash, TInv, ArgInv, RefreshArg
  <2> QED BY <1>4, <2>1 DEF FindByHash, Presentable, SameGrant, tables, TInv, TypeOK
<1>5. CASE ExistsByParentHash(r)
  <2>1. arg[r].kind = "refresh"
    BY <1>5 DEF ExistsByParentHash, TInv, ArgInv, RefreshArg
  <2> QED BY <1>5, <2>1 DEF ExistsByParentHash, tables, TInv, TypeOK
<1>6. CASE RevokePresented(r)
  <2>1. arg[r].kind = "refresh" /\ arg[r].cred \in Requests
    BY <1>6 DEF RevokePresented, TInv, ArgInv, RefreshArg
  <2>2. snap[r] \in RefreshToken /\ snap[r].user \in Users
    BY <1>6 DEF RevokePresented, TInv, ArgInv, RefreshToken
  <2> QED BY <1>6, <2>1, <2>2 DEF RevokePresented, RowsKept, TokenKept, SameGrant, TInv, TypeOK
<1>7. CASE LoadActiveUser(r)
  BY <1>7 DEF LoadActiveUser, tables, TInv, TypeOK
<1>8. CASE RevokeReused(r) \/ IssueTokens(r) \/ RequestFails(r)
  BY <1>8 DEF RevokeReused, IssueTokens, RequestFails, TInv, TypeOK
<1> QED BY <1>1, <1>2, <1>3, <1>4, <1>5, <1>6, <1>7, <1>8 DEF TokenStep

LEMMA SnapNext == TInv /\ OnceInv /\ FreshInv /\ SnapInv /\ [Next]_vars => SnapInv'
  BY RowsAreKept, WhoseStep, SnapFrame, SnapOwn DEF SnapInv

LEMMA SnapInit == Init => SnapInv
  BY DEF Init, SnapInv, SnapOK
-----------------------------------------------------------------------------
(* Chains.                                                                  *)

\* A refresh token row is an old one, perhaps revoked, or the INSERT of its
\* request.
Inserts(r) ==
    /\ IssueTokens(r) /\ ~(arg[r].kind = "code" /\ snap[r].scope # "offline")
    /\ users[snap[r].user] # "DELETED"
    /\ tokens' = [tokens EXCEPT ![r] = NewRefreshToken(r)]

LEMMA WhereFrom ==
    ASSUME TInv, FreshInv, [Next]_vars, NEW r \in Requests, Row(tokens'[r])
    PROVE  Row(tokens[r]) \/ Inserts(r)
<1> USE DEF TInv, TypeOK, Row
<1>1. CASE UNCHANGED vars
  BY <1>1 DEF vars, tables
<1>2. CASE Environment
  BY <1>2 DEF Environment, Tick, IssueCode, UpdateClient, EnableUser, DeleteUser, tables
<1>3. CASE Arrivals
  BY <1>3 DEF Arrivals, ExchangeCode, ExchangeRefreshToken, tables
<1>4. CASE Revocations
  BY <1>4 DEF Revocations, RevokeRefreshToken, Revoke
<1>5. CASE Operations
  BY <1>5 DEF Operations, StartOp, FirstWithdrawn, OpStep, OpRevokeTokens, OpRevokeCodes, OpDropped,
              RevokeAllForUser, tables
<1>6. ASSUME NEW s \in Requests, TokenStep(s) \/ RequestFails(s)
      PROVE  Row(tokens[r]) \/ Inserts(r)
  <2>1. CASE IssueTokens(s)
    BY <2>1 DEF IssueTokens, Inserts
  <2>2. CASE RevokeReused(s) \/ RevokePresented(s)
    BY <2>2 DEF RevokeReused, RevokePresented, Revoke
  <2> QED BY <1>6, <2>1, <2>2 DEF TokenStep, RequestFails, ConsumeCode, FetchConsumed,
              FindByHash, ExistsByParentHash, LoadActiveUser, tables
<1> QED BY <1>1, <1>2, <1>3, <1>4, <1>5, <1>6 DEF Next

\* The row that a request inserts, and the rows it goes by.
LEMMA Inserted ==
    ASSUME TInv, OnceInv, SnapInv, NEW r \in Requests, Inserts(r)
    PROVE  /\ tokens'[r].user = snap[r].user /\ tokens'[r].scope = snap[r].scope
           /\ tokens'[r].tenant = snap[r].tenant /\ tokens'[r].client = snap[r].client
           /\ users[snap[r].user] # "DELETED" /\ \A x \in Requests \ {r} : tokens'[x] = tokens[x]
           /\ codes' = codes /\ users' = users /\ redeemedBy' = redeemedBy /\ at' = at
           /\ pc[r] = "issue" /\ snap[r].user \in Users
           /\ snap[r].tenant = arg[r].tenant /\ snap[r].client = arg[r].client
           /\ arg[r].kind = "code" =>
                 /\ arg[r].cred \in Codes /\ codes[arg[r].cred] = snap[r]
                 /\ snap[r].st = "used" /\ redeemedBy[arg[r].cred] = r
                 /\ tokens'[r].parent = None /\ tokens'[r].root = arg[r].cred
                 /\ tokens'[r].expires = at[r] + RefreshTtl /\ snap[r].scope = "offline"
           /\ arg[r].kind = "refresh" =>
                 /\ arg[r].cred \in Requests /\ Row(tokens[arg[r].cred])
                 /\ SameGrant(tokens[arg[r].cred], snap[r])
                 /\ tokens'[r].parent = arg[r].cred /\ tokens'[r].root = snap[r].root
                 /\ tokens'[r].expires = snap[r].expires
           /\ arg[r].kind \in {"code", "refresh"}
<1>1. pc[r] = "issue" /\ arg[r] \in Arg
  BY DEF Inserts, IssueTokens, TInv, ArgInv
<1>2. snap[r].user \in Users
  BY <1>1 DEF TInv, ArgInv, Code, RefreshToken
<1>3. arg[r].kind \in {"code", "refresh"}
  BY <1>1 DEF Arg, CodeArg, RefreshArg
<1>4. arg[r].kind = "code" => arg[r].cred \in Codes
  BY <1>1 DEF Arg, CodeArg, RefreshArg
<1>5. arg[r].kind = "refresh" => arg[r].cred \in Requests
  BY <1>1 DEF Arg, CodeArg, RefreshArg
<1>6. SnapOK(r)
  BY DEF SnapInv
<1>7. users[snap[r].user] # "DELETED" /\ tokens'[r] = NewRefreshToken(r)
  BY DEF Inserts, TInv, TypeOK
<1>f. /\ tokens'[r].user = snap[r].user /\ tokens'[r].scope = snap[r].scope
      /\ tokens'[r].tenant = arg[r].tenant /\ tokens'[r].client = arg[r].client
  BY <1>7 DEF NewRefreshToken
<1>g. arg[r].kind = "code" =>
         /\ tokens'[r].parent = None /\ tokens'[r].root = arg[r].cred
         /\ tokens'[r].expires = at[r] + RefreshTtl /\ snap[r].scope = "offline"
  BY <1>7 DEF NewRefreshToken, Inserts
<1>h. arg[r].kind = "refresh" =>
         /\ tokens'[r].parent = arg[r].cred /\ tokens'[r].root = snap[r].root
         /\ tokens'[r].expires = snap[r].expires
  BY <1>7 DEF NewRefreshToken
<1>i. \A x \in Requests \ {r} : tokens'[x] = tokens[x]
  BY DEF Inserts, TInv, TypeOK
<1>8. codes' = codes /\ users' = users /\ redeemedBy' = redeemedBy /\ at' = at
  BY DEF Inserts, IssueTokens, history
<1>9. arg[r].kind = "code" => redeemedBy[arg[r].cred] = r
  BY <1>1 DEF OnceInv, Holds
<1> QED BY <1>1, <1>2, <1>3, <1>4, <1>5, <1>6, <1>7, <1>8, <1>9, <1>f, <1>g, <1>h, <1>i
        DEF SnapOK

LEMMA OwnerNext ==
    ASSUME TInv, OnceInv, FreshInv, SnapInv, OwnerInv, [Next]_vars
    PROVE  OwnerInv'
<1> SUFFICES ASSUME NEW r \in Requests, Row(tokens'[r]) PROVE users'[tokens'[r].user] # "DELETED"
  BY DEF OwnerInv
<1>1. CASE Inserts(r)
  BY <1>1, Inserted
<1>2. CASE Row(tokens[r])
  <2>1. tokens'[r].user = tokens[r].user /\ tokens[r].user \in Users
    BY <1>2, RowsAreKept, StoredRows DEF RowsKept, TokenKept, SameGrant, Row, TInv, TypeOK, RefreshToken
  <2>2. users[tokens[r].user] # "DELETED"
    BY <1>2 DEF OwnerInv
  <2>3. CASE \E u \in Users : DeleteUser(u)
    BY <1>2, <2>1, <2>2, <2>3 DEF DeleteUser, Row, TInv, TypeOK
  <2>4. CASE ~\E u \in Users : DeleteUser(u)
    <3>1. users' = users \/ (\E u \in Users : EnableUser(u))
                         \/ (\E o \in Ops, u \in Users, k \in {"reset", "disable", "logout"} : StartOp(o, u, k))
      BY <2>4 DEF Next, Environment, Arrivals, Revocations, Operations, Tick, IssueCode,
         UpdateClient, ExchangeCode, ExchangeRefreshToken, RevokeRefreshToken,
         OpStep, OpRevokeTokens, OpRevokeCodes, OpDropped, TokenStep,
         RequestFails, ConsumeCode, FetchConsumed, FindByHash, ExistsByParentHash, RevokeReused,
         RevokePresented, LoadActiveUser, IssueTokens, tables, vars
    <3> QED BY <2>1, <2>2, <3>1 DEF EnableUser, StartOp, FirstWithdrawn, TInv, TypeOK
  <2> QED BY <2>3, <2>4
<1> QED BY <1>1, <1>2, WhereFrom

\* What a row that stays was and is.
LEMMA Stays ==
    ASSUME TInv, FreshInv, OwnerInv', [Next]_vars, NEW r \in Requests, Row(tokens[r]), Row(tokens'[r])
    PROVE  /\ SameGrant(tokens'[r], tokens[r])
           /\ tokens'[r].parent = tokens[r].parent
           /\ tokens'[r].st \in {tokens[r].st, "revoked"}
           /\ users'[tokens[r].user] # "DELETED"
  BY RowsAreKept DEF RowsKept, TokenKept, SameGrant, Row, OwnerInv

\* The first redemption of a code and the clock it was made at are facts.
LEMMA RedemptionStays ==
    ASSUME TInv, FreshInv, [Next]_vars, NEW c \in Codes, codes[c].st = "used",
           redeemedBy[c] \in Requests
    PROVE  redeemedBy'[c] = redeemedBy[c] /\ at'[redeemedBy[c]] = at[redeemedBy[c]]
<1>1. redeemedBy'[c] = redeemedBy[c]
  <2>1. ASSUME NEW r \in Requests, ConsumeCode(r) PROVE redeemedBy'[c] = redeemedBy[c]
    BY <2>1 DEF ConsumeCode, Redeemable, TInv, TypeOK
  <2> QED
    BY <2>1 DEF Next, Environment, Arrivals, Revocations, Operations, Tick, IssueCode,
         UpdateClient, EnableUser, DeleteUser, ExchangeCode, ExchangeRefreshToken,
         RevokeRefreshToken, StartOp, FirstWithdrawn, OpStep, OpRevokeTokens, OpRevokeCodes,
         OpDropped, TokenStep, RequestFails, FetchConsumed, FindByHash, ExistsByParentHash,
         RevokeReused, RevokePresented, LoadActiveUser, IssueTokens, history, vars
<1>2. pc[redeemedBy[c]] # "new"
  BY NoneAssumption DEF FreshInv
<1>3. ~Arrives(redeemedBy[c])
  BY <1>2 DEF Arrives, ExchangeCode, ExchangeRefreshToken
<1>4. TokenStep(redeemedBy[c]) \/ RequestFails(redeemedBy[c]) => at' = at
  BY DEF TokenStep, RequestFails, ConsumeCode, FetchConsumed, FindByHash, ExistsByParentHash,
         RevokeReused, RevokePresented, LoadActiveUser, IssueTokens
<1> QED BY <1>1, <1>3, <1>4, WhoseStep DEF Untouched

LEMMA LineageNext ==
    ASSUME TInv, OnceInv, FreshInv, SnapInv, OwnerInv, OwnerInv', GrantLineage, [Next]_vars
    PROVE  GrantLineage'
<1> DEFINE Lineage(x, cs, by, t) ==
             /\ cs[x.root].st = "used" /\ cs[x.root].scope = "offline" /\ x.scope = "offline"
             /\ <<x.user, x.tenant, x.client>>
                  = <<cs[x.root].user, cs[x.root].tenant, cs[x.root].client>>
             /\ by[x.root] \in Requests
             /\ x.expires = t[by[x.root]] + RefreshTtl
<1> SUFFICES ASSUME NEW r \in Requests, Row(tokens'[r])
             PROVE  Lineage(tokens'[r], codes', redeemedBy', at')
  BY DEF GrantLineage
<1>0. \A x \in Requests : Row(tokens[x]) => Lineage(tokens[x], codes, redeemedBy, at)
  BY DEF GrantLineage
<1>1. CASE Row(tokens[r])
  <2>1. Lineage(tokens[r], codes, redeemedBy, at)
    BY <1>0, <1>1
  <2>2. tokens[r].root \in Codes /\ tokens[r] \in RefreshToken
    BY <1>1, StoredRows DEF TInv, TypeOK, RefreshToken
  <2>3. SameGrant(tokens'[r], tokens[r]) /\ users'[tokens[r].user] # "DELETED"
    BY <1>1, Stays
  <2>4. codes'[tokens[r].root] = codes[tokens[r].root]
    BY <2>1, <2>2, <2>3, RowsAreKept DEF RowsKept, CodeKept
  <2>5. redeemedBy'[tokens[r].root] = redeemedBy[tokens[r].root]
        /\ at'[redeemedBy[tokens[r].root]] = at[redeemedBy[tokens[r].root]]
    BY <2>1, <2>2, RedemptionStays
  <2> QED BY <2>1, <2>3, <2>4, <2>5 DEF SameGrant
<1>2. CASE Inserts(r)
  <2>1. CASE arg[r].kind = "code"
    <3> QED BY <1>2, <2>1, Inserted
  <2>2. CASE arg[r].kind = "refresh"
    <3>1. Lineage(tokens[arg[r].cred], codes, redeemedBy, at)
      BY <1>0, <1>2, <2>2, Inserted
    <3> QED BY <1>2, <2>2, <3>1, Inserted DEF SameGrant
  <2> QED BY <1>2, <2>1, <2>2, Inserted
<1> QED BY <1>1, <1>2, WhereFrom

\* A rotation leaves a revoked predecessor of the same chain.
LEMMA RotateNext ==
    ASSUME TInv, FreshInv, SnapInv, RotateInv, [Next]_vars
    PROVE  RotateInv'
<1> SUFFICES ASSUME NEW r \in Requests, pc'[r] = "issue", arg'[r].kind = "refresh",
                    users'[snap'[r].user] # "DELETED"
             PROVE  tokens'[arg'[r].cred].st = "revoked"
  BY DEF RotateInv
<1>0. RowsKept
  BY RowsAreKept
<1>1. CASE Untouched(r)
  <2>1. arg[r].cred \in Requests /\ snap[r] \in RefreshToken /\ snap[r].user \in Users
    BY <1>1 DEF Untouched, TInv, ArgInv, Arg, CodeArg, RefreshArg, RefreshToken
  <2>2. users[snap[r].user] # "DELETED"
    BY <1>0, <1>1, <2>1 DEF RowsKept, Untouched
  <2>3. tokens[arg[r].cred].st = "revoked" /\ SameGrant(tokens[arg[r].cred], snap[r])
    BY <1>1, <2>2 DEF RotateInv, SnapInv, SnapOK, Untouched
  <2> QED BY <1>0, <1>1, <2>1, <2>3 DEF RowsKept, TokenKept, Row, Untouched, SameGrant
<1>2. CASE RevokePresented(r)
  <2>1. arg[r].cred \in Requests /\ arg[r].kind = "refresh" /\ pc[r] = "rotate"
        /\ arg' = arg /\ snap' = snap /\ users' = users
    BY <1>2 DEF RevokePresented, TInv, ArgInv, RefreshArg
  <2>2. Row(tokens[arg[r].cred])
    BY <2>1 DEF SnapInv, SnapOK
  <2>3. tokens'[arg[r].cred] = [tokens[arg[r].cred] EXCEPT !.st = "revoked"]
    BY <1>2, <2>1, <2>2 DEF RevokePresented, Revoke, TInv, TypeOK
  <2>4. tokens[arg[r].cred] \in RefreshToken
    BY <2>1, <2>2, StoredRows DEF TInv, TypeOK
  <2> QED BY <2>1, <2>3, <2>4, RevokedRow
<1>3. ~Arrives(r)
  BY DEF Arrives, ExchangeCode, ExchangeRefreshToken, Goto, TInv, TypeOK
<1>4. CASE TokenStep(r) \/ RequestFails(r)
  <2>1. CASE LoadActiveUser(r)
    BY <2>1 DEF LoadActiveUser, Goto, TInv, TypeOK
  <2> QED BY <1>2, <1>4, <2>1 DEF TokenStep, RequestFails, ConsumeCode, FetchConsumed,
              FindByHash, ExistsByParentHash, RevokeReused, IssueTokens, Goto, Outcomes, TInv, TypeOK
<1> QED BY <1>1, <1>3, <1>4, WhoseStep

LEMMA ParentNext ==
    ASSUME TInv, OnceInv, FreshInv, SnapInv, OwnerInv', RotateInv, ParentInv, [Next]_vars
    PROVE  ParentInv'
<1> SUFFICES ASSUME NEW r \in Requests, Row(tokens'[r]), tokens'[r].parent # None
             PROVE  /\ tokens'[tokens'[r].parent].st = "revoked"
                    /\ SameGrant(tokens'[tokens'[r].parent], tokens'[r])
  BY DEF ParentInv
<1>1. CASE Row(tokens[r])
  <2>1. PICK p : p = tokens[r].parent
    OBVIOUS
  <2>2. p \in Requests /\ tokens[r] \in RefreshToken
    <3>1. tokens[r] \in RefreshToken
      BY <1>1, StoredRows DEF TInv, TypeOK
    <3> QED BY <1>1, <2>1, <3>1, Stays DEF RefreshToken
  <2>3. tokens[p].st = "revoked" /\ SameGrant(tokens[p], tokens[r])
    BY <1>1, <2>1, Stays DEF ParentInv
  <2>4. /\ SameGrant(tokens'[r], tokens[r]) /\ users'[tokens[r].user] # "DELETED"
        /\ tokens'[r].parent = p
    BY <1>1, <2>1, Stays
  <2>5. Row(tokens'[p]) /\ tokens'[p].st = "revoked" /\ SameGrant(tokens'[p], tokens[p])
    BY <2>2, <2>3, <2>4, RowsAreKept DEF RowsKept, TokenKept, Row, SameGrant
  <2> QED BY <2>3, <2>4, <2>5 DEF SameGrant
<1>2. CASE Inserts(r)
  <2>1. arg[r].kind = "refresh"
    BY <1>2, Inserted
  <2>2. tokens[arg[r].cred].st = "revoked" /\ arg[r].cred # r
    <3>1. tokens[r].st = "none"
      BY <1>2, Inserted DEF FreshInv, Outcomes
    <3> QED BY <1>2, <2>1, <3>1, Inserted DEF RotateInv, Row
  <2>3. tokens'[arg[r].cred] = tokens[arg[r].cred]
    BY <1>2, <2>1, <2>2, Inserted
  <2>4. SameGrant(snap[r], tokens'[r])
    BY <1>2, <2>1, Inserted DEF SameGrant
  <2>5. SameGrant(tokens[arg[r].cred], snap[r]) /\ tokens'[r].parent = arg[r].cred
    BY <1>2, <2>1, Inserted
  <2> QED BY <2>2, <2>3, <2>4, <2>5 DEF SameGrant
<1> QED BY <1>1, <1>2, WhereFrom

ChainInv == /\ TInv /\ OnceInv /\ FreshInv /\ SnapInv /\ OwnerInv
            /\ GrantLineage /\ RotateInv /\ ParentInv

LEMMA ChainInit == Init => ChainInv
<1> SUFFICES ASSUME Init PROVE ChainInv
  OBVIOUS
<1>1. OwnerInv /\ GrantLineage /\ RotateInv /\ ParentInv
  BY DEF Init, OwnerInv, GrantLineage, RotateInv, ParentInv, Row
<1> QED BY <1>1, TypeInit, OnceInit, FreshInit, SnapInit DEF ChainInv

LEMMA ChainNext == ChainInv /\ [Next]_vars => ChainInv'
<1> SUFFICES ASSUME ChainInv, [Next]_vars PROVE ChainInv'
  OBVIOUS
<1>1. TInv' /\ OnceInv' /\ FreshInv' /\ SnapInv'
  BY TypeNext, OnceNext, FreshNext, SnapNext DEF ChainInv
<1>2. OwnerInv'
  BY OwnerNext DEF ChainInv
<1>3. GrantLineage'
  BY <1>2, LineageNext DEF ChainInv
<1>4. RotateInv'
  BY RotateNext DEF ChainInv
<1>5. ParentInv'
  BY <1>2, ParentNext DEF ChainInv
<1> QED BY <1>1, <1>2, <1>3, <1>4, <1>5 DEF ChainInv

\* Rotation, however often and however interleaved with withdrawals, crosses
\* no account, client or tenant and moves no expiry.
THEOREM ChainsKeepTheirGrant == Spec => []GrantLineage
<1>1. ChainInv => GrantLineage
  BY DEF ChainInv
<1> QED BY ChainInit, ChainNext, <1>1, PTL DEF Spec

\* A refresh token that has a successor is revoked, also when the rotating
\* request failed or was dropped half-way.
THEOREM PredecessorsAreRevoked == Spec => []RotatedParentRevoked
<1>1. ChainInv => RotatedParentRevoked
  BY DEF ChainInv, ParentInv, RotatedParentRevoked
<1> QED BY ChainInit, ChainNext, <1>1, PTL DEF Spec
-----------------------------------------------------------------------------
(* Clocks.                                                                  *)

\* The clock a request has read does not change any more.
LEMMA ReadOnce ==
    ASSUME TInv, [Next]_vars, NEW r \in Requests, pc[r] # "new"
    PROVE  at'[r] = at[r] /\ pc'[r] # "new" /\ arg'[r] = arg[r]
<1>1. ~Arrives(r)
  BY DEF Arrives, ExchangeCode, ExchangeRefreshToken
<1>2. CASE TokenStep(r) \/ RequestFails(r)
  BY <1>2 DEF TokenStep, RequestFails, ConsumeCode, FetchConsumed, FindByHash,
      ExistsByParentHash, RevokeReused, RevokePresented, LoadActiveUser, IssueTokens, Goto,
      Outcomes, TInv, TypeOK
<1> QED BY <1>1, <1>2, WhoseStep DEF Untouched

LEMMA TimeGoesOn ==
    ASSUME TInv, [Next]_vars
    PROVE  now' \in Int /\ now <= now'
<1>1. now' = now \/ now' = now + 1
  BY DEF Next, Environment, Arrivals, Revocations, Operations, Tick, IssueCode,
     UpdateClient, EnableUser, DeleteUser, ExchangeCode, ExchangeRefreshToken,
     RevokeRefreshToken, StartOp, FirstWithdrawn, OpStep, OpRevokeTokens, OpRevokeCodes,
     OpDropped, TokenStep, RequestFails, ConsumeCode, FetchConsumed, FindByHash,
     ExistsByParentHash, RevokeReused, RevokePresented, LoadActiveUser, IssueTokens, vars
<1> QED BY <1>1, TtlAssumption DEF TInv, TypeOK

\* ClockInv, one request at a time.
ClockOK(r) ==
    /\ at[r] <= now
    /\ pc[r] \in {"find", "reuse", "user", "rotate", "issue"} /\ arg[r].kind = "refresh" =>
          at[arg[r].cred] <= at[r] /\ pc[arg[r].cred] # "new"
    /\ pc[r] \in {"user", "rotate", "issue"} /\ arg[r].kind = "refresh" =>
          at[r] < snap[r].expires

LEMMA ClockNext ==
    ASSUME TInv, ClockInv, [Next]_vars
    PROVE  ClockInv'
<1> SUFFICES ASSUME NEW r \in Requests PROVE ClockOK(r)'
  BY DEF ClockInv, ClockOK
<1>0. \A x \in Requests : ClockOK(x)
  BY DEF ClockInv, ClockOK
<1>1. now \in Int /\ now' \in Int /\ now <= now' /\ \A x \in Requests : at[x] \in Int
  BY TimeGoesOn, TtlAssumption DEF TInv, TypeOK
<1>2. CASE Arrives(r)
  <2>1. at'[r] = now /\ now' = now /\ pc'[r] \in {"consume", "find"}
    BY <1>2 DEF Arrives, ExchangeCode, ExchangeRefreshToken, Goto, TInv, TypeOK
  <2>2. pc'[r] = "find" => at'[arg'[r].cred] <= at'[r] /\ pc'[arg'[r].cred] # "new"
    <3>1. ASSUME pc'[r] = "find"
          PROVE  at'[arg'[r].cred] <= at'[r] /\ pc'[arg'[r].cred] # "new"
      <4>1. PICK t \in Tenants, cl \in Clients, x \in Requests : ExchangeRefreshToken(r, t, cl, x)
        BY <1>2, <3>1 DEF Arrives, ExchangeCode, Goto, TInv, TypeOK
      <4>2. arg'[r].cred = x /\ pc[x] = "ok" /\ pc[r] = "new"
        BY <4>1 DEF ExchangeRefreshToken, TInv, TypeOK
      <4> QED BY <1>0, <1>1, <2>1, <4>2, ReadOnce DEF ClockOK
    <3> QED BY <3>1
  <2> QED BY <1>1, <2>1, <2>2 DEF ClockOK
<1>3. CASE pc[r] # "new"
  <2>1. at'[r] = at[r] /\ arg'[r] = arg[r] /\ at'[r] <= now'
    BY <1>0, <1>1, <1>3, ReadOnce DEF ClockOK
  <2>2. ASSUME pc'[r] \in {"find", "reuse", "user", "rotate", "issue"}, arg[r].kind = "refresh"
        PROVE  /\ pc[r] \in {"find", "reuse", "user", "rotate", "issue"}
               /\ arg[r] \in RefreshArg
    <3>1. pc[r] \notin {"consume", "fetch"}
      BY <2>2 DEF TInv, ArgInv, CodeArg
    <3>2. pc[r] \in {"find", "reuse", "user", "rotate", "issue"}
      BY <1>3, <2>2, <3>1, WhoseStep DEF Untouched, Arrives, ExchangeCode, ExchangeRefreshToken,
          TokenStep, RequestFails, ConsumeCode, FetchConsumed, FindByHash, ExistsByParentHash,
          RevokeReused, RevokePresented, LoadActiveUser, IssueTokens, Goto, Outcomes, TInv, TypeOK
    <3> QED BY <2>2, <3>2 DEF TInv, ArgInv, Arg, CodeArg
  <2>3. ASSUME pc'[r] \in {"find", "reuse", "user", "rotate", "issue"}, arg[r].kind = "refresh"
        PROVE  at'[arg[r].cred] <= at[r] /\ pc'[arg[r].cred] # "new"
    <3>1. arg[r].cred \in Requests /\ at[arg[r].cred] <= at[r] /\ pc[arg[r].cred] # "new"
      BY <1>0, <2>2, <2>3 DEF ClockOK, RefreshArg
    <3> QED BY <3>1, ReadOnce
  <2>4. ASSUME pc'[r] \in {"user", "rotate", "issue"}, arg[r].kind = "refresh"
        PROVE  at[r] < snap'[r].expires
    <3>1. pc[r] \in {"find", "reuse", "user", "rotate", "issue"}
      BY <2>2, <2>4
    <3>2. CASE ExistsByParentHash(r)
      <4>1. IsValidAt(snap[r], at[r]) /\ snap' = snap /\ snap[r] \in RefreshToken
        BY <2>4, <3>2 DEF ExistsByParentHash, Goto, TInv, TypeOK, ArgInv
      <4> QED BY <1>1, <4>1 DEF IsValidAt, RefreshToken
    <3>3. CASE ~ExistsByParentHash(r)
      <4>1. pc[r] \in {"user", "rotate", "issue"} /\ snap'[r] = snap[r]
        BY <2>4, <3>1, <3>3, WhoseStep DEF Untouched, Arrives, ExchangeCode,
          ExchangeRefreshToken, TokenStep, RequestFails, ConsumeCode, FetchConsumed, FindByHash,
          RevokeReused, RevokePresented, LoadActiveUser, IssueTokens, Goto, Outcomes, TInv, TypeOK
      <4> QED BY <1>0, <2>4, <4>1 DEF ClockOK
    <3> QED BY <3>2, <3>3
  <2> QED BY <2>1, <2>3, <2>4 DEF ClockOK
<1>4. CASE pc[r] = "new" /\ ~Arrives(r)
  <2>1. Untouched(r)
    BY <1>4, WhoseStep DEF TokenStep, RequestFails, ConsumeCode, FetchConsumed, FindByHash,
       ExistsByParentHash, RevokeReused, RevokePresented, LoadActiveUser, IssueTokens
  <2>2. at'[r] = at[r] /\ pc'[r] = "new" /\ at[r] <= now
    BY <1>0, <1>4, <2>1 DEF Untouched, ClockOK
  <2>3. at'[r] <= now'
    BY <1>1, <2>2
  <2> QED BY <2>2, <2>3 DEF ClockOK
<1> QED BY <1>2, <1>3, <1>4

LEMMA LifetimeNext ==
    ASSUME ChainInv, ClockInv, RotationWithinLifetime, [Next]_vars, OwnerInv'
    PROVE  RotationWithinLifetime'
<1> SUFFICES ASSUME NEW r \in Requests, Row(tokens'[r]), tokens'[r].parent # None
             PROVE  at'[tokens'[r].parent] <= at'[r] /\ at'[r] < tokens'[r].expires
  BY DEF RotationWithinLifetime
<1> USE DEF ChainInv
<1>1. CASE Row(tokens[r])
  <2>1. /\ tokens'[r].parent = tokens[r].parent /\ tokens'[r].expires = tokens[r].expires
        /\ tokens[r].parent # None
    BY <1>1, Stays DEF SameGrant
  <2>2. tokens[r] \in RefreshToken /\ tokens[r].parent \in Requests
    <3>1. tokens[r] \in RefreshToken
      BY <1>1, StoredRows DEF TInv, TypeOK
    <3> QED BY <2>1, <3>1 DEF RefreshToken
  <2>3. pc[r] # "new" /\ pc[tokens[r].parent] # "new"
    <3>1. tokens[tokens[r].parent].st = "revoked"
      BY <1>1, <2>1 DEF ParentInv
    <3> QED BY <1>1, <2>2, <3>1 DEF FreshInv, Outcomes, Row
  <2>4. at'[r] = at[r] /\ at'[tokens[r].parent] = at[tokens[r].parent]
    BY <2>2, <2>3, ReadOnce
  <2> QED BY <1>1, <2>1, <2>4 DEF RotationWithinLifetime
<1>2. CASE Inserts(r)
  <2>1. arg[r].kind = "refresh" /\ pc[r] = "issue" /\ at' = at
    BY <1>2, Inserted
  <2>2. tokens'[r].parent = arg[r].cred /\ tokens'[r].expires = snap[r].expires
    BY <1>2, <2>1, Inserted
  <2> QED BY <2>1, <2>2 DEF ClockInv
<1> QED BY <1>1, <1>2, WhereFrom

\* The inductive invariant of the module.
LEMMA Inductive ==
    /\ Init => IInv
    /\ IInv /\ [Next]_vars => IInv'
<1>1. Init => ClockInv /\ RotationWithinLifetime
  BY DEF Init, ClockInv, RotationWithinLifetime, Row
<1>2. ASSUME IInv, [Next]_vars PROVE IInv'
  <2>1. ChainInv /\ ClockInv /\ RotationWithinLifetime
    BY <1>2 DEF IInv, ChainInv, TInv
  <2>2. ChainInv' /\ OwnerInv'
    BY <1>2, <2>1, ChainNext DEF ChainInv
  <2>3. ClockInv'
    BY <1>2, <2>1, ClockNext DEF ChainInv
  <2>4. RotationWithinLifetime'
    BY <1>2, <2>1, <2>2, LifetimeNext
  <2> QED BY <2>2, <2>3, <2>4 DEF IInv, ChainInv, TInv
<1> QED BY <1>1, <1>2, ChainInit DEF IInv, ChainInv, TInv

\* A successor is issued for a request that read the clock within the
\* lifetime of the chain, and not before the predecessor's request did.
THEOREM RotationsAreInTime == Spec => []RotationWithinLifetime
<1>1. IInv => RotationWithinLifetime
  BY DEF IInv
<1> QED BY Inductive, <1>1, PTL DEF Spec
-----------------------------------------------------------------------------
(* Credentials that were spent already.                                     *)

\* What a request arrives with is spent for good.
SpentCode(c, time) == codes[c].st # "none" /\ ~(codes[c].st = "open" /\ codes[c].expires > time)
SpentToken(x, time) == pc[x] \in Outcomes /\ ~(tokens[x].st = "live" /\ tokens[x].expires > time)

\* How far such a request gets.
DeadOK(r) ==
    r \in dead =>
        /\ pc[r] \in {"consume", "find", "reuse", "burn", "failed"} /\ ~Row(tokens[r])
        /\ pc[r] = "consume" => SpentCode(arg[r].cred, at[r])
        /\ pc[r] = "find" => SpentToken(arg[r].cred, at[r])
        /\ pc[r] = "reuse" => ~IsValidAt(snap[r], at[r])

DeadInv == \A r \in Requests : DeadOK(r)

\* An open code is closed, or stays as it is.
LEMMA OpenStays ==
    ASSUME TInv, [Next]_vars, NEW c \in Codes, codes[c].st = "open"
    PROVE  codes'[c].st # "none" /\ (codes'[c].st = "open" => codes'[c] = codes[c])
<1> USE DEF TInv, TypeOK
<1>1. CASE UNCHANGED vars
  BY <1>1 DEF vars, tables
<1>2. CASE Environment
  <2>1. CASE \E u \in Users : DeleteUser(u)
    BY <2>1 DEF DeleteUser
  <2>2. CASE \E d \in Codes, u \in Users, t \in Tenants, cl \in Clients, s \in Scopes :
                IssueCode(d, u, t, cl, s)
    BY <2>2 DEF IssueCode
  <2> QED BY <1>2, <2>1, <2>2 DEF Environment, Tick, UpdateClient, EnableUser, tables
<1>3. CASE Arrivals
  BY <1>3 DEF Arrivals, ExchangeCode, ExchangeRefreshToken, tables
<1>4. CASE Revocations
  BY <1>4 DEF Revocations, RevokeRefreshToken
<1>5. CASE Operations
  <2>1. codes[c] \in Code
    BY StoredRows DEF Row
  <2>2. [codes[c] EXCEPT !.st = "used"].st = "used"
    BY <2>1, UsedRow
  <2> QED BY <1>5, <2>2 DEF Operations, StartOp, FirstWithdrawn, OpStep, OpRevokeTokens, OpRevokeCodes, OpDropped,
              tables, RevokeAllActiveForUser
<1>6. ASSUME NEW r \in Requests, TokenStep(r) \/ RequestFails(r)
      PROVE  codes'[c].st # "none" /\ (codes'[c].st = "open" => codes'[c] = codes[c])
  <2>0. codes[c] \in Code /\ [codes[c] EXCEPT !.st = "used"].st = "used"
    BY StoredRows, UsedRow DEF Row
  <2>1. CASE ConsumeCode(r)
    <3>1. codes'[c] = codes[c] \/ codes'[c] = [codes[c] EXCEPT !.st = "used"]
      BY <2>1 DEF ConsumeCode
    <3> QED BY <2>0, <3>1
  <2> QED BY <1>6, <2>1 DEF TokenStep, RequestFails, FetchConsumed, FindByHash, ExistsByParentHash,
                      RevokeReused, RevokePresented, LoadActiveUser, IssueTokens, tables
<1> QED BY <1>1, <1>2, <1>3, <1>4, <1>5, <1>6 DEF Next

LEMMA SpentCodeStays ==
    ASSUME TInv, [Next]_vars, NEW c \in Codes, NEW time \in Int, SpentCode(c, time)
    PROVE  codes'[c].st # "none" /\ ~(codes'[c].st = "open" /\ codes'[c].expires > time)
<1>1. CASE codes[c].st = "open"
  BY <1>1, OpenStays DEF SpentCode
<1>2. CASE codes[c].st # "open"
  BY <1>2, ClosedStays DEF SpentCode, Closed
<1> QED BY <1>1, <1>2

\* A request that is answered has inserted what it inserts.
LEMMA AnsweredStays ==
    ASSUME TInv, [Next]_vars, NEW r \in Requests, pc[r] \in Outcomes
    PROVE  pc'[r] \in Outcomes /\ ~Inserts(r)
<1>1. ~Arrives(r) /\ ~TokenStep(r) /\ ~RequestFails(r)
  BY DEF Arrives, ExchangeCode, ExchangeRefreshToken, TokenStep, RequestFails, ConsumeCode,
     FetchConsumed, FindByHash, ExistsByParentHash, RevokeReused, RevokePresented, LoadActiveUser,
     IssueTokens, Outcomes
<1> QED BY <1>1, WhoseStep DEF Untouched, Inserts, TokenStep

LEMMA SpentTokenStays ==
    ASSUME TInv, FreshInv, [Next]_vars, NEW x \in Requests, NEW time \in Int, SpentToken(x, time)
    PROVE  pc'[x] \in Outcomes /\ ~(tokens'[x].st = "live" /\ tokens'[x].expires > time)
<1>1. pc'[x] \in Outcomes /\ ~Inserts(x)
  BY AnsweredStays DEF SpentToken
<1>2. CASE Row(tokens'[x])
  <2>1. Row(tokens[x]) /\ TokenKept(x)
    BY <1>1, <1>2, WhereFrom, RowsAreKept DEF RowsKept
  <2>2. tokens'[x].st \in {tokens[x].st, "revoked"} /\ tokens'[x].expires = tokens[x].expires
    BY <1>2, <2>1 DEF TokenKept, SameGrant, Row
  <2> QED BY <1>1, <2>2 DEF SpentToken
<1>3. CASE ~Row(tokens'[x])
  <2>1. tokens'[x].st # "live"
    BY <1>3 DEF Row
  <2> QED BY <1>1, <2>1
<1> QED BY <1>2, <1>3

\* A request counts as late only from its arrival on.
LEMMA LateFromArrival ==
    ASSUME TInv, FreshInv, [Next]_vars, NEW r \in Requests, r \in dead', r \notin dead
    PROVE  \/ /\ pc'[r] = "consume" /\ arg'[r].cred \in Codes /\ pc[r] = "new" /\ tokens' = tokens
              /\ SpentCode(arg[r].cred, at[r])'
           \/ /\ pc'[r] = "find" /\ arg'[r].cred \in Requests /\ pc[r] = "new" /\ tokens' = tokens
              /\ SpentToken(arg[r].cred, at[r])'
<1>1. CASE Arrivals
  <2>1. PICK s \in Requests, t \in Tenants, cl \in Clients :
            \/ \E c \in Codes, proof \in BOOLEAN : ExchangeCode(s, t, cl, c, proof)
            \/ \E x \in Requests : ExchangeRefreshToken(s, t, cl, x)
    BY <1>1 DEF Arrivals
  <2>2. CASE \E c \in Codes, proof \in BOOLEAN : ExchangeCode(s, t, cl, c, proof)
    <3>1. PICK c \in Codes, proof \in BOOLEAN : ExchangeCode(s, t, cl, c, proof)
      BY <2>2
    <3>2. s = r /\ codes[c].st # "none" /\ ~(codes[c].st = "open" /\ codes[c].expires > now)
      BY <3>1 DEF ExchangeCode
    <3>3. /\ pc'[r] = "consume" /\ arg'[r].cred = c /\ at'[r] = now /\ pc[r] = "new"
          /\ tokens' = tokens /\ codes' = codes
      BY <3>1, <3>2 DEF ExchangeCode, Goto, tables, TInv, TypeOK
    <3> QED BY <3>2, <3>3 DEF SpentCode
  <2>3. CASE \E x \in Requests : ExchangeRefreshToken(s, t, cl, x)
    <3>1. PICK x \in Requests : ExchangeRefreshToken(s, t, cl, x)
      BY <2>3
    <3>2. s = r /\ pc[x] = "ok" /\ ~(tokens[x].st = "live" /\ tokens[x].expires > now)
      BY <3>1 DEF ExchangeRefreshToken
    <3>3. /\ pc'[r] = "find" /\ arg'[r].cred = x /\ at'[r] = now /\ pc[r] = "new"
          /\ tokens' = tokens /\ pc'[x] = "ok"
      BY <3>1, <3>2 DEF ExchangeRefreshToken, Goto, tables, TInv, TypeOK
    <3> QED BY <3>2, <3>3 DEF SpentToken, Outcomes
  <2> QED BY <2>1, <2>2, <2>3
<1>2. CASE ~Arrivals
  <2>1. dead' = dead
    BY <1>2 DEF Next, Environment, Revocations, Operations, Tick, IssueCode, UpdateClient,
       EnableUser, DeleteUser, RevokeRefreshToken, StartOp, FirstWithdrawn, OpStep, OpRevokeTokens, OpRevokeCodes,
       OpDropped, TokenStep, RequestFails, ConsumeCode, FetchConsumed, FindByHash,
       ExistsByParentHash, RevokeReused, RevokePresented, LoadActiveUser, IssueTokens, vars, history
  <2> QED BY <2>1
<1> QED BY <1>1, <1>2

LEMMA DeadNext ==
    ASSUME TInv, FreshInv, DeadInv, [Next]_vars
    PROVE  DeadInv'
<1> SUFFICES ASSUME NEW r \in Requests, r \in dead' PROVE DeadOK(r)'
  BY DEF DeadInv, DeadOK
<1>1. CASE r \notin dead
  <2>1. pc[r] = "new" /\ tokens' = tokens => ~Row(tokens'[r])
    BY DEF FreshInv, Outcomes, Row
  <2> QED BY <1>1, <2>1, LateFromArrival DEF DeadOK
<1>2. CASE r \in dead
  <2>0. DeadOK(r) /\ pc[r] \in {"consume", "find", "reuse", "burn", "failed"} /\ ~Row(tokens[r])
    BY <1>2 DEF DeadInv, DeadOK
  <2>1. ~Row(tokens'[r])
    BY <2>0, WhereFrom DEF Inserts, IssueTokens
  <2>2. at'[r] = at[r] /\ arg'[r] = arg[r] /\ at[r] \in Int
    BY <2>0, ReadOnce DEF TInv, TypeOK
  <2>3. pc[r] = "consume" => arg[r].cred \in Codes
    BY DEF TInv, ArgInv, CodeArg
  <2>4. pc[r] = "find" => arg[r].cred \in Requests
    BY DEF TInv, ArgInv, RefreshArg
  <2>5. PICK c : c = arg[r].cred
    OBVIOUS
  <2>6. PICK time \in Int : time = at[r]
    BY <2>2
  <2>7. CASE Untouched(r)
    <3>1. pc'[r] = pc[r] /\ snap'[r] = snap[r]
      BY <2>7 DEF Untouched
    <3>2. pc[r] = "consume" => SpentCode(c, time)'
      BY <1>2, <2>0, <2>3, <2>5, <2>6, SpentCodeStays DEF DeadOK, SpentCode
    <3>3. pc[r] = "find" => SpentToken(c, time)'
      BY <1>2, <2>0, <2>4, <2>5, <2>6, SpentTokenStays DEF DeadOK, SpentToken
    <3>4. pc[r] = "reuse" => ~IsValidAt(snap[r], at[r])
      BY <1>2, <2>0 DEF DeadOK
    <3> QED BY <1>2, <2>0, <2>1, <2>2, <2>5, <2>6, <3>1, <3>2, <3>3, <3>4
        DEF DeadOK, SpentCode, SpentToken, IsValidAt
  <2>8. CASE TokenStep(r) \/ RequestFails(r)
    <3>1. CASE ConsumeCode(r)
      <4>1. ~Redeemable(codes[arg[r].cred], arg[r].tenant, at[r])
        BY <1>2, <2>0, <3>1 DEF DeadOK, SpentCode, Redeemable, ConsumeCode
      <4>2. pc'[r] = "failed"
        BY <3>1, <4>1 DEF ConsumeCode, Goto, TInv, TypeOK
      <4> QED BY <2>1, <4>2 DEF DeadOK
    <3>2. CASE FindByHash(r)
      <4>1. pc'[r] = "failed" \/ (pc'[r] = "reuse" /\ snap'[r] = tokens[arg[r].cred])
        BY <3>2 DEF FindByHash, Goto, TInv, TypeOK
      <4>2. ~IsValidAt(tokens[arg[r].cred], at[r])
        BY <1>2, <2>0, <3>2 DEF DeadOK, SpentToken, IsValidAt, FindByHash
      <4> QED BY <2>1, <2>2, <4>1, <4>2 DEF DeadOK, IsValidAt
    <3>3. CASE ExistsByParentHash(r)
      <4>1. ~IsValidAt(snap[r], at[r])
        BY <1>2, <2>0, <3>3 DEF DeadOK, ExistsByParentHash
      <4>2. pc'[r] \in {"burn", "failed"}
        BY <3>3, <4>1 DEF ExistsByParentHash, Goto, TInv, TypeOK
      <4> QED BY <2>1, <4>2 DEF DeadOK
    <3>4. CASE RevokeReused(r) \/ RequestFails(r)
      <4>1. pc'[r] = "failed"
        BY <3>4 DEF RevokeReused, RequestFails, Goto, TInv, TypeOK
      <4> QED BY <2>1, <4>1 DEF DeadOK
    <3>5. ~FetchConsumed(r) /\ ~RevokePresented(r) /\ ~LoadActiveUser(r) /\ ~IssueTokens(r)
      BY <2>0 DEF FetchConsumed, RevokePresented, LoadActiveUser, IssueTokens
    <3> QED BY <2>8, <3>1, <3>2, <3>3, <3>4, <3>5 DEF TokenStep
  <2>9. ~Arrives(r)
    BY <2>0 DEF Arrives, ExchangeCode, ExchangeRefreshToken
  <2> QED BY <2>7, <2>8, <2>9, WhoseStep
<1> QED BY <1>1, <1>2

\* A request that arrives with a code or a refresh token that was spent by then
\* gets nothing, whatever is done to the account, the code and the tokens while
\* it runs.
THEOREM DeadCredentialsStayDead == Spec => []DeadCredentialRefused
<1>1. Init => TInv /\ FreshInv /\ DeadInv
  BY TypeInit, FreshInit DEF Init, DeadInv, DeadOK
<1>2. TInv /\ FreshInv /\ DeadInv /\ [Next]_vars => (TInv /\ FreshInv /\ DeadInv)'
  BY TypeNext, FreshNext, DeadNext
<1>3. TInv /\ DeadInv => DeadCredentialRefused
  <2> SUFFICES ASSUME TInv, DeadInv, NEW r \in dead PROVE pc[r] # "ok" /\ ~Row(tokens[r])
    BY DEF DeadCredentialRefused
  <2> QED BY DEF DeadInv, DeadOK, TInv, TypeOK
<1> QED BY <1>1, <1>2, <1>3, PTL DEF Spec
=============================================================================
