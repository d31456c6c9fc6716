----------------------- MODULE CredentialRemovalProofs -----------------------
(***************************************************************************)
(* Proofs about RemovalPolicy and CredentialRemoval, for every number of   *)
(* browsers, authenticators and TOTP secrets.                              *)
(***************************************************************************)
EXTENDS CredentialRemoval, FiniteSetTheorems, TLAPS

---------------------------------------------------------------------------
(* The policy *)

\* An account has finitely many authenticators, so what the policy counts are
\* natural numbers.
LEMMA CountsAreNatural ==
  ASSUME NEW R, IsFiniteSet(R)
  PROVE  /\ IsFiniteSet(Passkeys(R)) /\ Cardinality(Passkeys(R)) \in Nat
         /\ IsFiniteSet(TotpGroups(R)) /\ Cardinality(TotpGroups(R)) \in Nat
  <1>1. IsFiniteSet(Passkeys(R)) /\ IsFiniteSet(ActiveTotp(R))
    <2>1. Passkeys(R) \in SUBSET R /\ ActiveTotp(R) \in SUBSET R
      BY DEF Passkeys, ActiveTotp
    <2>q. QED BY <2>1, FS_Subset
  <1>2. [r \in ActiveTotp(R) |-> GroupOf(R, r.secret)] \in Surjection(ActiveTotp(R), TotpGroups(R))
    BY DEF Surjection, TotpGroups, SecretsOf
  <1>3. IsFiniteSet(TotpGroups(R))
    BY <1>1, <1>2, FS_Surjection
  <1>q. QED BY <1>1, <1>3, FS_CardinalityType

\* Removing one element from a finite set of which more than that element is
\* counted leaves something.
LEMMA OthersRemain ==
  ASSUME NEW X, IsFiniteSet(X), NEW x, Cardinality(X) > (IF x \in X THEN 1 ELSE 0)
  PROVE  X \ {x} # {}
  <1>1. Cardinality(X) \in Nat
    BY FS_CardinalityType
  <1>2. /\ IsFiniteSet(X \ {x})
        /\ Cardinality(X \ {x}) = IF x \in X THEN Cardinality(X) - 1 ELSE Cardinality(X)
    BY FS_RemoveElement
  <1>3. Cardinality(X \ {x}) > 0
    BY <1>1, <1>2
  <1>q. QED BY <1>2, <1>3, FS_EmptySet

\* A group other than {t} keeps a row when t is removed.
LEMMA GroupRemains ==
  ASSUME NEW R, NEW t, NEW g \in TotpGroups(R), g # {t}
  PROVE  ActiveTotp(R \ {t}) # {}
  <1>1. PICK s \in SecretsOf(R) : g = GroupOf(R, s)
    BY DEF TotpGroups
  <1>2. PICK r \in g : r # t
    BY <1>1 DEF SecretsOf, GroupOf
  <1>q. QED BY <1>1, <1>2 DEF GroupOf, ActiveTotp

\* hasValidAuthenticationPathAfterRemoval counts before the removal; what it
\* promises is that the rows that remain let the account sign in.
THEOREM PathRemains ==
  ASSUME NEW a, NEW R, IsFiniteSet(R), NEW t \in R,
         HasValidAuthenticationPathAfterRemoval(a, R, t)
  PROVE  SignInPossible(a, R \ {t})
  <1>1. CASE PasswordAlone(a)
    BY <1>1 DEF SignInPossible
  <1>2. CASE PasskeysAfter(R, t) > 0
    <2>1. Passkeys(R \ {t}) = Passkeys(R) \ {t}
      BY DEF Passkeys
    <2>2. t \in Passkeys(R) <=> t.kind = "webauthn"
      BY DEF Passkeys
    <2>3. Cardinality(Passkeys(R)) > (IF t \in Passkeys(R) THEN 1 ELSE 0)
      BY <1>2, <2>2, CountsAreNatural DEF PasskeysAfter
    <2>4. Passkeys(R) \ {t} # {}
      BY <2>3, CountsAreNatural, OthersRemain
    <2>q. QED BY <2>1, <2>4 DEF SignInPossible
  <1>3. CASE a.pw /\ TotpAfter(R, t) > 0
    <2>1. PICK g \in TotpGroups(R) : g # {t}
      <3>1. Cardinality(TotpGroups(R)) > (IF {t} \in TotpGroups(R) THEN 1 ELSE 0)
        BY <1>3, CountsAreNatural DEF TotpAfter, RemovesUniqueSecret
      <3>2. TotpGroups(R) \ {{t}} # {}
        BY <3>1, CountsAreNatural, OthersRemain
      <3>q. QED BY <3>2
    <2>q. QED BY <1>3, <2>1, GroupRemains DEF SignInPossible
  <1>q. QED BY <1>1, <1>2, <1>3 DEF HasValidAuthenticationPathAfterRemoval

---------------------------------------------------------------------------
(* Typing *)

\* The steps of a request keep the request table well typed.
LEMMA StartType ==
  ASSUME TypeOK, NEW p \in Actor, NEW op \in Op, NEW row \in KeyId, NEW enable \in BOOLEAN,
         NEW proof \in Grants \cup {NoGrant}, Start(p, op, row, enable, proof)
  PROVE  request' \in [Actor -> Requests]
  BY DEF TypeOK, Start, Requests

LEMMA ProceedType ==
  ASSUME TypeOK, NEW p \in Actor, NEW op \in Op, Proceed(p, op)
  PROVE  request' \in [Actor -> Requests]
  BY DEF TypeOK, Proceed, Requests

LEMMA IdleType == Idle \in Requests
  BY BoundIsNatural DEF Idle, Requests, Op, KeyId

LEMMA RespondType ==
  ASSUME TypeOK, NEW p \in Actor, Respond(p)
  PROVE  /\ request' \in [Actor -> Requests]
         /\ grant' \in [Browser -> Grants \cup {NoGrant}]
  BY IdleType DEF TypeOK, Respond

\* The ids of the passkeys a challenge offers are key ids.
LEMMA OwnPasskeysType ==
  ASSUME TypeOK, NEW b \in Browser
  PROVE  OwnPasskeys(b) \subseteq KeyId
  BY BoundIsNatural DEF TypeOK, OwnPasskeys, Passkeys, Row, RowId, KeyId, Own

\* What StepUpService stores in the session data is well typed.
LEMMA GrantType ==
  ASSUME TypeOK, NEW b \in Browser, NEW action \in Action, NEW t \in KeyId,
         NEW method \in {"webauthn", "totp"}, NEW k \in KeyId, Grant(b, action, t, method, k)
  PROVE  grant' \in [Browser -> Grants \cup {NoGrant}]
  BY DEF TypeOK, Grant, Grants

\* Inserting one more row keeps the table well typed, and its ids unique.
LEMMA InsertType ==
  ASSUME TypeOK, lastRow < MaxRow, lastRow' = lastRow + 1, NEW row \in Row,
         row.id = lastRow + 1, NEW kept \in SUBSET rows, rows' = kept \cup {row}
  PROVE  /\ rows' \subseteq Row
         /\ \A r \in rows' : r.id <= lastRow'
         /\ \A r, q \in rows' : r.id = q.id => r = q
         /\ lastRow' \in 0..MaxRow
  <1>1. lastRow \in Nat /\ MaxRow \in Nat /\ lastRow' \in 0..MaxRow
    BY BoundIsNatural DEF TypeOK
  <1>2. \A r \in kept : r \in Row /\ r.id \in Nat /\ r.id <= lastRow
    BY DEF TypeOK, Row, RowId
  <1>3. \A r \in kept : r.id # row.id /\ r.id <= lastRow'
    BY <1>1, <1>2
  <1>4. row.id <= lastRow'
    BY <1>1
  <1>5. \A r, q \in rows' : r.id = q.id => r = q
    BY <1>3 DEF TypeOK
  <1>q. QED BY <1>1, <1>2, <1>3, <1>4, <1>5

LEMMA NewRows ==
  ASSUME TypeOK, lastRow < MaxRow
  PROVE  /\ PasskeyRow(lastRow + 1) \in Row /\ PasskeyRow(lastRow + 1).id = lastRow + 1
         /\ \A s \in Secret : /\ TotpRow(lastRow + 1, s) \in Row
                             /\ TotpRow(lastRow + 1, s).id = lastRow + 1
  <1>1. lastRow + 1 \in RowId
    BY BoundIsNatural DEF TypeOK, RowId
  <1>q. QED BY <1>1 DEF PasskeyRow, TotpRow, Row

\* Deleting rows needs no check.
LEMMA DeleteType ==
  ASSUME TypeOK, NEW kept \in SUBSET rows, rows' = kept, UNCHANGED lastRow
  PROVE  /\ rows' \subseteq Row
         /\ \A r \in rows' : r.id <= lastRow'
         /\ \A r, q \in rows' : r.id = q.id => r = q
         /\ lastRow' \in 0..MaxRow
  BY DEF TypeOK

\* The initial states are well typed, and hold finitely many rows.
LEMMA InitType == Init => TypeOK /\ IsFiniteSet(rows)
  <1> SUFFICES ASSUME Init PROVE TypeOK /\ IsFiniteSet(rows)
    OBVIOUS
  <1> DEFINE row(g, i) == IF g[i] \in Secret THEN TotpRow(i, g[i]) ELSE PasskeyRow(i)
  <1>1. PICK g \in [1..lastRow -> Secret \cup {NoSecret}] : rows = {row(g, i) : i \in 1..lastRow}
    BY DEF Init, Enrolled
  <1>2. lastRow \in Nat /\ lastRow \in 0..MaxRow /\ MaxRow \in Nat
    BY BoundIsNatural DEF Init
  <1>3. \A i \in 1..lastRow : row(g, i) \in Row /\ row(g, i).id = i
    BY <1>2 DEF TotpRow, PasskeyRow, Row, RowId
  <1>4. /\ rows \subseteq Row
        /\ \A r \in rows : r.id <= lastRow
        /\ \A r, q \in rows : r.id = q.id => r = q
    <2> HIDE DEF row
    <2>q. QED BY <1>1, <1>2, <1>3
  <1>5. IsFiniteSet(rows)
    <2>1. [i \in 1..lastRow |-> row(g, i)] \in Surjection(1..lastRow, rows)
      <3> HIDE DEF row
      <3>q. QED BY <1>1 DEF Surjection
    <2>2. IsFiniteSet(1..lastRow)
      BY <1>2, FS_Interval
    <2>q. QED BY <2>1, <2>2, FS_Surjection
  <1>6. /\ acc \in [pw: BOOLEAN, mfa: BOOLEAN, pending: BOOLEAN]
        /\ live \in [Owner -> BOOLEAN]
    <2>1. acc = Fresh \/ acc \in [pw: BOOLEAN, mfa: {TRUE}, pending: {FALSE}]
      BY DEF Init
    <2>2. live \in [Owner -> BOOLEAN]
      BY DEF Init
    <2>3. Fresh \in [pw: BOOLEAN, mfa: BOOLEAN, pending: BOOLEAN]
      BY DEF Fresh
    <2>4. [pw: BOOLEAN, mfa: {TRUE}, pending: {FALSE}] \subseteq [pw: BOOLEAN, mfa: BOOLEAN, pending: BOOLEAN]
      OBVIOUS
    <2>q. QED BY <2>1, <2>2, <2>3, <2>4
  <1>7. /\ pending \in [Browser -> [action: Action, target: KeyId, keys: SUBSET KeyId] \cup {Nothing}]
        /\ grant \in [Browser -> Grants \cup {NoGrant}]
        /\ request \in [Actor -> Requests]
    BY IdleType DEF Init
  <1>q. QED BY <1>2, <1>4, <1>5, <1>6, <1>7 DEF TypeOK

\* Every action keeps the state well typed, and the rows finite.
LEMMA NextType ==
  ASSUME TypeOK, IsFiniteSet(rows), [Next]_vars
  PROVE  TypeOK' /\ IsFiniteSet(rows')
  <1>0. CASE UNCHANGED vars
    BY <1>0 DEF TypeOK, vars
  <1>1. ASSUME NEW b \in Browser, StepUpStep(b)
        PROVE  TypeOK' /\ IsFiniteSet(rows')
    <2>1. ASSUME NEW action \in Action, NEW t \in KeyId, StepUpBegin(b, action, t)
          PROVE  TypeOK' /\ IsFiniteSet(rows')
      <3>1. OwnPasskeys(b) \in SUBSET KeyId
        BY OwnPasskeysType
      <3>2. \E S : pending' = [pending EXCEPT ![b] =
                     [action |-> action, target |-> t, keys |-> OwnPasskeys(b) \ S]]
        BY <2>1 DEF StepUpBegin
      <3>3. pending' \in [Browser -> [action: Action, target: KeyId, keys: SUBSET KeyId] \cup {Nothing}]
        BY <3>1, <3>2 DEF TypeOK
      <3>q. QED BY <2>1, <3>3 DEF StepUpBegin, TypeOK
    <2>2. ASSUME NEW k \in KeyId, StepUpFinish(b, k)
          PROVE  TypeOK' /\ IsFiniteSet(rows')
      <3>1. pending[b] # Nothing
        BY <2>2 DEF StepUpFinish, Nothing
      <3>2. pending[b].action \in Action /\ pending[b].target \in KeyId
        BY <3>1 DEF TypeOK
      <3>3. grant' \in [Browser -> Grants \cup {NoGrant}]
        BY <2>2, <3>2, GrantType DEF StepUpFinish
      <3>q. QED BY <2>2, <3>3 DEF StepUpFinish, TypeOK
    <2>3. CASE StepUpFails(b)
      BY <2>3 DEF StepUpFails, TypeOK
    <2>4. ASSUME NEW action \in Action, NEW t \in KeyId, NEW k \in RowId, VerifyTotp(b, action, t, k)
          PROVE  TypeOK' /\ IsFiniteSet(rows')
      <3>1. k \in KeyId
        BY BoundIsNatural DEF RowId, KeyId
      <3>2. grant' \in [Browser -> Grants \cup {NoGrant}]
        BY <2>4, <3>1, GrantType DEF VerifyTotp
      <3>q. QED BY <2>4, <3>2 DEF VerifyTotp, TypeOK
    <2>5. CASE GrantLost(b)
      BY <2>5 DEF GrantLost, TypeOK
    <2>q. QED BY <1>1, <2>1, <2>2, <2>3, <2>4, <2>5 DEF StepUpStep
  <1>2. ASSUME NEW b \in Browser, RequestStep(b)
        PROVE  TypeOK' /\ IsFiniteSet(rows')
    <2>0. b \in Actor /\ grant[b] \in Grants \cup {NoGrant} /\ 0 \in KeyId
      BY BoundIsNatural DEF Actor, TypeOK, KeyId
    <2>1. ASSUME NEW r \in rows, DeleteBegin(b, r)
          PROVE  TypeOK' /\ IsFiniteSet(rows')
      <3>1. r.id \in KeyId
        BY BoundIsNatural DEF TypeOK, Row, RowId, KeyId
      <3>2. request' \in [Actor -> Requests]
        BY <2>0, <2>1, <3>1, StartType DEF DeleteBegin, Op
      <3>q. QED BY <2>1, <3>2 DEF DeleteBegin, TypeOK
    <2>2. CASE DeleteCommit(b)
      <3>1. /\ request' \in [Actor -> Requests]
            /\ grant' \in [Browser -> Grants \cup {NoGrant}]
        <4>1. CASE Proceed(b, "revoke") /\ UNCHANGED grant
          BY <2>0, <4>1, ProceedType DEF TypeOK, Op
        <4>2. CASE Respond(b)
          BY <2>0, <4>2, RespondType
        <4>q. QED BY <2>2, <4>1, <4>2 DEF DeleteCommit
      <3>2. rows' \in SUBSET rows /\ UNCHANGED <<acc, lastRow, live, pending>>
        BY <2>2 DEF DeleteCommit
      <3>3. IsFiniteSet(rows')
        BY <3>2, FS_Subset
      <3>q. QED BY <3>1, <3>2, <3>3 DEF TypeOK
    <2>3. CASE ResetBegin(b)
      <3>1. request' \in [Actor -> Requests]
        BY <2>0, <2>3, StartType DEF ResetBegin, Op
      <3>q. QED BY <2>3, <3>1 DEF ResetBegin, TypeOK
    <2>4. ASSUME NEW enable \in BOOLEAN, PasswordBegin(b, enable)
          PROVE  TypeOK' /\ IsFiniteSet(rows')
      <3>1. request' \in [Actor -> Requests]
        BY <2>0, <2>4, StartType DEF PasswordBegin, Op
      <3>q. QED BY <2>4, <3>1 DEF PasswordBegin, TypeOK
    <2>5. CASE PasswordCommit(b)
      <3>1. /\ request' \in [Actor -> Requests]
            /\ grant' \in [Browser -> Grants \cup {NoGrant}]
        <4>1. CASE Proceed(b, "revoke") /\ UNCHANGED grant
          BY <2>0, <4>1, ProceedType DEF TypeOK, Op
        <4>2. CASE Respond(b)
          BY <2>0, <4>2, RespondType
        <4>q. QED BY <2>5, <4>1, <4>2 DEF PasswordCommit
      <3>2. request[b].enable \in BOOLEAN
        BY <2>0 DEF TypeOK, Requests
      <3>3. acc' \in [pw: BOOLEAN, mfa: BOOLEAN, pending: BOOLEAN]
        BY <2>5, <3>2 DEF PasswordCommit, TypeOK
      <3>q. QED BY <2>5, <3>1, <3>3 DEF PasswordCommit, TypeOK
    <2>6. ASSUME NEW kind \in {"webauthn", "totp"}, EnrollBegin(b, kind)
          PROVE  TypeOK' /\ IsFiniteSet(rows')
      <3>1. kind \in Op
        BY DEF Op
      <3>2. (IF NeedsStepUp THEN grant[b] ELSE NoGrant) \in Grants \cup {NoGrant}
        BY <2>0
      <3>3. request' \in [Actor -> Requests]
        BY <2>0, <2>6, <3>1, <3>2, StartType DEF EnrollBegin
      <3>q. QED BY <2>6, <3>3 DEF EnrollBegin, TypeOK
    <2>7. CASE EnrollInsert(b)
      <3>1. PICK row : /\ row \in Row /\ row.id = lastRow + 1
                       /\ rows' = rows \cup {row}
        BY <2>7, NewRows DEF EnrollInsert
      <3>2. lastRow < MaxRow /\ lastRow' = lastRow + 1 /\ UNCHANGED <<acc, live, pending, grant>>
        BY <2>7 DEF EnrollInsert
      <3>3. request' \in [Actor -> Requests]
        BY <2>0, <2>7, ProceedType DEF EnrollInsert, Op
      <3>4. IsFiniteSet(rows')
        BY <3>1, FS_AddElement
      <3>5. /\ rows' \subseteq Row
            /\ \A r \in rows' : r.id <= lastRow'
            /\ \A r, q \in rows' : r.id = q.id => r = q
            /\ lastRow' \in 0..MaxRow
        BY <3>1, <3>2, InsertType
      <3>q. QED BY <3>2, <3>3, <3>4, <3>5 DEF TypeOK
    <2>8. CASE EnrollFlag(b)
      <3>1. request' \in [Actor -> Requests]
        BY <2>0, <2>8, ProceedType DEF EnrollFlag, Op
      <3>q. QED BY <2>8, <3>1 DEF EnrollFlag, TypeOK
    <2>q. QED
      BY <1>2, <2>1, <2>2, <2>3, <2>4, <2>5, <2>6, <2>7, <2>8 DEF RequestStep
  <1>3. ASSUME NEW p \in Actor, ResetCommit(p) \/ RevokeSessions(p) \/ Crash(p)
        PROVE  TypeOK' /\ IsFiniteSet(rows')
    <2>1. CASE ResetCommit(p)
      <3>1. request' \in [Actor -> Requests]
        BY <2>1, ProceedType DEF ResetCommit, Op
      <3>2. rows' \in SUBSET rows /\ UNCHANGED <<acc, lastRow, live, pending, grant>>
        BY <2>1 DEF ResetCommit
      <3>3. IsFiniteSet(rows')
        BY <3>2, FS_Subset
      <3>q. QED BY <3>1, <3>2, <3>3 DEF TypeOK
    <2>2. CASE RevokeSessions(p)
      <3>1. /\ request' \in [Actor -> Requests]
            /\ grant' \in [Browser -> Grants \cup {NoGrant}]
        BY <2>2, RespondType DEF RevokeSessions
      <3>2. live' \in [Owner -> BOOLEAN]
        BY <2>2 DEF RevokeSessions, TypeOK
      <3>q. QED BY <2>2, <3>1, <3>2 DEF RevokeSessions, TypeOK
    <2>3. CASE Crash(p)
      BY <2>3, IdleType DEF Crash, TypeOK
    <2>q. QED BY <1>3, <2>1, <2>2, <2>3
  <1>4. ASSUME NEW b \in Owner, SignInWithPasskey(b) \/ SignInAnew(b)
        PROVE  TypeOK' /\ IsFiniteSet(rows')
    BY <1>4 DEF SignInWithPasskey, SignInAnew, TypeOK
  <1>5. CASE CliReset
    <2>1. Cli \in Actor /\ 0 \in KeyId
      BY BoundIsNatural DEF Actor, KeyId
    <2>2. (IF Passkeys(rows) = {} THEN "issue" ELSE "reset") \in Op
      BY DEF Op
    <2>3. request' \in [Actor -> Requests]
      BY <1>5, <2>1, <2>2, StartType DEF CliReset
    <2>q. QED BY <1>5, <2>3 DEF CliReset, TypeOK
  <1>6. CASE CliIssue
    <2>1. request' \in [Actor -> Requests]
      BY <1>6, ProceedType DEF CliIssue, Actor, Op
    <2>q. QED BY <1>6, <2>1 DEF CliIssue, Issued, TypeOK
  <1>7. CASE IssueRecovery
    BY <1>7 DEF IssueRecovery, Issued, TypeOK
  <1>8. CASE CompleteRecovery
    <2>1. lastRow < MaxRow /\ lastRow' = lastRow + 1 /\ rows' = {} \cup {PasskeyRow(lastRow + 1)}
      BY <1>8 DEF CompleteRecovery
    <2>2. /\ rows' \subseteq Row
          /\ \A r \in rows' : r.id <= lastRow'
          /\ \A r, q \in rows' : r.id = q.id => r = q
          /\ lastRow' \in 0..MaxRow
      <3>1. {} \in SUBSET rows
        OBVIOUS
      <3>q. QED BY <2>1, <3>1, NewRows, InsertType
    <2>3. IsFiniteSet(rows')
      <3>1. rows' = {PasskeyRow(lastRow + 1)}
        BY <1>8 DEF CompleteRecovery
      <3>q. QED BY <3>1, FS_Singleton
    <2>q. QED BY <1>8, <2>2, <2>3 DEF CompleteRecovery, TypeOK
  <1>q. QED BY <1>0, <1>1, <1>2, <1>3, <1>4, <1>5, <1>6, <1>7, <1>8 DEF Next

---------------------------------------------------------------------------
(* The way in *)

\* What a request in flight is going to leave behind still lets the account
\* sign in: its checks have seen the rows and the account as they still are.
LeavesPath(p) ==
  LET r == request[p] IN
    /\ r.op = "delete" => SignInPossible(acc, rows \ RowsWithId(r.row))
    /\ r.op = "reset" => SignInPossible(acc, {q \in rows : q.kind # "totp"})
    /\ r.op = "password" => SignInPossible([acc EXCEPT !.pw = r.enable], rows)
    /\ r.op = "flag" => SignInPossible([acc EXCEPT !.mfa = TRUE], rows)

\* One request at a time: that is what Overlap = FALSE means.
OneAtATime == \A p, q \in Actor : request[p] # Idle /\ request[q] # Idle => p = q

\* The inductive invariant: the strengthening of SignInPath by what the requests
\* in flight have checked, and by the fact that nobody can invalidate it.
IInv ==
  /\ TypeOK
  /\ IsFiniteSet(rows)
  /\ OneAtATime
  /\ SignInPath
  /\ \A p \in Actor : acc.pending \/ LeavesPath(p)

\* A request table in which everyone is idle, or only p is not.
LEMMA Starting ==
  ASSUME TypeOK, ~Overlap, NEW p \in Actor, MayStart(p),
         NEW op, NEW row, NEW enable, NEW proof, Start(p, op, row, enable, proof)
  PROVE  /\ OneAtATime'
         /\ \A q \in Actor : q # p => request'[q] = Idle
         /\ request'[p].op = op /\ request'[p].row = row /\ request'[p].enable = enable
  BY DEF TypeOK, MayStart, Quiet, Start, OneAtATime

LEMMA Proceeding ==
  ASSUME TypeOK, OneAtATime, NEW p \in Actor, request[p].op # "idle", NEW op, Proceed(p, op)
  PROVE  /\ OneAtATime'
         /\ \A q \in Actor : q # p => request'[q] = Idle
         /\ request'[p].op = op
  <1>1. request[p] # Idle
    BY DEF Idle
  <1>2. \A q \in Actor : q # p => request[q] = Idle
    BY <1>1 DEF OneAtATime
  <1>3. request \in [Actor -> Requests]
    BY DEF TypeOK
  <1>4. request'[p].op = op /\ \A q \in Actor : q # p => request'[q] = request[q]
    BY <1>3 DEF Proceed, Requests
  <1>q. QED BY <1>2, <1>4 DEF OneAtATime

LEMMA Stopping ==
  ASSUME TypeOK, OneAtATime, NEW p \in Actor, request[p].op # "idle",
         request' = [request EXCEPT ![p] = Idle]
  PROVE  OneAtATime' /\ \A q \in Actor : request'[q] = Idle
  <1>1. request[p] # Idle
    BY DEF Idle
  <1>2. \A q \in Actor : q # p => request[q] = Idle
    BY <1>1 DEF OneAtATime
  <1>3. \A q \in Actor : request'[q] = Idle
    BY <1>2 DEF TypeOK
  <1>q. QED BY <1>3 DEF OneAtATime

\* An idle process has promised nothing.
LEMMA IdleLeavesPath ==
  ASSUME NEW p, request[p].op \notin {"delete", "reset", "password", "flag"}
  PROVE  LeavesPath(p)
  BY DEF LeavesPath

\* Enrolling a factor and then demanding it does not lock the account out.
LEMMA EnrollKeepsPath ==
  ASSUME NEW a \in [pw: BOOLEAN, mfa: BOOLEAN, pending: BOOLEAN], NEW R, SignInPossible(a, R),
         NEW row, row.kind = "webauthn" \/ (row.kind = "totp" /\ row.active /\ row.secret # NoSecret)
  PROVE  /\ SignInPossible(a, R \cup {row})
         /\ SignInPossible([a EXCEPT !.mfa = TRUE], R \cup {row})
  <1>1. Passkeys(R) \subseteq Passkeys(R \cup {row}) /\ ActiveTotp(R) \subseteq ActiveTotp(R \cup {row})
    BY DEF Passkeys, ActiveTotp
  <1>2. row \in Passkeys(R \cup {row}) \/ row \in ActiveTotp(R \cup {row})
    BY DEF Passkeys, ActiveTotp
  <1>3. [a EXCEPT !.mfa = TRUE].pw = a.pw
    OBVIOUS
  <1>q. QED BY <1>1, <1>2, <1>3 DEF SignInPossible, PasswordAlone

\* The DELETE by primary key removes the one row the checks were about.
LEMMA OneRowPerId ==
  ASSUME TypeOK, NEW r \in rows
  PROVE  RowsWithId(r.id) = {r}
  BY DEF TypeOK, RowsWithId

\* With everyone idle or only p under way, what p promises is what counts.
LEMMA Promises ==
  ASSUME NEW p \in Actor, \A q \in Actor : q # p => request'[q] = Idle,
         acc'.pending \/ LeavesPath(p)'
  PROVE  \A q \in Actor : acc'.pending \/ LeavesPath(q)'
  <1>1. ASSUME NEW q \in Actor, q # p
        PROVE  LeavesPath(q)'
    <2>1. request'[q].op = "idle"
      BY <1>1 DEF Idle
    <2>q. QED BY <2>1 DEF LeavesPath
  <1>q. QED BY <1>1

\* Each action keeps IInv when requests do not overlap.
LEMMA StepUpKeeps ==
  ASSUME IInv, NEW b \in Browser, StepUpStep(b)
  PROVE  OneAtATime' /\ SignInPath' /\ \A p \in Actor : acc'.pending \/ LeavesPath(p)'
  <1>1. UNCHANGED <<acc, rows, request>>
    BY DEF StepUpStep, StepUpBegin, StepUpFinish, StepUpFails, VerifyTotp, GrantLost
  <1>2. OneAtATime' /\ SignInPath'
    BY <1>1 DEF IInv, OneAtATime, SignInPath
  <1>3. \A p \in Actor : LeavesPath(p)' <=> LeavesPath(p)
    BY <1>1 DEF LeavesPath, RowsWithId
  <1>q. QED BY <1>1, <1>2, <1>3 DEF IInv

LEMMA RequestKeeps ==
  ASSUME IInv, ~Overlap, NEW b \in Browser, RequestStep(b)
  PROVE  OneAtATime' /\ SignInPath' /\ \A p \in Actor : acc'.pending \/ LeavesPath(p)'
  <1>0. b \in Actor /\ TypeOK /\ OneAtATime /\ SignInPath /\ IsFiniteSet(rows)
        /\ (acc.pending \/ LeavesPath(b))
        /\ acc \in [pw: BOOLEAN, mfa: BOOLEAN, pending: BOOLEAN]
    BY DEF IInv, Actor, TypeOK
  <1>1. ASSUME NEW r \in rows, DeleteBegin(b, r)
        PROVE  OneAtATime' /\ SignInPath' /\ \A p \in Actor : acc'.pending \/ LeavesPath(p)'
    <2>1. /\ OneAtATime'
          /\ \A q \in Actor : q # b => request'[q] = Idle
          /\ request'[b].op = "delete" /\ request'[b].row = r.id
      BY <1>0, <1>1, Starting DEF DeleteBegin
    <2>2. SignInPossible(acc, rows \ RowsWithId(r.id))
      BY <1>0, <1>1, OneRowPerId, PathRemains DEF DeleteBegin, MayRemove
    <2>3. UNCHANGED <<acc, rows>>
      BY <1>1 DEF DeleteBegin
    <2>4. LeavesPath(b)'
      BY <2>1, <2>2, <2>3 DEF LeavesPath, RowsWithId
    <2>q. QED BY <1>0, <2>1, <2>3, <2>4, Promises DEF SignInPath
  <1>2. CASE DeleteCommit(b)
    <2>1. /\ rows' = rows \ RowsWithId(request[b].row) /\ UNCHANGED acc
          /\ request[b].op = "delete"
      BY <1>2 DEF DeleteCommit
    <2>2. SignInPath'
      BY <1>0, <2>1 DEF SignInPath, LeavesPath
    <2>3. CASE Proceed(b, "revoke")
      <3>1. /\ OneAtATime'
            /\ \A q \in Actor : q # b => request'[q] = Idle
            /\ request'[b].op = "revoke"
        BY <1>0, <2>1, <2>3, Proceeding
      <3>2. LeavesPath(b)'
        BY <3>1 DEF LeavesPath
      <3>q. QED BY <1>0, <2>2, <3>1, <3>2, Promises
    <2>4. CASE Respond(b)
      <3>1. OneAtATime' /\ \A q \in Actor : request'[q] = Idle
        BY <1>0, <2>1, <2>4, Stopping DEF Respond
      <3>q. QED BY <2>2, <3>1 DEF LeavesPath, Idle
    <2>q. QED BY <1>2, <2>3, <2>4 DEF DeleteCommit
  <1>3. CASE ResetBegin(b)
    <2>1. /\ OneAtATime'
          /\ \A q \in Actor : q # b => request'[q] = Idle
          /\ request'[b].op = "reset"
      BY <1>0, <1>3, Starting DEF ResetBegin
    <2>2. UNCHANGED <<acc, rows>> /\ CanResetTotp(acc, rows)
      BY <1>3 DEF ResetBegin
    <2>3. Passkeys({q \in rows : q.kind # "totp"}) = Passkeys(rows)
      BY DEF Passkeys
    <2>4. LeavesPath(b)'
      BY <2>1, <2>2, <2>3 DEF LeavesPath, SignInPossible, CanResetTotp
    <2>q. QED BY <1>0, <2>1, <2>2, <2>4, Promises DEF SignInPath
  <1>4. ASSUME NEW enable \in BOOLEAN, PasswordBegin(b, enable)
        PROVE  OneAtATime' /\ SignInPath' /\ \A p \in Actor : acc'.pending \/ LeavesPath(p)'
    <2>1. /\ OneAtATime'
          /\ \A q \in Actor : q # b => request'[q] = Idle
          /\ request'[b].op = "password" /\ request'[b].enable = enable
      BY <1>0, <1>4, Starting DEF PasswordBegin
    <2>2. UNCHANGED <<acc, rows>> /\ (enable \/ Passkeys(rows) # {})
      BY <1>4 DEF PasswordBegin, CanDisablePasswordLogin
    <2>3. acc.pending \/ SignInPossible([acc EXCEPT !.pw = enable], rows)
      <3>1. /\ [acc EXCEPT !.pw = enable].pw = enable
            /\ [acc EXCEPT !.pw = enable].mfa = acc.mfa
        BY <1>0
      <3>q. QED BY <1>0, <2>2, <3>1 DEF SignInPath, SignInPossible, PasswordAlone
    <2>4. acc'.pending \/ LeavesPath(b)'
      BY <2>1, <2>2, <2>3 DEF LeavesPath
    <2>q. QED BY <1>0, <2>1, <2>2, <2>4, Promises DEF SignInPath
  <1>5. CASE PasswordCommit(b)
    <2>1. /\ acc' = [acc EXCEPT !.pw = request[b].enable] /\ UNCHANGED rows
          /\ request[b].op = "password"
      BY <1>5 DEF PasswordCommit
    <2>2. acc'.pending = acc.pending
      BY <1>0, <2>1
    <2>3. SignInPath'
      BY <1>0, <2>1, <2>2 DEF SignInPath, LeavesPath
    <2>4. CASE Proceed(b, "revoke")
      <3>1. /\ OneAtATime'
            /\ \A q \in Actor : q # b => request'[q] = Idle
            /\ request'[b].op = "revoke"
        BY <1>0, <2>1, <2>4, Proceeding
      <3>2. LeavesPath(b)'
        BY <3>1 DEF LeavesPath
      <3>q. QED BY <1>0, <2>3, <3>1, <3>2, Promises
    <2>5. CASE Respond(b)
      <3>1. OneAtATime' /\ \A q \in Actor : request'[q] = Idle
        BY <1>0, <2>1, <2>5, Stopping DEF Respond
      <3>q. QED BY <2>3, <3>1 DEF LeavesPath, Idle
    <2>q. QED BY <1>5, <2>4, <2>5 DEF PasswordCommit
  <1>6. ASSUME NEW kind \in {"webauthn", "totp"}, EnrollBegin(b, kind)
        PROVE  OneAtATime' /\ SignInPath' /\ \A p \in Actor : acc'.pending \/ LeavesPath(p)'
    <2>1. /\ OneAtATime'
          /\ \A q \in Actor : q # b => request'[q] = Idle
          /\ request'[b].op = kind
      BY <1>0, <1>6, Starting DEF EnrollBegin
    <2>2. UNCHANGED <<acc, rows>>
      BY <1>6 DEF EnrollBegin
    <2>3. LeavesPath(b)'
      BY <2>1 DEF LeavesPath
    <2>q. QED BY <1>0, <2>1, <2>2, <2>3, Promises DEF SignInPath
  <1>7. CASE EnrollInsert(b)
    <2>1. /\ OneAtATime'
          /\ \A q \in Actor : q # b => request'[q] = Idle
          /\ request'[b].op = "flag"
      BY <1>0, <1>7, Proceeding DEF EnrollInsert
    <2>2. PICK row : /\ rows' = rows \cup {row}
                     /\ row.kind = "webauthn"
                          \/ (row.kind = "totp" /\ row.active /\ row.secret # NoSecret)
      <3>1. PasskeyRow(lastRow + 1).kind = "webauthn"
        BY DEF PasskeyRow
      <3>2. \A s \in Secret : /\ TotpRow(lastRow + 1, s).kind = "totp"
                              /\ TotpRow(lastRow + 1, s).active
                              /\ TotpRow(lastRow + 1, s).secret # NoSecret
        BY NoSecretIsNoSecret DEF TotpRow
      <3>q. QED BY <1>7, <3>1, <3>2 DEF EnrollInsert
    <2>3. UNCHANGED acc
      BY <1>7 DEF EnrollInsert
    <2>4. acc.pending \/ (/\ SignInPossible(acc, rows')
                         /\ SignInPossible([acc EXCEPT !.mfa = TRUE], rows'))
      BY <1>0, <2>2, EnrollKeepsPath DEF SignInPath
    <2>5. acc'.pending \/ LeavesPath(b)'
      BY <2>1, <2>3, <2>4 DEF LeavesPath
    <2>q. QED BY <1>0, <2>1, <2>3, <2>4, <2>5, Promises DEF SignInPath
  <1>8. CASE EnrollFlag(b)
    <2>1. /\ acc' = [acc EXCEPT !.mfa = TRUE] /\ UNCHANGED rows
          /\ request[b].op = "flag" /\ Proceed(b, "revoke")
      BY <1>8 DEF EnrollFlag
    <2>2. acc'.pending = acc.pending
      BY <1>0, <2>1
    <2>3. SignInPath'
      BY <1>0, <2>1, <2>2 DEF SignInPath, LeavesPath
    <2>4. /\ OneAtATime'
          /\ \A q \in Actor : q # b => request'[q] = Idle
          /\ request'[b].op = "revoke"
      BY <1>0, <2>1, Proceeding
    <2>5. LeavesPath(b)'
      BY <2>4 DEF LeavesPath
    <2>q. QED BY <1>0, <2>3, <2>4, <2>5, Promises
  <1>q. QED BY <1>1, <1>2, <1>3, <1>4, <1>5, <1>6, <1>7, <1>8 DEF RequestStep

LEMMA ProcessKeeps ==
  ASSUME IInv, NEW p \in Actor, ResetCommit(p) \/ RevokeSessions(p) \/ Crash(p)
  PROVE  OneAtATime' /\ SignInPath' /\ \A q \in Actor : acc'.pending \/ LeavesPath(q)'
  <1>0. TypeOK /\ OneAtATime /\ SignInPath /\ (acc.pending \/ LeavesPath(p))
    BY DEF IInv
  <1>1. CASE ResetCommit(p)
    <2>1. /\ rows' = {q \in rows : q.kind # "totp"} /\ UNCHANGED acc
          /\ request[p].op = "reset" /\ Proceed(p, "revoke")
      BY <1>1 DEF ResetCommit
    <2>2. SignInPath'
      BY <1>0, <2>1 DEF SignInPath, LeavesPath
    <2>3. /\ OneAtATime'
          /\ \A q \in Actor : q # p => request'[q] = Idle
          /\ request'[p].op = "revoke"
      BY <1>0, <2>1, Proceeding
    <2>4. LeavesPath(p)'
      BY <2>3 DEF LeavesPath
    <2>q. QED BY <1>0, <2>2, <2>3, <2>4, Promises
  <1>2. CASE RevokeSessions(p) \/ Crash(p)
    <2>1. /\ UNCHANGED <<acc, rows>>
          /\ request' = [request EXCEPT ![p] = Idle]
      BY <1>2 DEF RevokeSessions, Crash, Respond
    <2>2. \A q \in Actor : request'[q] = Idle
      <3>1. request[p] # Idle
        BY <1>2 DEF RevokeSessions, Crash, Idle
      <3>2. \A q \in Actor : q # p => request[q] = Idle
        BY <1>0, <3>1 DEF OneAtATime
      <3>q. QED BY <1>0, <2>1, <3>2 DEF TypeOK
    <2>3. OneAtATime' /\ SignInPath'
      BY <1>0, <1>2, <2>2 DEF OneAtATime, SignInPath, RevokeSessions, Crash
    <2>q. QED BY <2>2, <2>3 DEF LeavesPath, Idle
  <1>q. QED BY <1>1, <1>2

LEMMA OthersKeep ==
  ASSUME IInv, ~Overlap,
         \/ CliReset \/ CliIssue \/ IssueRecovery \/ CompleteRecovery
         \/ \E b \in Owner : SignInWithPasskey(b) \/ SignInAnew(b)
  PROVE  OneAtATime' /\ SignInPath' /\ \A q \in Actor : acc'.pending \/ LeavesPath(q)'
  <1>0. /\ TypeOK /\ OneAtATime /\ SignInPath /\ Cli \in Actor
        /\ acc \in [pw: BOOLEAN, mfa: BOOLEAN, pending: BOOLEAN]
    BY DEF IInv, Actor, TypeOK
  <1>1. CASE CliReset
    <2>1. PICK op \in {"issue", "reset"} :
            /\ Start(Cli, op, 0, FALSE, NoGrant)
            /\ op = "reset" => Passkeys(rows) # {}
      BY <1>1 DEF CliReset
    <2>2. /\ OneAtATime'
          /\ \A q \in Actor : q # Cli => request'[q] = Idle
          /\ request'[Cli].op = op
      BY <1>0, <1>1, <2>1, Starting DEF CliReset
    <2>3. UNCHANGED <<acc, rows>>
      BY <1>1 DEF CliReset
    <2>4. Passkeys({q \in rows : q.kind # "totp"}) = Passkeys(rows)
      BY DEF Passkeys
    <2>5. LeavesPath(Cli)'
      BY <2>1, <2>2, <2>3, <2>4 DEF LeavesPath, SignInPossible
    <2>q. QED BY <1>0, <2>2, <2>3, <2>5, Promises DEF SignInPath
  <1>2. CASE CliIssue
    <2>1. /\ request[Cli].op = "issue" /\ Proceed(Cli, "reset")
          /\ acc' = [acc EXCEPT !.pending = TRUE]
      BY <1>2 DEF CliIssue, Issued
    <2>2. acc'.pending
      BY <1>0, <2>1
    <2>3. OneAtATime'
      BY <1>0, <2>1, Proceeding
    <2>q. QED BY <2>2, <2>3 DEF SignInPath
  <1>3. CASE IssueRecovery
    <2>1. acc'.pending /\ UNCHANGED request
      BY <1>0, <1>3 DEF IssueRecovery, Issued
    <2>q. QED BY <1>0, <2>1 DEF SignInPath, OneAtATime
  <1>4. CASE CompleteRecovery
    <2>1. UNCHANGED request /\ \A q \in Actor : request'[q] = Idle /\ request'[q].op = "idle"
      <3>1. Quiet /\ UNCHANGED request
        BY <1>4 DEF CompleteRecovery
      <3>2. Idle.op = "idle"
        BY DEF Idle
      <3>q. QED BY <3>1, <3>2 DEF Quiet
    <2>2. rows' = {PasskeyRow(lastRow + 1)}
      BY <1>4 DEF CompleteRecovery
    <2>3. Passkeys(rows') # {}
      <3>1. PasskeyRow(lastRow + 1) \in Passkeys(rows')
        BY <2>2 DEF Passkeys, PasskeyRow
      <3>q. QED BY <3>1
    <2>4. SignInPath'
      BY <2>3 DEF SignInPath, SignInPossible
    <2>q. QED BY <2>1, <2>4 DEF OneAtATime, LeavesPath
  <1>5. CASE \E b \in Owner : SignInWithPasskey(b) \/ SignInAnew(b)
    <2>1. UNCHANGED <<acc, rows, request>>
      BY <1>5 DEF SignInWithPasskey, SignInAnew
    <2>2. OneAtATime' /\ SignInPath'
      BY <1>0, <2>1 DEF OneAtATime, SignInPath
    <2>3. \A p \in Actor : LeavesPath(p)' <=> LeavesPath(p)
      BY <2>1 DEF LeavesPath, RowsWithId
    <2>q. QED BY <2>1, <2>2, <2>3 DEF IInv
  <1>q. QED BY <1>1, <1>2, <1>3, <1>4, <1>5

---------------------------------------------------------------------------
(* Theorems *)

\* TypeOK, for every number of browsers, rows and secrets, with or without
\* overlapping requests and crashes.
THEOREM RemovalTypeCorrect == Spec => []TypeOK
  <1>1. Init => TypeOK /\ IsFiniteSet(rows)
    BY InitType
  <1>2. (TypeOK /\ IsFiniteSet(rows)) /\ [Next]_vars => (TypeOK /\ IsFiniteSet(rows))'
    BY NextType
  <1>q. QED BY <1>1, <1>2, PTL DEF Spec

\* IInv is inductive as long as requests do not overlap.
LEMMA NextKeeps ==
  ASSUME IInv, ~Overlap, [Next]_vars
  PROVE  IInv'
  <1>1. TypeOK' /\ IsFiniteSet(rows')
    BY NextType DEF IInv
  <1>2. OneAtATime' /\ SignInPath' /\ \A p \in Actor : acc'.pending \/ LeavesPath(p)'
    <2>1. CASE UNCHANGED vars
      <3>1. \A p \in Actor : LeavesPath(p)' <=> LeavesPath(p)
        BY <2>1 DEF vars, LeavesPath, RowsWithId
      <3>q. QED BY <2>1, <3>1 DEF vars, IInv, OneAtATime, SignInPath
    <2>2. CASE \E b \in Browser : StepUpStep(b)
      BY <2>2, StepUpKeeps
    <2>3. CASE \E b \in Browser : RequestStep(b)
      BY <2>3, RequestKeeps
    <2>4. CASE \E p \in Actor : ResetCommit(p) \/ RevokeSessions(p) \/ Crash(p)
      BY <2>4, ProcessKeeps
    <2>5. CASE \/ CliReset \/ CliIssue \/ IssueRecovery \/ CompleteRecovery
               \/ \E b \in Owner : SignInWithPasskey(b) \/ SignInAnew(b)
      BY <2>5, OthersKeep
    <2>q. QED BY <2>1, <2>2, <2>3, <2>4, <2>5 DEF Next
  <1>q. QED BY <1>1, <1>2 DEF IInv

\* No sequence of removals, resets, password switches, enrollments, recoveries
\* and crashes that do not overlap locks an account out, however many keys,
\* browsers and administrators there are: the path checks of
\* AuthenticationPolicyService are enough.
THEOREM PathKept ==
  ASSUME ~Overlap
  PROVE  Spec => []SignInPath
  <1>1. Init => IInv
    <2>1. ASSUME Init PROVE OneAtATime /\ SignInPath /\ \A p \in Actor : LeavesPath(p)
      BY <2>1 DEF Init, OneAtATime, SignInPath, LeavesPath, Idle
    <2>q. QED BY <2>1, InitType DEF IInv
  <1>2. IInv /\ [Next]_vars => IInv'
    BY NextKeeps
  <1>3. IInv => SignInPath
    BY DEF IInv
  <1>q. QED BY <1>1, <1>2, <1>3, PTL DEF Spec

---------------------------------------------------------------------------
(* Which key confirms a removal *)

\* There is one TOTP group for every secret.
LEMMA GroupPerSecret ==
  ASSUME NEW R, IsFiniteSet(R)
  PROVE  /\ IsFiniteSet(SecretsOf(R))
         /\ Cardinality(TotpGroups(R)) = Cardinality(SecretsOf(R))
  <1> DEFINE group == [s \in SecretsOf(R) |-> GroupOf(R, s)]
  <1>1. \A s \in SecretsOf(R) : \E r \in GroupOf(R, s) : r.secret = s
    BY DEF SecretsOf, GroupOf
  <1>2. \A s, q \in SecretsOf(R) : GroupOf(R, s) = GroupOf(R, q) => s = q
    BY <1>1 DEF GroupOf
  <1>3. group \in Bijection(SecretsOf(R), TotpGroups(R))
    <2>1. /\ group \in [SecretsOf(R) -> TotpGroups(R)]
          /\ \A g \in TotpGroups(R) : \E s \in SecretsOf(R) : group[s] = g
      BY DEF TotpGroups
    <2>2. IsInjective(group)
      BY <1>2 DEF IsInjective
    <2>q. QED BY <2>1, <2>2 DEF Bijection, Injection, Surjection
  <1>4. IsFiniteSet(SecretsOf(R))
    <2>1. ActiveTotp(R) \in SUBSET R
      BY DEF ActiveTotp
    <2>2. IsFiniteSet(ActiveTotp(R))
      BY <2>1, FS_Subset
    <2>3. [r \in ActiveTotp(R) |-> r.secret] \in Surjection(ActiveTotp(R), SecretsOf(R))
      BY DEF Surjection, SecretsOf
    <2>q. QED BY <2>2, <2>3, FS_Surjection
  <1>q. QED BY <1>3, <1>4, FS_Bijection DEF ExistsBijection

\* Removing a row whose secret others share, or that is no active TOTP row,
\* leaves every secret.
LEMMA SecretsStay ==
  ASSUME NEW R, NEW t \in R, ~RemovesUniqueSecret(R, t)
  PROVE  SecretsOf(R \ {t}) = SecretsOf(R)
  <1>1. ASSUME NEW s \in SecretsOf(R)
        PROVE  s \in SecretsOf(R \ {t})
    <2>1. GroupOf(R, s) \in TotpGroups(R) /\ GroupOf(R, s) # {}
      BY DEF TotpGroups, SecretsOf, GroupOf
    <2>2. PICK r \in GroupOf(R, s) : r # t
      BY <2>1 DEF RemovesUniqueSecret
    <2>3. r \in ActiveTotp(R \ {t}) /\ r.secret = s
      BY <2>2 DEF GroupOf, ActiveTotp
    <2>q. QED BY <2>3 DEF SecretsOf
  <1>2. ActiveTotp(R \ {t}) \subseteq ActiveTotp(R)
    BY DEF ActiveTotp
  <1>3. SecretsOf(R \ {t}) \subseteq SecretsOf(R)
    BY <1>2 DEF SecretsOf
  <1>q. QED BY <1>1, <1>3

\* What a proof is worth for a removal that turns the rows R into Q.
Worth(R, Q, method, key, target) ==
  /\ Passkeys(Q) # Passkeys(R) /\ Cardinality(Passkeys(Q)) = 1
       => method = "webauthn" /\ key # target
  /\ /\ Cardinality(TotpGroups(R)) = 2
     /\ Cardinality(TotpGroups(Q)) = 1
     /\ method = "totp"
     => key # target
  /\ TotpGroups(R) # {} /\ TotpGroups(Q) = {} => method = "webauthn"

LEMMA ProofsAreWorth ==
  ASSUME NEW R, IsFiniteSet(R), NEW t \in R, NEW method, NEW key,
         AllowsRemovalProof(CredentialRemovalPolicy(R, t), method, key, t.id)
  PROVE  Worth(R, R \ {t}, method, key, t.id)
  <1> DEFINE Left == R \ {t}
  <1>0. IsFiniteSet(Left)
    BY FS_RemoveElement
  <1>1. Passkeys(Left) = Passkeys(R) \ {t} /\ (t \in Passkeys(R) <=> t.kind = "webauthn")
    BY DEF Passkeys
  <1>2. t.kind = "webauthn" => ~RemovesUniqueSecret(R, t)
    BY DEF RemovesUniqueSecret, TotpGroups, GroupOf, ActiveTotp
  <1>3. ASSUME Passkeys(Left) # Passkeys(R), Cardinality(Passkeys(Left)) = 1
        PROVE  method = "webauthn" /\ key # t.id
    <2>1. t \in Passkeys(R) /\ t.kind = "webauthn"
      BY <1>1, <1>3
    <2>2. Cardinality(Passkeys(Left)) = Cardinality(Passkeys(R)) - 1
      BY <1>1, <2>1, CountsAreNatural, FS_RemoveElement
    <2>3. Cardinality(Passkeys(R)) = 2
      BY <1>3, <2>2, CountsAreNatural
    <2>q. QED BY <2>1, <2>3
       DEF AllowsRemovalProof, CredentialRemovalPolicy, PasskeyRemovalPolicy, Permit
  <1>4. Cardinality(TotpGroups(Left)) # Cardinality(TotpGroups(R)) =>
          RemovesUniqueSecret(R, t) /\ t.kind # "webauthn"
    BY <1>0, <1>2, SecretsStay, GroupPerSecret
  <1>5. ASSUME Cardinality(TotpGroups(R)) = 2, Cardinality(TotpGroups(Left)) = 1, method = "totp"
        PROVE  key # t.id
    <2>1. RemovesUniqueSecret(R, t) /\ t.kind # "webauthn"
      BY <1>4, <1>5
    <2>2. TotpAfter(R, t) = 1
      BY <1>5, <2>1 DEF TotpAfter
    <2>3. "totp" \in CredentialRemovalPolicy(R, t).different
      BY <1>5, <2>1, <2>2 DEF CredentialRemovalPolicy, TotpRemovalPolicy, Permit
    <2>q. QED BY <1>5, <2>3 DEF AllowsRemovalProof
  <1>6. ASSUME TotpGroups(R) # {}, TotpGroups(Left) = {}
        PROVE  method = "webauthn"
    <2>1. RemovesUniqueSecret(R, t)
      <3>1. SecretsOf(R) # {} /\ SecretsOf(Left) = {}
        BY <1>6 DEF TotpGroups
      <3>q. QED BY <3>1, SecretsStay
    <2>2. t.kind # "webauthn"
      BY <1>2, <2>1
    <2>3. TotpGroups(R) = {{t}}
      <3>1. ASSUME NEW g \in TotpGroups(R), g # {t}
            PROVE  FALSE
        <4>1. ActiveTotp(Left) # {}
          BY <3>1, GroupRemains
        <4>q. QED BY <1>6, <4>1 DEF TotpGroups, SecretsOf
      <3>q. QED BY <2>1, <3>1 DEF RemovesUniqueSecret
    <2>4. TotpAfter(R, t) = 0
      <3>1. Cardinality(TotpGroups(R)) = 1
        BY <2>3, FS_Singleton
      <3>q. QED BY <2>1, <3>1 DEF TotpAfter
    <2>5. CredentialRemovalPolicy(R, t).methods \subseteq {"webauthn"}
      BY <2>1, <2>2, <2>4 DEF CredentialRemovalPolicy, TotpRemovalPolicy, Permit
    <2>q. QED BY <2>5 DEF AllowsRemovalProof
  <1>q. QED BY <1>3, <1>5, <1>6 DEF Worth

\* A removal in self-service that waits for its DELETE holds a proof the policy
\* accepts for the rows as they are.
Judged(b) ==
  request[b].op = "delete" =>
    \E r \in rows :
      /\ r.id = request[b].row
      /\ AllowsRemovalProof(CredentialRemovalPolicy(rows, r), request[b].proof.method,
                            request[b].proof.key, r.id)

\* Where a request that is about to delete comes from, and where it goes.
LEMMA DeleteSteps ==
  ASSUME TypeOK, [Next]_vars, NEW b \in Owner
  PROVE  /\ request'[b].op = "delete" =>
              request'[b] = request[b] \/ \E r \in rows : DeleteBegin(b, r)
         /\ request[b].op = "delete" /\ request'[b].op = "revoke" => DeleteCommit(b)
  <1>0. request \in [Actor -> Requests] /\ b \in Actor /\ b \in Browser /\ b # Cli
    BY ActorsAreDistinct DEF TypeOK, Actor, Browser
  <1>a. \A p \in Actor : \A op : Proceed(p, op) =>
          (IF p = b THEN request'[b].op = op ELSE request'[b] = request[b])
    BY <1>0 DEF Proceed, Requests
  <1>b. \A p \in Actor : Respond(p) =>
          (IF p = b THEN request'[b].op = "idle" ELSE request'[b] = request[b])
    BY <1>0 DEF Respond, Idle
  <1>c. \A p \in Actor : \A op, row, enable, proof : Start(p, op, row, enable, proof) =>
          (IF p = b THEN request'[b].op = op ELSE request'[b] = request[b])
    BY <1>0 DEF Start
  <1> DEFINE Goal == /\ request'[b].op = "delete" =>
                          request'[b] = request[b] \/ \E r \in rows : DeleteBegin(b, r)
                     /\ request[b].op = "delete" /\ request'[b].op = "revoke" => DeleteCommit(b)
  <1>1. CASE request'[b] = request[b]
    BY <1>1
  <1>2. ASSUME NEW c \in Browser, StepUpStep(c)
        PROVE  request' = request
    BY <1>2 DEF StepUpStep, StepUpBegin, StepUpFinish, StepUpFails, VerifyTotp, GrantLost
  <1>3. ASSUME NEW c \in Browser, RequestStep(c)
        PROVE  Goal
    <2>0. c \in Actor
      BY DEF Actor
    <2>1. ASSUME NEW r \in rows, DeleteBegin(c, r)
          PROVE  Goal
      BY <1>0, <1>c, <2>0, <2>1 DEF DeleteBegin
    <2>2. CASE DeleteCommit(c)
      BY <1>a, <1>b, <2>0, <2>2 DEF DeleteCommit
    <2>3. CASE ResetBegin(c)
      <3>1. Start(c, "reset", 0, FALSE, grant[c])
        BY <2>3 DEF ResetBegin
      <3>2. IF c = b THEN request'[b].op = "reset" ELSE request'[b] = request[b]
        BY <1>c, <2>0, <3>1
      <3>q. QED BY <3>2
    <2>4. ASSUME NEW enable \in BOOLEAN, PasswordBegin(c, enable)
          PROVE  Goal
      BY <1>c, <2>0, <2>4 DEF PasswordBegin
    <2>5. CASE PasswordCommit(c)
      BY <1>a, <1>b, <2>0, <2>5 DEF PasswordCommit
    <2>6. ASSUME NEW kind \in {"webauthn", "totp"}, EnrollBegin(c, kind)
          PROVE  Goal
      BY <1>c, <2>0, <2>6 DEF EnrollBegin
    <2>7. CASE EnrollInsert(c) \/ EnrollFlag(c)
      BY <1>a, <2>0, <2>7 DEF EnrollInsert, EnrollFlag
    <2>q. QED BY <1>3, <2>1, <2>2, <2>3, <2>4, <2>5, <2>6, <2>7 DEF RequestStep
  <1>4. ASSUME NEW p \in Actor, ResetCommit(p) \/ RevokeSessions(p) \/ Crash(p)
        PROVE  Goal
    <2>1. CASE ResetCommit(p)
      BY <1>a, <2>1 DEF ResetCommit
    <2>2. CASE RevokeSessions(p)
      BY <1>b, <2>2 DEF RevokeSessions
    <2>3. CASE Crash(p)
      <3>1. IF p = b THEN request'[b].op = "idle" ELSE request'[b] = request[b]
        BY <1>0, <2>3 DEF Crash, Idle
      <3>q. QED BY <3>1
    <2>q. QED BY <1>4, <2>1, <2>2, <2>3
  <1>5. CASE CliReset \/ CliIssue
    <2>1. request'[b] = request[b]
      BY <1>0, <1>5 DEF CliReset, CliIssue, Start, Proceed
    <2>q. QED BY <2>1
  <1>q. QED BY <1>1, <1>2, <1>3, <1>4, <1>5
     DEF Next, vars, SignInWithPasskey, SignInAnew, IssueRecovery, CompleteRecovery

\* Without overlap nobody changes the rows while a removal is under way.
LEMMA RowsStay ==
  ASSUME IInv, ~Overlap, [Next]_vars, NEW b \in Owner, request'[b].op = "delete"
  PROVE  rows' = rows
  <1>0. request \in [Actor -> Requests] /\ b \in Actor /\ b \in Browser /\ OneAtATime /\ TypeOK
    BY DEF IInv, TypeOK, Actor, Browser
  <1>1. ASSUME NEW p \in Actor, request[p].op # "idle", NEW op, op # "delete",
               Proceed(p, op) \/ Respond(p)
        PROVE  FALSE
    <2>1. CASE Proceed(p, op)
      <3>1. (\A q \in Actor : q # p => request'[q] = Idle) /\ request'[p].op = op
        BY <1>0, <1>1, <2>1, Proceeding
      <3>q. QED BY <1>0, <1>1, <3>1 DEF Idle
    <2>2. CASE Respond(p)
      <3>1. \A q \in Actor : request'[q] = Idle
        BY <1>0, <1>1, <2>2, Stopping DEF Respond
      <3>q. QED BY <1>0, <3>1 DEF Idle
    <2>q. QED BY <1>1, <2>1, <2>2
  <1>2. ASSUME NEW c \in Browser, StepUpStep(c)
        PROVE  rows' = rows
    BY <1>2 DEF StepUpStep, StepUpBegin, StepUpFinish, StepUpFails, VerifyTotp, GrantLost
  <1>3. ASSUME NEW c \in Browser, RequestStep(c)
        PROVE  rows' = rows
    <2>0. c \in Actor
      BY DEF Actor
    <2>1. ~DeleteCommit(c)
      BY <1>1, <2>0 DEF DeleteCommit
    <2>2. ~EnrollInsert(c)
      BY <1>1, <2>0 DEF EnrollInsert
    <2>q. QED BY <1>3, <2>1, <2>2
       DEF RequestStep, DeleteBegin, ResetBegin, PasswordBegin, PasswordCommit, EnrollBegin, EnrollFlag
  <1>4. ASSUME NEW p \in Actor, ResetCommit(p) \/ RevokeSessions(p) \/ Crash(p)
        PROVE  rows' = rows
    BY <1>1, <1>4 DEF ResetCommit, RevokeSessions, Crash
  <1>5. ~CompleteRecovery
    <2>1. CompleteRecovery => request'[b] = Idle
      BY <1>0 DEF CompleteRecovery, Quiet
    <2>q. QED BY <2>1 DEF Idle
  <1>q. QED BY <1>2, <1>3, <1>4, <1>5
     DEF Next, vars, SignInWithPasskey, SignInAnew, IssueRecovery, CliReset, CliIssue

LEMMA JudgedKept ==
  ASSUME IInv, ~Overlap, [Next]_vars, NEW b \in Owner, Judged(b)
  PROVE  Judged(b)'
  <1> SUFFICES ASSUME request'[b].op = "delete"
               PROVE  Judged(b)'
    BY DEF Judged
  <1>1. rows' = rows
    BY RowsStay
  <1>2. CASE request'[b] = request[b]
    BY <1>1, <1>2 DEF Judged
  <1>3. ASSUME NEW r \in rows, DeleteBegin(b, r)
        PROVE  Judged(b)'
    <2>1. request'[b].row = r.id /\ request'[b].proof = grant[b]
      BY <1>3 DEF DeleteBegin, Start, IInv, TypeOK, Actor, Browser
    <2>2. AllowsRemovalProof(CredentialRemovalPolicy(rows, r), grant[b].method, grant[b].key, r.id)
      BY <1>3 DEF DeleteBegin, ProofAccepted, SelfService
    <2>q. QED BY <1>1, <2>1, <2>2 DEF Judged
  <1>q. QED BY <1>2, <1>3, DeleteSteps DEF IInv

\* The key that confirms a removal in self-service is another one where it has to
\* be, for any number of keys, browsers and administrators, as long as requests
\* that change credentials do not overlap.
THEOREM AnotherKeyIsAsked ==
  ASSUME ~Overlap
  PROVE  Spec => AnotherKeyConfirms
  <1> DEFINE
    Step == \A b \in Owner :
      request[b].op = "delete" /\ request'[b].op = "revoke" =>
        Worth(rows, rows', request[b].proof.method, request[b].proof.key, request[b].row)
    Property == \A b \in Owner :
      LET proof == request[b].proof
          target == request[b].row
      IN  (/\ request[b].op = "delete"
           /\ request'[b].op = "revoke")
          => /\ Passkeys(rows') # Passkeys(rows) /\ Cardinality(Passkeys(rows')) = 1
                => proof.method = "webauthn" /\ proof.key # target
             /\ /\ Cardinality(TotpGroups(rows)) = 2
                /\ Cardinality(TotpGroups(rows')) = 1
                /\ proof.method = "totp"
                => proof.key # target
             /\ TotpGroups(rows) # {} /\ TotpGroups(rows') = {}
                => proof.method = "webauthn"
    AllJudged == \A b \in Owner : Judged(b)
  <1>1. ASSUME IInv, AllJudged, [Next]_vars
        PROVE  Step
    <2> SUFFICES ASSUME NEW b \in Owner, request[b].op = "delete", request'[b].op = "revoke"
                 PROVE  Worth(rows, rows', request[b].proof.method, request[b].proof.key,
                              request[b].row)
      OBVIOUS
    <2>1. PICK r \in rows :
            /\ r.id = request[b].row
            /\ AllowsRemovalProof(CredentialRemovalPolicy(rows, r), request[b].proof.method,
                                  request[b].proof.key, r.id)
      BY <1>1 DEF Judged
    <2>2. TypeOK /\ IsFiniteSet(rows)
      BY <1>1 DEF IInv
    <2>3. rows' = rows \ {r}
      <3>1. DeleteCommit(b)
        BY <1>1, <2>2, DeleteSteps
      <3>q. QED BY <2>1, <2>2, <3>1, OneRowPerId DEF DeleteCommit
    <2>q. QED BY <2>1, <2>2, <2>3, ProofsAreWorth
  <1>2. Init => IInv /\ AllJudged
    <2>1. ASSUME Init PROVE OneAtATime /\ SignInPath /\ (\A p \in Actor : LeavesPath(p)) /\ AllJudged
      BY <2>1 DEF Init, OneAtATime, SignInPath, LeavesPath, Idle, Judged, Actor, Browser
    <2>q. QED BY <2>1, InitType DEF IInv
  <1>3. (IInv /\ AllJudged) /\ [Next]_vars => (IInv /\ AllJudged)'
    BY NextKeeps, JudgedKept
  <1>4. Step => Property
    BY DEF Worth
  <1>5. IInv /\ AllJudged /\ [Next]_vars => [Property]_vars
    BY <1>1, <1>4
  <1>6. Spec => [][Property]_vars
    BY <1>2, <1>3, <1>5, PTL DEF Spec
  <1>q. QED BY <1>6 DEF AnotherKeyConfirms
=============================================================================
