-------------------------- MODULE CredentialRemoval --------------------------
(***************************************************************************)
(* The authenticators of one LexNova account while its owner, another      *)
(* administrator and the command line change them: step-up confirmations,  *)
(* removal of passkeys and TOTP keys, TOTP reset, switching the password   *)
(* off and on, enrollment and recovery (StepUpService, PasskeyDelete-,     *)
(* TotpKeyDelete-, TotpReset-, UserUpdate-, PasskeyRegister- and           *)
(* TotpEnrollHandler, UserTotpResetCommand).                               *)
(*                                                                         *)
(* A request that changes credentials takes several steps, because its     *)
(* checks and its statements are not in one transaction: it decides, then  *)
(* deletes or writes, then revokes sessions.  Session data is stored when  *)
(* the request ends, and one PHP session runs one request at a time.       *)
(* Recovery, modelled in module AccountRecovery, is here two atomic steps; *)
(* the credential limits are above the number of rows and are left out.    *)
(***************************************************************************)
EXTENDS RemovalPolicy

CONSTANTS
  Owner,      \* PHP sessions of the account's owner
  Admin,      \* PHP sessions of another administrator
  Cli,        \* the bin/lexnova process
  Secret,     \* TOTP secrets that decrypt
  MaxRow,     \* bound: authenticator rows ever inserted
  Asked,      \* bound: the actions users ask a confirmation for
  Overlap,    \* may requests that change credentials overlap in time?
  MayCrash    \* may a process die in the middle of a request?

ASSUME ActorsAreDistinct == Owner \cap Admin = {} /\ Cli \notin Owner \cup Admin
ASSUME NoSecretIsNoSecret == NoSecret \notin Secret
ASSUME BoundIsNatural == MaxRow \in Nat
ASSUME SwitchesAreBoolean == Overlap \in BOOLEAN /\ MayCrash \in BOOLEAN

VARIABLES
  acc,        \* users row: pw, mfa, pending (activation_required)
  rows,       \* user_authenticators
  lastRow,    \* its AUTOINCREMENT counter
  live,       \* does the session row of this browser still count?
  pending,    \* session data: step_up_pending
  grant,      \* session data: step_up_grant
  request     \* the request in flight

vars == <<acc, rows, lastRow, live, pending, grant, request>>

---------------------------------------------------------------------------
(* Types *)

Browser == Owner \cup Admin
Actor == Browser \cup {Cli}
RowId == 1..MaxRow
Row == [id: RowId, kind: {"webauthn", "totp"}, secret: Secret \cup {NoSecret},
        active: BOOLEAN]

\* Key 0 is the administrator's own passkey; target 0 is the whole account.
Own == 0
All == 0
KeyId == 0..MaxRow

Action == {"auth.webauthn.add", "auth.totp.add", "auth.webauthn.delete",
           "auth.totp.delete", "auth.totp.reset", "auth.password.enable",
           "auth.password.disable", "auth.policy.change", "auth.recovery"}
Nothing == [action |-> "none", target |-> 0, keys |-> {}]
NoGrant == [action |-> "none", target |-> 0, method |-> "none", key |-> 0]
Grants == [action: Action, target: KeyId, method: {"webauthn", "totp"}, key: KeyId]

\* row: what is deleted; enable: the new password_login_enabled; proof: the
\* consumed grant
Idle == [op |-> "idle", row |-> 0, enable |-> FALSE, proof |-> NoGrant]
Op == {"idle", "delete", "reset", "password", "webauthn", "totp", "flag", "issue", "revoke"}
Requests == [op: Op, row: KeyId, enable: BOOLEAN, proof: Grants \cup {NoGrant}]

TypeOK ==
  /\ acc \in [pw: BOOLEAN, mfa: BOOLEAN, pending: BOOLEAN]
  /\ rows \subseteq Row
  /\ \A r \in rows : r.id <= lastRow
  /\ \A r, q \in rows : r.id = q.id => r = q
  /\ lastRow \in 0..MaxRow
  /\ live \in [Owner -> BOOLEAN]
  /\ pending \in [Browser -> [action: Action, target: KeyId, keys: SUBSET KeyId] \cup {Nothing}]
  /\ grant \in [Browser -> Grants \cup {NoGrant}]
  /\ request \in [Actor -> Requests]

---------------------------------------------------------------------------
(* Initial states: an account with a password and no factor yet, or one that
   has enrolled and can sign in; older rows may share a secret. *)

Fresh == [pw |-> TRUE, mfa |-> FALSE, pending |-> FALSE]

\* a mutation: the id read before the INSERT has advanced the counter
PasskeyRowBefore(i) == [id |-> i - 1, kind |-> "webauthn", secret |-> NoSecret, active |-> TRUE]

PasskeyRow(i) == [id |-> i, kind |-> "webauthn", secret |-> NoSecret, active |-> TRUE]
TotpRow(i, s) == [id |-> i, kind |-> "totp", secret |-> s, active |-> TRUE]

Enrolled(n) ==
  {{IF g[i] \in Secret THEN TotpRow(i, g[i]) ELSE PasskeyRow(i) : i \in 1..n} :
     g \in [1..n -> Secret \cup {NoSecret}]}

Init ==
  /\ lastRow \in 0..MaxRow
  /\ rows \in Enrolled(lastRow)
  /\ acc \in {Fresh} \cup [pw: BOOLEAN, mfa: {TRUE}, pending: {FALSE}]
  /\ acc = Fresh <=> rows = {}
  /\ SignInPossible(acc, rows)
  /\ live = [b \in Owner |-> FALSE]
  /\ pending = [b \in Browser |-> Nothing]
  /\ grant = [b \in Browser |-> NoGrant]
  /\ request = [p \in Actor |-> Idle]

---------------------------------------------------------------------------
(* Queries *)

SelfService(b) == b \in Owner

\* AdminAuthMiddleware lets the request in.
SignedIn(b) == SelfService(b) => live[b] /\ ~acc.pending

Quiet == \A p \in Actor : request[p] = Idle

\* Whether a request that changes credentials may start now.
MayStart(p) == request[p] = Idle /\ (Overlap \/ Quiet)

\* The passkeys the signed-in user has, and the options the server offers.
OwnPasskeys(b) == IF SelfService(b) THEN {r.id : r \in Passkeys(rows)} ELSE {Own}

RowsWithId(id) == {r \in rows : r.id = id}

DeleteAction(r) == IF r.kind = "webauthn" THEN "auth.webauthn.delete" ELSE "auth.totp.delete"

RemovalActions == {"auth.webauthn.delete", "auth.totp.delete"}

\* Actions whose target is the account; the others name a row.
AccountActions == Action \ (RemovalActions \cup {"auth.recovery"})

PasswordActions == {"auth.password.enable", "auth.password.disable", "auth.policy.change"}

\* hasActiveTotpKey, hasPasskey or mfaRequired
NeedsStepUp == acc.mfa \/ \E r \in rows : r.kind = "webauthn" \/ r.active

---------------------------------------------------------------------------
(* Mutations: slips in the code that the properties below must notice. *)

\* a removal handler that trusts the check made when the grant was given
ProofNotCheckedAgain(b, r) == TRUE

---------------------------------------------------------------------------
(* Step-up *)

\* selfRemovalTarget and the policy for it, when the action is a removal
RemovalDecisions(action, t) ==
  {CredentialRemovalPolicy(rows, r) : r \in {q \in RowsWithId(t) : DeleteAction(q) = action}}

\* What the signed-in user may ask a confirmation for.  Bound: one at a time; a
\* newer one would replace what is stored, as if it had been lost before.
Askable(b, action, t) ==
  /\ action \in Asked
  /\ pending[b] = Nothing
  /\ grant[b] = NoGrant
  /\ IF SelfService(b)
     THEN \/ action \in AccountActions /\ t = All
          \/ action \in RemovalActions /\ RowsWithId(t) # {}
     ELSE \/ action = "auth.recovery" /\ (t = All \/ RowsWithId(t) # {})
          \/ action \in PasswordActions /\ t = All

\* StepUpService::begin stores the challenge with the keys it may be answered by.
StepUpBegin(b, action, t) ==
  /\ request[b] = Idle
  /\ SignedIn(b)
  /\ Askable(b, action, t)
  /\ OwnPasskeys(b) # {}
  /\ LET offered(excluded) ==
           pending' = [pending EXCEPT ![b] =
             [action |-> action, target |-> t, keys |-> OwnPasskeys(b) \ excluded]]
     IN  IF action \in RemovalActions
         THEN \E d \in RemovalDecisions(action, t) :
                /\ d.allowed
                /\ "webauthn" \in d.methods
                /\ offered(d.excluded)
         ELSE offered({})
  /\ UNCHANGED <<acc, rows, lastRow, live, grant, request>>

\* StepUpService::grant
Grant(b, action, t, method, k) ==
  grant' = [grant EXCEPT ![b] = [action |-> action, target |-> t, method |-> method, key |-> k]]

\* finishPasskey: key k signs the challenge, and a removal is decided again.
StepUpFinish(b, k) ==
  LET p == pending[b] IN
    /\ request[b] = Idle
    /\ SignedIn(b)
    /\ k \in p.keys \cap OwnPasskeys(b)
    /\ p.action \in RemovalActions =>
         \E d \in RemovalDecisions(p.action, p.target) :
           AllowsRemovalProof(d, "webauthn", k, p.target)
    /\ Grant(b, p.action, p.target, "webauthn", k)
    /\ pending' = [pending EXCEPT ![b] = Nothing]
    /\ UNCHANGED <<acc, rows, lastRow, live, request>>

\* The challenge is spent on an assertion that fails, or is older than 120 s.
StepUpFails(b) ==
  /\ request[b] = Idle
  /\ pending[b] # Nothing
  /\ pending' = [pending EXCEPT ![b] = Nothing]
  /\ UNCHANGED <<acc, rows, lastRow, live, grant, request>>

\* verifyTotp: the code matches the secret of row k, the oldest of its group.
VerifyTotp(b, action, t, k) ==
  /\ request[b] = Idle
  /\ SelfService(b)
  /\ SignedIn(b)
  /\ Askable(b, action, t)
  /\ "totp" \in StepUpMethods(action)
  /\ \E g \in TotpGroups(rows) : \A r \in g : k <= r.id /\ (\E q \in g : q.id = k)
  /\ action = "auth.totp.delete" =>
       \E d \in RemovalDecisions(action, t) : AllowsRemovalProof(d, "totp", k, t)
  /\ Grant(b, action, t, "totp", k)
  /\ UNCHANGED <<acc, rows, lastRow, live, pending, request>>

\* The grant is older than 120 s, or a request consumes it that it does not
\* confirm and that therefore is refused.
GrantLost(b) ==
  /\ request[b] = Idle
  /\ grant[b] # NoGrant
  /\ grant' = [grant EXCEPT ![b] = NoGrant]
  /\ UNCHANGED <<acc, rows, lastRow, live, pending, request>>

\* StepUpService::consume returns the grant.
Confirms(b, action, t) == grant[b].action = action /\ grant[b].target = t

---------------------------------------------------------------------------
(* Requests that change credentials *)

Start(p, op, row, enable, proof) ==
  request' = [request EXCEPT ![p] =
                [op |-> op, row |-> row, enable |-> enable, proof |-> proof]]

Proceed(p, op) == request' = [request EXCEPT ![p].op = op]

\* The response is sent and the session data stored, without a consumed grant.
Respond(p) ==
  /\ request' = [request EXCEPT ![p] = Idle]
  /\ grant' = IF p \in Browser /\ request[p].proof # NoGrant
              THEN [grant EXCEPT ![p] = NoGrant] ELSE grant

\* What the handlers check before they look at the grant.
MayRemove(b, r) ==
  /\ HasValidAuthenticationPathAfterRemoval(acc, rows, r)
  /\ IF SelfService(b) THEN CredentialRemovalPolicy(rows, r).allowed ELSE ~acc.pending

\* acceptsRemovalProof on the decision of this request; only self-service asks.
ProofAccepted(b, r) ==
  SelfService(b) =>
    AllowsRemovalProof(CredentialRemovalPolicy(rows, r), grant[b].method, grant[b].key, r.id)

\* PasskeyDeleteHandler and TotpKeyDeleteHandler, up to the DELETE ...
DeleteBegin(b, r) ==
  /\ MayStart(b)
  /\ SignedIn(b)
  /\ r \in rows
  /\ MayRemove(b, r)
  /\ Confirms(b, IF SelfService(b) THEN DeleteAction(r) ELSE "auth.recovery", r.id)
  /\ ProofAccepted(b, r)
  /\ Start(b, "delete", r.id, FALSE, grant[b])
  /\ UNCHANGED <<acc, rows, lastRow, live, pending, grant>>

\* ... which finds the row, or not.
DeleteCommit(b) ==
  LET found == RowsWithId(request[b].row) IN
    /\ request[b].op = "delete"
    /\ rows' = rows \ found
    /\ IF found # {} THEN Proceed(b, "revoke") /\ UNCHANGED grant ELSE Respond(b)
    /\ UNCHANGED <<acc, lastRow, live, pending>>

\* TotpResetHandler
ResetBegin(b) ==
  /\ MayStart(b)
  /\ SignedIn(b)
  /\ ~acc.pending
  /\ CanResetTotp(acc, rows)
  /\ Confirms(b, IF SelfService(b) THEN "auth.totp.reset" ELSE "auth.recovery", All)
  /\ Start(b, "reset", 0, FALSE, grant[b])
  /\ UNCHANGED <<acc, rows, lastRow, live, pending, grant>>

\* deleteAllTotpKeys
ResetCommit(p) ==
  /\ request[p].op = "reset"
  /\ rows' = {r \in rows : r.kind # "totp"}
  /\ Proceed(p, "revoke")
  /\ UNCHANGED <<acc, lastRow, live, pending, grant>>

\* bin/lexnova user:totp-reset counts the active keys, then the passkeys.
CliReset ==
  /\ MayStart(Cli)
  /\ \E r \in rows : r.kind = "totp" /\ r.active
  /\ Start(Cli, IF Passkeys(rows) = {} THEN "issue" ELSE "reset", 0, FALSE, NoGrant)
  /\ UNCHANGED <<acc, rows, lastRow, live, pending, grant>>

\* ActivationService::issue for recovery: one transaction.
Issued ==
  /\ acc' = [acc EXCEPT !.pending = TRUE]
  /\ live' = [b \in Owner |-> FALSE]

CliIssue ==
  /\ request[Cli].op = "issue"
  /\ Issued
  /\ Proceed(Cli, "reset")
  /\ UNCHANGED <<rows, lastRow, pending, grant>>

\* The action UserUpdateHandler asks a confirmation for.
PasswordAction(enable) ==
  IF acc.pw = enable THEN "auth.policy.change"
  ELSE IF enable THEN "auth.password.enable" ELSE "auth.password.disable"

\* UserUpdateHandler with the same role and no new password
PasswordBegin(b, enable) ==
  /\ MayStart(b)
  /\ SignedIn(b)
  /\ enable \/ CanDisablePasswordLogin(rows)
  /\ Confirms(b, PasswordAction(enable), All)
  /\ Start(b, "password", 0, enable, grant[b])
  /\ UNCHANGED <<acc, rows, lastRow, live, pending, grant>>

\* Sessions end only when the setting differs from the one read before.
PasswordCommit(b) ==
  /\ request[b].op = "password"
  /\ acc' = [acc EXCEPT !.pw = request[b].enable]
  /\ IF request[b].proof.action = "auth.policy.change"
     THEN Respond(b) ELSE Proceed(b, "revoke") /\ UNCHANGED grant
  /\ UNCHANGED <<rows, lastRow, live, pending>>

\* PasskeyRegisterHandler and TotpEnrollHandler
EnrollBegin(b, kind) ==
  /\ MayStart(b)
  /\ SelfService(b)
  /\ SignedIn(b)
  /\ NeedsStepUp =>
       Confirms(b, IF kind = "webauthn" THEN "auth.webauthn.add" ELSE "auth.totp.add", All)
  /\ Start(b, kind, 0, FALSE, IF NeedsStepUp THEN grant[b] ELSE NoGrant)
  /\ UNCHANGED <<acc, rows, lastRow, live, pending, grant>>

\* The row is inserted ...
EnrollInsert(b) ==
  /\ request[b].op \in {"webauthn", "totp"}
  /\ lastRow < MaxRow
  /\ lastRow' = lastRow + 1
  /\ IF request[b].op = "webauthn"
     THEN rows' = rows \cup {PasskeyRow(lastRow + 1)}
     ELSE \E s \in Secret \ {r.secret : r \in rows} :
            rows' = rows \cup {TotpRow(lastRow + 1, s)}
  /\ Proceed(b, "flag")
  /\ UNCHANGED <<acc, live, pending, grant>>

\* ... and then the account demands a second factor.
EnrollFlag(b) ==
  /\ request[b].op = "flag"
  /\ acc' = [acc EXCEPT !.mfa = TRUE]
  /\ Proceed(b, "revoke")
  /\ UNCHANGED <<rows, lastRow, live, pending, grant>>

\* revokeOtherSessions for the owner, revokeUser for the others
RevokeSessions(p) ==
  /\ request[p].op = "revoke"
  /\ live' = [b \in Owner |-> live[b] /\ b = p]
  /\ Respond(p)
  /\ UNCHANGED <<acc, rows, lastRow, pending>>

---------------------------------------------------------------------------
(* Sign-in, recovery and failure *)

\* PasskeyLoginHandler signs in within the PHP session the browser has.
SignInWithPasskey(b) ==
  /\ request[b] = Idle
  /\ ~acc.pending
  /\ Passkeys(rows) # {}
  /\ live' = [live EXCEPT ![b] = TRUE]
  /\ UNCHANGED <<acc, rows, lastRow, pending, grant, request>>

\* Sign-in by any way in a new PHP session.
SignInAnew(b) ==
  /\ request[b] = Idle
  /\ ~acc.pending
  /\ SignInPossible(acc, rows)
  /\ live' = [live EXCEPT ![b] = TRUE]
  /\ pending' = [pending EXCEPT ![b] = Nothing]
  /\ grant' = [grant EXCEPT ![b] = NoGrant]
  /\ UNCHANGED <<acc, rows, lastRow, request>>

\* A recovery ticket is issued by the other administrator or the command line ...
IssueRecovery ==
  /\ Overlap \/ Quiet
  /\ Issued
  /\ UNCHANGED <<rows, lastRow, pending, grant, request>>

\* ... and completed: the new passkey replaces every older authenticator.
CompleteRecovery ==
  /\ Overlap \/ Quiet
  /\ acc.pending
  /\ lastRow < MaxRow
  /\ lastRow' = lastRow + 1
  /\ rows' = {PasskeyRow(lastRow + 1)}
  /\ acc' = [acc EXCEPT !.pending = FALSE, !.mfa = TRUE]
  /\ UNCHANGED <<live, pending, grant, request>>

\* A process dies: its statements stay, its changes to session data are lost.
Crash(p) ==
  /\ request[p] # Idle
  /\ MayCrash
  /\ request' = [request EXCEPT ![p] = Idle]
  /\ UNCHANGED <<acc, rows, lastRow, live, pending, grant>>

---------------------------------------------------------------------------

StepUpStep(b) ==
  \/ \E action \in Action, t \in KeyId : StepUpBegin(b, action, t)
  \/ \E k \in KeyId : StepUpFinish(b, k)
  \/ StepUpFails(b)
  \/ \E action \in Action, t \in KeyId, k \in RowId : VerifyTotp(b, action, t, k)
  \/ GrantLost(b)

RequestStep(b) ==
  \/ \E r \in rows : DeleteBegin(b, r)
  \/ DeleteCommit(b)
  \/ ResetBegin(b)
  \/ \E enable \in BOOLEAN : PasswordBegin(b, enable)
  \/ PasswordCommit(b)
  \/ \E kind \in {"webauthn", "totp"} : EnrollBegin(b, kind)
  \/ EnrollInsert(b)
  \/ EnrollFlag(b)

Next ==
  \/ \E b \in Browser : StepUpStep(b) \/ RequestStep(b)
  \/ \E p \in Actor : ResetCommit(p) \/ RevokeSessions(p) \/ Crash(p)
  \/ \E b \in Owner : SignInWithPasskey(b) \/ SignInAnew(b)
  \/ CliReset
  \/ CliIssue
  \/ IssueRecovery
  \/ CompleteRecovery

Spec == Init /\ [][Next]_vars

---------------------------------------------------------------------------
(* Properties *)

\* As long as credential changes do not overlap, no sequence of removals,
\* resets, password switches, enrollments and recoveries, by whomever and
\* broken off wherever a process dies, leaves an account that is not waiting for
\* recovery without a way to sign in: the path checks of the handlers are enough.
SignInPath == acc.pending \/ SignInPossible(acc, rows)

\* Removing a key in self-service, the owner confirms the step from two keys to
\* one with another key than the removed one, and the removal of the last TOTP
\* secret with a passkey, whatever the account held when the step-up was given:
\* AuthenticationPolicyService::acceptsRemovalProof judges the grant again.
AnotherKeyConfirms ==
  [][\A b \in Owner :
       LET proof == request[b].proof
           target == request[b].row
       IN  (/\ request[b].op = "delete"
            /\ request'[b].op = "revoke")
           => /\ Passkeys(rows') # Passkeys(rows) /\ Cardinality(Passkeys(rows')) = 1
                 => proof.method = "webauthn" /\ proof.key # target
              /\ /\ Cardinality(TotpGroups(rows)) = 2
                 /\ Cardinality(TotpGroups(rows')) = 1
                 /\ proof.method = "totp"
                 => proof.key # target
              /\ TotpGroups(rows) # {} /\ TotpGroups(rows') = {}
                 => proof.method = "webauthn"]_vars
=============================================================================
