--------------------------- MODULE RemovalPolicy ---------------------------
(***************************************************************************)
(* AuthenticationPolicyService: which authenticator of an account may be   *)
(* removed, and on which evidence.  The service is a set of queries; here  *)
(* they are operators over what it reads:                                  *)
(*   acc    the users row: pw (password_login_enabled) and mfa             *)
(*          (mfa_required)                                                 *)
(*   rows   the user_authenticators rows of the account: a set of records  *)
(*          [id, kind, secret, active] in which the primary key id is      *)
(*          unique                                                         *)
(*   t      the row whose removal is asked for                             *)
(***************************************************************************)
EXTENDS Integers, FiniteSets

CONSTANT NoSecret   \* secret_enc is NULL (a passkey) or does not decrypt

\* UserService::countPasskeys counts these rows.
Passkeys(rows) == {r \in rows : r.kind = "webauthn"}

\* getStoredTotpCredentials(userId, true), as far as the secret decrypts
ActiveTotp(rows) == {r \in rows : r.kind = "totp" /\ r.active /\ r.secret # NoSecret}

\* TotpService::uniqueCredentialGroups: rows with one secret are one authenticator.
SecretsOf(rows) == {r.secret : r \in ActiveTotp(rows)}
GroupOf(rows, s) == {r \in ActiveTotp(rows) : r.secret = s}
TotpGroups(rows) == {GroupOf(rows, s) : s \in SecretsOf(rows)}

\* The group of t holds no other row, so removing t removes its secret.
RemovesUniqueSecret(rows, t) == {t} \in TotpGroups(rows)

PasskeysAfter(rows, t) ==
  Cardinality(Passkeys(rows)) - (IF t.kind = "webauthn" THEN 1 ELSE 0)

TotpAfter(rows, t) ==
  Cardinality(TotpGroups(rows)) - (IF RemovesUniqueSecret(rows, t) THEN 1 ELSE 0)

---------------------------------------------------------------------------
(* Sign-in *)

\* LoginHandler without a second factor: the row asks for none.
PasswordAlone(acc) == acc.pw /\ ~acc.mfa

\* The account has a way in: LoginHandler with the password alone,
\* PasskeyLoginHandler with a passkey, or TotpVerifyHandler after the password.
SignInPossible(acc, rows) ==
  \/ PasswordAlone(acc)
  \/ Passkeys(rows) # {}
  \/ acc.pw /\ ActiveTotp(rows) # {}

\* hasValidAuthenticationPathAfterRemoval
HasValidAuthenticationPathAfterRemoval(acc, rows, t) ==
  \/ PasswordAlone(acc)
  \/ PasskeysAfter(rows, t) > 0
  \/ acc.pw /\ TotpAfter(rows, t) > 0

\* canResetTotp
CanResetTotp(acc, rows) == PasswordAlone(acc) \/ Passkeys(rows) # {}

\* a mutation: any strong factor may replace the password
AnyFactorReplacesPassword(rows) == rows # {}

\* canDisablePasswordLogin
CanDisablePasswordLogin(rows) == Passkeys(rows) # {}

---------------------------------------------------------------------------
(* Removal in self-service *)

Denied == [allowed |-> FALSE, methods |-> {}, different |-> {}, excluded |-> {}]

Permit(methods, different, excluded) ==
  [allowed |-> methods # {}, methods |-> methods, different |-> different,
   excluded |-> excluded]

\* Below three passkeys the removed one cannot confirm; the last one stays.
PasskeyRemovalPolicy(rows, t) ==
  LET count == Cardinality(Passkeys(rows)) IN
    IF count <= 1 THEN Denied
    ELSE IF count = 2 THEN Permit({"webauthn"}, {"webauthn"}, {t.id})
    ELSE Permit({"webauthn"}, {}, {})

\* The last TOTP secret goes only on the word of a passkey.
TotpRemovalPolicy(rows, t) ==
  LET after == TotpAfter(rows, t)
      passkey == IF Passkeys(rows) # {} THEN {"webauthn"} ELSE {}
      lastTwo == Cardinality(TotpGroups(rows)) = 2 /\ after = 1
  IN  IF after = 0 /\ RemovesUniqueSecret(rows, t)
      THEN Permit(passkey, {}, {})
      ELSE Permit((IF after > 0 THEN {"totp"} ELSE {}) \cup passkey,
                  IF lastTwo THEN {"totp"} ELSE {}, {})

\* credentialRemovalPolicy
CredentialRemovalPolicy(rows, t) ==
  IF t.kind = "webauthn" THEN PasskeyRemovalPolicy(rows, t) ELSE TotpRemovalPolicy(rows, t)

\* allowsRemovalProof: the method is allowed, and where another authenticator of
\* that method has to confirm, key (authenticatorId) is not the target.
AllowsRemovalProof(decision, method, key, target) ==
  /\ decision.allowed
  /\ method \in decision.methods
  /\ method \in decision.different => key # target

\* stepUpMethodsFor, for the actions other than the removal of a TOTP row
StepUpMethods(action) ==
  IF action \in {"auth.webauthn.delete", "auth.totp.reset", "auth.policy.change",
                 "auth.recovery"}
  THEN {"webauthn"}
  ELSE {"webauthn", "totp"}
============================================================================
