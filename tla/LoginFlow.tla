------------------------------ MODULE LoginFlow ------------------------------
(***************************************************************************)
(* Signing in to LexNova from one browser: the password form, the second   *)
(* factor that waits in the PHP session, the passkey challenge, the pages  *)
(* the browser is sent to, and the accounts while others change them       *)
(* (LoginHandler, TotpVerifyHandler, PasskeyLoginHandler,                  *)
(* AdminAuthMiddleware, LogoutHandler).                                    *)
(*                                                                         *)
(* The PHP session file is locked for a whole request, so the browser has  *)
(* one request in flight, and its session data is stored when the request  *)
(* ends; but an account row that was read may change before the session    *)
(* row is inserted.  Forms of any page may be submitted from the history.  *)
(* Wrong passwords, codes and CSRF tokens only show a form again and are   *)
(* left out here; module RateLimit counts them.                            *)
(***************************************************************************)
EXTENDS Naturals

CONSTANTS
  User,           \* account ids
  None,           \* the absent value
  PendingTime,    \* the 300 s a second factor may take, in ticks
  ChallengeTime,  \* the 120 s a passkey challenge is good for, in ticks
  Old,            \* bound: ages from here on are not told apart
  MaxChange       \* bound: changes that others make to the accounts

ASSUME NoneIsNoUser == None \notin User
ASSUME TimesAreNatural ==
  PendingTime \in Nat /\ ChallengeTime \in Nat /\ Old \in Nat /\ MaxChange \in Nat
ASSUME OldIsTooOld == Old > PendingTime /\ Old > ChallengeTime

VARIABLES
  account,   \* users and the kinds of their authenticators
  browser,   \* PHP session data
  row,       \* the user_sessions row of auth_session_id
  request,   \* what the request in flight has read
  at,        \* the path the browser is being sent to, or "page": it shows one
  verified,  \* history: ticks since this PHP session verified the password
  off,       \* history: ticks since password_login_enabled became false
  changes    \* changes made so far

vars == <<account, browser, row, request, at, verified, off, changes>>

---------------------------------------------------------------------------
(* Types *)

Kind == {"webauthn", "totp"}
Account == [state: {"open", "locked", "gone"}, pw: BOOLEAN, mfa: BOOLEAN, keys: SUBSET Kind]

\* Ticks since a moment; Never if there was no such moment.
Never == Old + 1
Age == 0..Never
Older(a) == IF a < Old THEN a + 1 ELSE a

\* user, setup: user_id and auth_setup_required.  pending, since:
\* totp_pending_user_id and totp_pending_created_at.  passkey: passkey_login.
NoChallenge == [user |-> None, mode |-> "primary", age |-> Never]
Anonymous == [user |-> None, setup |-> FALSE, pending |-> None, since |-> Never,
              passkey |-> NoChallenge]
Browser == [user: User \cup {None}, setup: BOOLEAN, pending: User \cup {None}, since: Age,
            passkey: [user: User \cup {None}, mode: {"primary", "mfa"}, age: Age]]

\* live: isValid still accepts the row; single: its auth_strength
NoRow == [live |-> FALSE, single |-> FALSE]

Idle == [op |-> "idle", user |-> None, mfa |-> FALSE, setup |-> FALSE]
Request == [op: {"idle", "password", "single", "totp", "primary", "mfa"},
            user: User \cup {None}, mfa: BOOLEAN, setup: BOOLEAN]

Path == {"login", "verify", "workspace", "security"}

TypeOK ==
  /\ account \in [User -> Account]
  /\ browser \in Browser
  /\ (browser.pending = None) <=> (browser.since = Never)
  /\ row \in [live: BOOLEAN, single: BOOLEAN]
  /\ row.live => browser.user # None
  /\ request \in Request
  /\ at \in Path \cup {"page"}
  /\ verified \in [User -> Age]
  /\ off \in [User -> Age]
  /\ changes \in 0..MaxChange

---------------------------------------------------------------------------
(* Initial states: accounts as they are after creation, after the enrollment
   of a factor, with the password switched off, and waiting for activation. *)

Fresh == [state |-> "open", pw |-> TRUE, mfa |-> FALSE, keys |-> {}]
WithTotp == [state |-> "open", pw |-> TRUE, mfa |-> TRUE, keys |-> {"totp"}]
WithBoth == [state |-> "open", pw |-> TRUE, mfa |-> TRUE, keys |-> Kind]
PasskeyOnly == [state |-> "open", pw |-> FALSE, mfa |-> TRUE, keys |-> {"webauthn"}]
Inactive == [state |-> "locked", pw |-> FALSE, mfa |-> FALSE, keys |-> {}]

Init ==
  /\ account \in [User -> {Fresh, WithTotp, WithBoth, PasskeyOnly, Inactive}]
  /\ browser = Anonymous
  /\ row = NoRow
  /\ request = Idle
  /\ at = "page"
  /\ verified = [u \in User |-> Never]
  /\ off = [u \in User |-> IF account[u].pw THEN Never ELSE Old]
  /\ changes = 0

---------------------------------------------------------------------------
(* Mutations: slips in the code that the properties below must notice. *)

\* the time of a pending sign-in is left behind, or not looked at
WithoutPendingUser(b) == [b EXCEPT !.pending = None]
PendingAtAnyTime == browser.pending # None

\* the password is verified without a look at password_login_enabled
AnyPassword(u) == account[u].state = "open"

\* setup is asked for only by accounts with some key; it opens no page
SetupForSome(u) == account[u].keys # {}
NoPages == {}

---------------------------------------------------------------------------
(* Queries *)

Open(u) == account[u].state = "open"

\* AuthSessionService::isValid
SignedIn == browser.user # None /\ row.live

\* UserService::verifyCredentials, given the right password
MayUsePassword(u) == Open(u) /\ account[u].pw

\* the time limit of TotpVerifyHandler and PasskeyLoginHandler; without a
\* pending sign-in the missing time counts as 1970
PendingInTime == browser.pending # None /\ browser.since <= PendingTime

WithoutPending(b) == [b EXCEPT !.pending = None, !.since = Never]

\* AdminAuthMiddleware's list, as far as these pages are concerned
SetupPages == {"security"}

\* LoginHandler asks for the enrollment of a strong factor.
SetupRequired(u) == account[u].keys = {}

---------------------------------------------------------------------------
(* Pages *)

\* The user enters an address or follows a link; Cancel on the second-factor
\* page leads to the form with the pending sign-in kept.
Visit(path) ==
  /\ at = "page"
  /\ request = Idle
  /\ at' = path
  /\ UNCHANGED <<account, browser, row, request, verified, off, changes>>

\* LoginHandler: a browser with a user_id goes to the workspace.
AnswerLogin ==
  /\ at = "login"
  /\ at' = IF browser.user # None THEN "workspace" ELSE "page"
  /\ UNCHANGED <<account, browser, row, request, verified, off, changes>>

\* TotpVerifyHandler: what it checks before the form or the code.
AnswerVerify ==
  /\ at = "verify"
  /\ IF PendingInTime /\ Open(browser.pending)
     THEN at' = "page" /\ UNCHANGED browser
     ELSE at' = "login" /\ browser' = WithoutPending(browser)
  /\ UNCHANGED <<account, row, request, verified, off, changes>>

\* AdminAuthMiddleware in front of the dashboard pages
AnswerAdmin ==
  /\ at \in {"workspace", "security"}
  /\ at' = IF SignedIn
           THEN IF browser.setup /\ at \notin SetupPages THEN "security" ELSE "page"
           ELSE IF browser.pending # None THEN "verify" ELSE "login"
  /\ UNCHANGED <<account, browser, row, request, verified, off, changes>>

Answer == AnswerLogin \/ AnswerVerify \/ AnswerAdmin

---------------------------------------------------------------------------
(* Password and second factor *)

Start(op, u) ==
  request' = [op |-> op, user |-> u, mfa |-> account[u].mfa, setup |-> FALSE]

\* LoginHandler and UserService::verifyCredentials: the password is right.
PasswordVerified(u) ==
  /\ at = "page"
  /\ request = Idle
  /\ browser.user = None
  /\ MayUsePassword(u)
  /\ Start("password", u)
  /\ verified' = [verified EXCEPT ![u] = 0]
  /\ UNCHANGED <<account, browser, row, at, off, changes>>

\* The row read asks for a second factor, and the account has one ...
AskSecondFactor ==
  /\ request.op = "password"
  /\ request.mfa
  /\ account[request.user].keys # {}
  /\ browser' = [browser EXCEPT !.pending = request.user, !.since = 0]
  /\ at' = "verify"
  /\ request' = Idle
  /\ UNCHANGED <<account, row, verified, off, changes>>

\* ... or has none: the form again, with an error.
NoSecondFactor ==
  /\ request.op = "password"
  /\ request.mfa
  /\ account[request.user].keys = {}
  /\ request' = Idle
  /\ UNCHANGED <<account, browser, row, at, verified, off, changes>>

\* The password is enough; the factors are counted before the session starts.
SingleFactor ==
  /\ request.op = "password"
  /\ ~request.mfa
  /\ request' = [request EXCEPT !.op = "single", !.setup = SetupRequired(request.user)]
  /\ UNCHANGED <<account, browser, row, at, verified, off, changes>>

\* TotpVerifyHandler: the code matches an active key.
TotpVerified ==
  /\ at = "page"
  /\ request = Idle
  /\ PendingInTime
  /\ Open(browser.pending)
  /\ "totp" \in account[browser.pending].keys
  /\ Start("totp", browser.pending)
  /\ UNCHANGED <<account, browser, row, at, verified, off, changes>>

---------------------------------------------------------------------------
(* Passkey *)

\* mode "mfa" is for the pending sign-in, mode "primary" for the name entered.
ChallengeUser(mode, u) == IF mode = "mfa" THEN browser.pending ELSE u

\* PasskeyLoginHandler, options
PasskeyOptions(mode, u) ==
  LET v == ChallengeUser(mode, u) IN
    /\ at = "page"
    /\ request = Idle
    /\ IF mode = "mfa" /\ ~PendingInTime
       THEN browser' = WithoutPending(browser)
       ELSE /\ Open(v)
            /\ "webauthn" \in account[v].keys
            /\ browser' = [browser EXCEPT !.passkey = [user |-> v, mode |-> mode, age |-> 0]]
    /\ UNCHANGED <<account, row, request, at, verified, off, changes>>

Spent == [browser EXCEPT !.passkey = NoChallenge]

ChallengeInTime == browser.passkey.user # None /\ browser.passkey.age <= ChallengeTime

\* ... finish: what it refuses before it looks at the assertion
PasskeyRefused ==
  LET c == browser.passkey IN
    /\ at = "page"
    /\ request = Idle
    /\ c.user # None
    /\ browser' = IF /\ ChallengeInTime
                     /\ (c.mode = "mfa" /\ ~PendingInTime) \/ ~Open(c.user)
                  THEN WithoutPending(Spent) ELSE Spent
    /\ ~ChallengeInTime \/ (c.mode = "mfa" /\ ~PendingInTime) \/ "webauthn" \notin account[c.user].keys
         \/ ~Open(c.user)
    /\ UNCHANGED <<account, row, request, at, verified, off, changes>>

\* ... finish: a passkey of the account has signed the challenge
PasskeyVerified ==
  LET c == browser.passkey IN
    /\ at = "page"
    /\ request = Idle
    /\ ChallengeInTime
    /\ c.mode = "mfa" => PendingInTime
    /\ Open(c.user)
    /\ "webauthn" \in account[c.user].keys
    /\ Start(c.mode, c.user)
    /\ UNCHANGED <<account, browser, row, at, verified, off, changes>>

---------------------------------------------------------------------------
(* The session *)

WithPasskey == request.op \in {"primary", "mfa"}

\* AuthSessionService::establish under the lock of the account row, and the
\* session data stored with the response.  A sign-in with the password alone
\* leaves a pending one; a passkey leaves auth_setup_required as it was.
SessionData(b) ==
  LET signedIn == [b EXCEPT !.user = request.user] IN
    CASE request.op = "single" -> [signedIn EXCEPT !.setup = request.setup]
      [] request.op = "totp" -> [WithoutPending(signedIn) EXCEPT !.setup = FALSE]
      [] WithPasskey -> [WithoutPending(signedIn) EXCEPT !.passkey = NoChallenge]

Establish ==
  /\ request.op \in {"single", "totp"} \/ WithPasskey
  /\ Open(request.user)
  /\ browser' = SessionData(browser)
  /\ row' = [live |-> TRUE, single |-> request.op = "single"]
  /\ at' = "workspace"
  /\ request' = Idle
  /\ UNCHANGED <<account, verified, off, changes>>

\* establish() throws for a locked or deleted account.  Only PasskeyLoginHandler
\* catches it and stores its session data, with the pending sign-in dropped or,
\* if its own look at the account failed already, kept.
EstablishRefused ==
  /\ request.op \in {"single", "totp"} \/ WithPasskey
  /\ ~Open(request.user)
  /\ IF WithPasskey THEN browser' \in {Spent, WithoutPending(Spent)} ELSE UNCHANGED browser
  /\ request' = Idle
  /\ UNCHANGED <<account, row, at, verified, off, changes>>

\* The process dies, and what it changed in the session data is lost.
Crash ==
  /\ request # Idle
  /\ request' = Idle
  /\ UNCHANGED <<account, browser, row, at, verified, off, changes>>

\* The cookie is gone: the browser was closed, or the session file was collected.
Forget ==
  /\ browser' = Anonymous
  /\ row' = NoRow
  /\ verified' = [u \in User |-> Never]

\* LogoutHandler behind AdminAuthMiddleware
Logout ==
  /\ at = "page"
  /\ request = Idle
  /\ SignedIn
  /\ Forget
  /\ at' = "login"
  /\ UNCHANGED <<account, request, off, changes>>

CloseBrowser ==
  /\ at = "page"
  /\ request = Idle
  /\ browser # Anonymous
  /\ Forget
  /\ UNCHANGED <<account, request, at, off, changes>>

\* PasskeyRegisterHandler and TotpEnrollHandler, the step-up passed
Enroll(kind) ==
  /\ at = "page"
  /\ request = Idle
  /\ SignedIn
  /\ account' = [account EXCEPT ![browser.user].keys = @ \cup {kind},
                                ![browser.user].mfa = TRUE]
  /\ browser' = [browser EXCEPT !.setup = FALSE]
  /\ UNCHANGED <<row, request, at, verified, off, changes>>

---------------------------------------------------------------------------
(* Others, and time *)

\* An account is changed elsewhere and its sessions end.
Change(u, changed) ==
  /\ changes < MaxChange
  /\ changes' = changes + 1
  /\ account' = [account EXCEPT ![u] = changed]
  /\ row' = [row EXCEPT !.live = @ /\ browser.user # u]
  /\ off' = [off EXCEPT ![u] = IF changed.pw THEN Never ELSE IF account[u].pw THEN 0 ELSE @]
  /\ UNCHANGED <<browser, request, at, verified>>

\* A recovery ticket is issued, ...
Lock(u) ==
  /\ account[u].state # "gone"
  /\ Change(u, [account[u] EXCEPT !.state = "locked"])

\* ... and completed with a new passkey, the only one; or a first activation is.
Complete(u) ==
  /\ account[u].state = "locked"
  /\ Change(u, [account[u] EXCEPT !.state = "open", !.mfa = TRUE, !.keys = {"webauthn"}])

\* UserService::delete; the authenticators go with the account.
Delete(u) ==
  /\ account[u].state # "gone"
  /\ Change(u, [account[u] EXCEPT !.state = "gone", !.keys = {}])

\* UserUpdateHandler switches the password on, or off next to a passkey.
SwitchPassword(u) ==
  /\ account[u].state # "gone"
  /\ account[u].pw => "webauthn" \in account[u].keys
  /\ Change(u, [account[u] EXCEPT !.pw = ~@])

\* The user enrolls a factor in another browser.
EnrollElsewhere(u, kind) ==
  /\ Open(u)
  /\ Change(u, [account[u] EXCEPT !.keys = @ \cup {kind}, !.mfa = TRUE])

\* The last key of a kind is removed, and a way to sign in remains.
RemoveKeys(u, kind) ==
  LET left == account[u].keys \ {kind} IN
    /\ Open(u)
    /\ left # account[u].keys
    /\ "webauthn" \in left \/ (account[u].pw /\ left # {})
    /\ Change(u, [account[u] EXCEPT !.keys = left])

\* user:totp-reset for an account without a passkey locks it with a ticket.
ResetTotp(u) ==
  /\ account[u].state # "gone"
  /\ account[u].keys = {"totp"}
  /\ Change(u, [account[u] EXCEPT !.state = "locked", !.keys = {}])

\* The session is idle or old enough, or all sessions of the account are revoked.
SessionEnds ==
  /\ row.live
  /\ row' = [row EXCEPT !.live = FALSE]
  /\ UNCHANGED <<account, browser, request, at, verified, off, changes>>

\* Minutes pass; a request takes far less.
Tick ==
  /\ request = Idle
  /\ browser' = [browser EXCEPT !.since = Older(@), !.passkey.age = Older(@)]
  /\ verified' = [u \in User |-> Older(verified[u])]
  /\ off' = [u \in User |-> Older(off[u])]
  /\ UNCHANGED <<account, row, request, at, changes>>

---------------------------------------------------------------------------

SignInStep ==
  \/ \E u \in User : PasswordVerified(u)
  \/ TotpVerified
  \/ \E mode \in {"primary", "mfa"}, u \in User : PasskeyOptions(mode, u)
  \/ PasskeyRefused
  \/ PasskeyVerified
  \/ Logout
  \/ \E kind \in Kind : Enroll(kind)

RequestStep ==
  \/ AskSecondFactor
  \/ NoSecondFactor
  \/ SingleFactor
  \/ Establish
  \/ EstablishRefused
  \/ Crash

Elsewhere ==
  \E u \in User :
    \/ Lock(u)
    \/ Complete(u)
    \/ Delete(u)
    \/ SwitchPassword(u)
    \/ ResetTotp(u)
    \/ \E kind \in Kind : EnrollElsewhere(u, kind) \/ RemoveKeys(u, kind)

Next ==
  \/ \E path \in Path : Visit(path)
  \/ Answer
  \/ SignInStep
  \/ RequestStep
  \/ Elsewhere
  \/ CloseBrowser
  \/ SessionEnds
  \/ Tick

\* A browser follows a redirect by itself and gets an answer; a request ends.
Spec == Init /\ [][Next]_vars /\ WF_vars(Answer) /\ WF_vars(RequestStep)

---------------------------------------------------------------------------
(* Properties *)

\* Whoever passes the second factor of a password sign-in has given this
\* account's password in the same PHP session, for TOTP within the time allowed,
\* whatever other accounts tried to sign in in between.
PasswordCameFirst ==
  [][/\ request'.op = "totp" /\ request.op # "totp" =>
          verified[request'.user] <= PendingTime
     /\ request'.op = "mfa" /\ request.op # "mfa" =>
          verified[request'.user] # Never]_vars

\* TotpVerifyHandler does not read password_login_enabled again, but a sign-in
\* with the password and a code survives switching the password off no longer
\* than the time its second factor may take.
OffTakesHold ==
  [][request'.op = "totp" /\ request.op # "totp" =>
       account[request'.user].pw \/ off[request'.user] <= PendingTime]_vars

\* docs/SECURITY_BASELINE.md demands a strong factor of every administrator: a
\* session that rests on the password alone does not reach the workspace before
\* the account has one, also when factors are enrolled or removed meanwhile.
EnrolledBeforeWorkspace ==
  [][at = "workspace" /\ at' = "page" /\ row.single => account[browser.user].keys # {}]_vars

Stale == browser.user # None /\ ~row.live

\* Redirects between the form, the second factor, the security page and the
\* workspace end at a page, unless the browser holds the user_id of a session
\* that has ended.
Settles == at # "page" ~> at = "page" \/ Stale

\* LoginHandler: "Already logged in -> go to dashboard".  A browser that the
\* form sends to the dashboard gets there, or to another page.  user_id stays in
\* the session data when the session row has ended, so the form sends the
\* browser to a dashboard that sends it back.
SentSomewhere == at # "page" ~> at = "page"
==============================================================================
