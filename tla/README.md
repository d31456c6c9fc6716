# LexNova in TLA+

LexNova is a PHP application (Mezzio, Doctrine DBAL, Laminas) that publishes
legal documents and guards their administration with passwords, passkeys, TOTP
keys and enrollment tickets. This directory holds TLA+ models of its stateful
parts, TLC configurations that check them on small instances, and proofs of the
most important properties that TLAPS checks for every instance.

Paths below are relative to the repository; `PROJECT.json` maps every definition
that models code to the lines it stands for.

## 1. The system

Every request is handled by one PHP process. Nothing is shared between requests
but the database, the session files, the cache and a few files under `data/` and
`config/`. Two requests can therefore interleave between any two statements that
are not in one database transaction, and a process can die between any two.
A PHP session file is locked while a request of that session runs, so **one
browser has one request in flight**, and what the request changed in the session
is stored only when it ends normally.

| Part | State | Operations | Talks to |
|---|---|---|---|
| Activation and recovery (`Service/ActivationService`, `Handler/Auth/ActivationHandler`, `Handler/Admin/ActivationTicketIssueHandler`, `Console/UserActivationCreateCommand`) | `user_activation_tickets`, `users.activation_required`, the context in the PHP session | issue, verify, options, finish, complete | sessions, authenticators |
| Authentication sessions (`Service/AuthSessionService`, `Middleware/AdminAuthMiddleware`) | `user_sessions` | establish, isValid, revoke, revokeUser, revokeOtherSessions | every protected handler |
| Sign-in (`LoginHandler`, `TotpVerifyHandler`, `PasskeyLoginHandler`) | pending factor and challenge in the PHP session | password, second factor, passkey | limiter, sessions |
| Credentials (`PasskeyService`, `TotpService`, enrollment and deletion handlers) | `user_authenticators`, `users.mfa_required` | enroll, delete, reset | step-up, policy, sessions |
| Removal policy (`AuthenticationPolicyService`) | none | which authenticator may go, on whose word | reads users and authenticators |
| Step-up (`StepUpService`) | `step_up_pending`, `step_up_grant` in the PHP session | begin, finish, verify, consume | policy |
| Failure limiters (`RateLimitService`, `InstallRateLimitService`) | `rate_limit_buckets`; one file per address | isBlocked, recordFailure, recordSuccess | sign-in, activation, step-up; installer |
| Installer (`InstallHandler`, `Step/*`, `InstallService`) | `data/install.pw`, `data/install.run.lock`, `data/install.lock`, `config/config.toml`, a fresh database | unlock, configure | creates schema, first account and its ticket |
| Publishing (`DocumentService`, `EntityService`, `DocumentHandler`) | `legal_entities`, `legal_documents`, page cache and key index | page, create, update, delete | cache backend |
| System settings (`SystemSettingService`) | `system_settings` and a cache of it | bool, int, set, remove | credential limits, signal log |
| User administration (`User*Handler`, `Console/User*`) | `users` | create, update, delete, passwords, the rehash at sign-in | sessions, step-up |
| Pages with step-up (`frontend/src/pages/AccountSecurityPage`, `AdminUsersPage`, `AdminSecurityPage`, `TotpEnrollPage`, `lib/webauthn.ts`) | what the page was rendered with, the forms marked ready, disabled buttons, the ceremonies that wait | protectForm, confirmAndProtect, register, stepUp, registerPasskey | the JSON endpoints of step-up and enrollment |
| Sign-in and activation pages (`LoginPage`, `TotpVerifyPage`, `ActivationPage`, `lib/webauthn.ts`) | disabled buttons, the ceremonies that wait, the session slots behind them | passkeyLogin, activate, loginWithPasskey, activateWithPasskey, three forms | login, second factor and activation endpoints |
| Page shell (`App.svelte`, `lib/page-data.ts`) | which page a document shows, the data it was rendered with | mount | all pages |

The pages run in the browser. Their ceremonies await a request, a prompt and another
request, and everything else in that browser - other tabs of the same PHP session
included - goes on meanwhile.

The remaining parts (the other pages and translation, input filters, password hashing and
the breach query, TOTP arithmetic, audit trail, Fail2ban signal log,
prerequisites, wiring, listing commands) change no state that a decision reads,
or are arithmetic of libraries. `PROJECT.json` lists all of them with the reason.

### What makes each part correct

* **Activation, recovery, sessions.** An account that waits for activation or
  recovery has no live session, whatever was under way when its ticket was
  issued. It opens only by redeeming the one ticket that is open, once, with a
  new key; recovery leaves no older key.
* **Sign-in.** A second factor completes only a password sign-in of the same account
  in the same PHP session, within its time; a session that rests on a password alone
  opens nothing but the enrollment of a factor; redirects end at a page.
* **Credentials.** No sequence of removals, resets and switches leaves an open
  account without a way to sign in, and the last steps are confirmed by a key
  that stays.
* **Limiters.** An address is blocked when, and only when, its failures ask for
  it; requests already admitted exceed the limit by a known number; a success
  clears what was counted.
* **Installer.** Whatever dies and whatever overlaps, a configuration points at a
  database that one run filled completely, and a running installation is not
  replaced.
* **User administration.** An administrator is left; a password is what it was last
  set to; a session that rests on a replaced password ends with it.
* **Pages with step-up.** An operation is carried out only for the user, the action
  and the target an authenticator of that user was asked about, once per answer,
  whatever tabs and ceremonies share the session; a form asks for the purpose its
  handler demands; buttons are disabled exactly while a registration runs.
* **Sign-in and activation pages.** The browser takes on an identity only on what the
  owner of that account has just shown; a ticket enrolls only the passkey that was
  made for it.
* **Publishing.** A page that was replaced is forgotten after a known time, and at
  once where nothing interferes; a page is never shown as a document of another
  type.

### What is hard to test

`PROJECT.json` "hazards" lists these at their lines. In short:

* *Read, then write, in two statements:* the failure bucket, the credential
  limit, the path check before a DELETE, the purpose of a reissued ticket, the
  page cache and its index, the count of administrators.
* *Checked before, used after:* isBlocked before the password check, a grant given
  for three keys and used with two, factors verified before a recovery is
  started and a session established after it, a password verified before password
  login is switched off, `user_id` in a PHP session whose session row has ended.
* *Several sign-ins in one PHP session:* pending factors and challenges of two
  accounts replace each other, and forms are submitted late from the history.
* *Death between two steps:* complete() and the reply, establish() and the stored
  session id, the INSERT of a key and the UPDATE of `mfa_required`, the CLI reset
  and its revocations, and every step of the installer.
* *Awaits and tabs:* one slot per session for a challenge, a grant, a verified ticket,
  overwritten by another tab while a prompt waits; somebody else signs in to the same
  PHP session, which keeps its data; a reply that is lost after its request took
  effect, followed by a fallback or a second try; a form that stays marked as
  confirmed although its submission did not take place; data that a page was rendered
  with and that have changed since; a purpose computed in TypeScript and again in PHP.
* *Writes that overtake each other:* a password changed between the verification and
  the rehash of another; a password, the login switch and the end of the sessions in
  three statements.
* *Boundaries:* a block and a window that end in the same second, the credential
  limit in a recovery, counts minus one in the removal policy.

## 2. The modules

```
RecoveryContract   <- AccountRecovery    <- AccountRecoveryMC,    AccountRecoveryProofs
                      LoginFlow          <- LoginFlowMC,          LoginFlowProofs
RemovalPolicy      <- CredentialRemoval  <- CredentialRemovalMC,  CredentialRemovalProofs
FailureWindow      <- RateLimit          <- RateLimitMC,          PasswordProofs
                      Installer          <- InstallerMC,          InstallerProofs
                      DocumentPublishing <- DocumentPublishingMC, DocumentPublishingProofs
StepUpContract     <- StepUpPages        <- StepUpPagesMC,        StepUpPagesProofs
SignInContract     <- SignInPages        <- SignInPagesMC,        SignInPagesProofs
                      UserAdministration <- UserAdministrationMC, PasswordProofs
```

On the left is what a component promises, in the middle the component itself,
then its instance for TLC and its proofs; `PasswordProofs` holds those of two
components, the limiter and the accounts. Definitions whose comment calls them a
mutant or a mutation are plausible slips of the code; nothing uses them but the
check that the properties notice them.

Conventions: a database transaction that begins by updating the account row is
one action; any other statement that another request can come between is an
action of its own. Time is a set of events ("the ticket expires") where only the
order matters, and a clock where durations are compared. Random tokens, hashes,
ceremonies and codes are the event that they succeeded or failed. Every bound is
a constant whose comment says so.

### AccountRecovery and RecoveryContract

`AccountRecovery` has the tables `users` (`account`, `mfaRequired`), `tickets`,
`creds` and `sessions` with their AUTOINCREMENT counters, the stored session data
per `browser`, and per browser the `request` in flight: what it has read and how
far it has come. `Issue`, `Complete` and `Establish` are the three transactions
of the services under the row lock. Around them are the steps of the handlers:
`IssueBegin` reads the purpose and `IssueCommit` issues; `FinishBegin` resolves
the context, `FinishCommit` is `complete()`, then `RecoveryReply` or
`ActivationReply` end the request; sign-in and enrollment are split the same way.
`Crash` drops the request of any browser, `EstablishThenCrash` is the
death after the commit that leaves the hash of the old session id behind (the
UNIQUE column refuses the next `establish()` of that browser). Deletion cascades,
and does not rely on the administrator count its callers took earlier.

`RecoveryContract` says the same with four variables: a status, an offer, a set of
keys and a set of live sessions per account. `ContractHolds` is the refinement:
tickets, browsers and requests vanish, `offer` is the purpose of the open ticket.

Left out: the token and its hash, the WebAuthn ceremony, audit rows, roles (all
accounts are administrators), the limiter in front of the page (`RateLimit`).

### LoginFlow

One browser, its PHP session data (`browser`: `user_id`, `auth_setup_required`, the
pending second factor, the passkey challenge), the session row behind it (`row`), the
page it is being sent to (`at`) and the accounts, which others change meanwhile.
`PasswordVerified` is the lookup of `verifyCredentials`; `AskSecondFactor`,
`NoSecondFactor` and `SingleFactor` are what `LoginHandler` makes of the row it read,
`Establish` and `EstablishRefused` the transaction of `AuthSessionService` together
with the data stored afterwards. `AnswerLogin`, `AnswerVerify` and `AnswerAdmin` are
the redirects of the two pages and of `AdminAuthMiddleware`. A lock, a completed
recovery, a deletion, the switch of password login, a reset, an enrollment and a removal
elsewhere are one step each and end the sessions of the account in that step; their
details are in the other modules. `verified` and `off` remember when a
password was given and when password login was switched off. Forms can be submitted
whatever page is shown. Wrong passwords, codes and CSRF tokens only show a form again.
The two reads with which one request counts TOTP secrets and passkeys are one step.

### CredentialRemoval and RemovalPolicy

`RemovalPolicy` translates `AuthenticationPolicyService` query by query over the
set of authenticator rows of one account, inactive rows and TOTP rows that share
a secret included. What "a way to sign in" means (`SignInPossible`) is taken from
the login handlers, not from the policy.

`CredentialRemoval` is one account with its owner's browsers, another
administrator and the command line. Step-up stores a challenge and then a grant in
the session; a handler consumes a grant, decides, deletes or writes, and revokes
sessions. `Overlap` says whether two such requests may be in flight together,
`MayCrash` whether a process may die. A recovery, detailed in `AccountRecovery`,
is two atomic steps here.

### RateLimit and FailureWindow

`FailureWindow` says what a limiter promises over the list of failures since the
last success: a streak of `MaxAttempts`, each less than `BlockSeconds` after the
one before, blocks for `BlockSeconds` from the last. `RateLimit` is one address at
one endpoint with both implementations: the database limiter reads the bucket and
writes it in two steps (an INSERT meets the unique index, an UPDATE may meet no
row), the file limiter counts under `flock` but opens the file before, so that
`recordSuccess` may unlink it under an open handle. `mixed` is chosen once:
whether requests from the address may interleave. Where the database limiter loses
failures, `MayBlock` is what is left of the promise: some `MaxAttempts` failures since
the last success, each less than `BlockSeconds` after the one it was counted on. Two
histories follow an UPDATE past a success: `outdated` holds the requests whose row was
read before it, `revived` says that one of them has written it back.

### Installer

One action per effect of `ConfigureStep::handle`: the two looks at the config
file, the non-blocking run lock, the schema (first statement, rest), the
administrator, the ticket, the operator's rows, the config file (empty, then
full), `install.lock`, the answer. `Abort` is an exception or the end of the
process at any of these places. `RemoveConfig` is what the page tells the operator
to do when a config file exists and the installer is not locked; it is assumed to
be done when no run is under way.

### DocumentPublishing

A visitor's request misses, reads the row, stores it and adds its key to an index
kept in the same cache; an editor's request reads the row, writes it, reads the
index, drops the listed keys and drops the index. All are separate steps, and a
cache operation may throw at each (`DocumentService` swallows it). `calm` is
chosen once: whether requests overlap or fail. `Patience` is the longest a request
runs (`max_execution_time`); without such a limit no bound on staleness holds.
`ttl = 0` keeps entries for ever.

### StepUpPages and StepUpContract

One browser: `page`, `ready` and `sent` say per tab what it was rendered with, which
forms carry `data-step-up-ready="1"` and which form is being submitted; `run` holds the
calls of `protectForm` and `register` under way, each at one await of
`lib/webauthn.ts` (`step`). Behind them is the PHP session the tabs share - `user`,
`pending`, `grant`, `challenge` - and what the pages show of the accounts (`factors`,
`password`). A request has the session for itself, so its work is one action together
with its reply, which may be lost (`Reply`, `FidoReply`). `StepUpOptions`,
`StepUpFinish`, `VerifyTotp`, `RegisterOptions` and `RegisterFinish` are the JSON
endpoints, `Handle` is any handler of a confirmed form. `Asked` is the purpose the page
computes, `Demanded` the one the handler computes from what arrives; that the two are
separate definitions is the point. `MayStay` says where a submission may not take place
after the form was marked: a cancelled dialog or a field that was edited meanwhile and
does not validate. `SignIn` is another user in the same PHP session, which keeps its
data (`regenerate()`); `Expire` is any of the 120-second limits.

`StepUpContract` knows answers on their way, the one confirmation the session holds and
the operation that was just carried out. Answers are given one at a time (`Answer`) and
may get lost (`Lose`); only `Accept` turns one into the confirmation, and `Carry` uses it
up. `StepUpHolds` is the refinement.

Left out: the CSRF token (its middleware is a library; forms in tabs have a valid one),
which credential may go (`RemovalPolicy`), how the account signed in (`LoginFlow`).

### SignInPages and SignInContract

The pages in front: `Press` is `passkeyLogin` or `activate`, `run` the ceremony it
started, `sent` the password, code or ticket form. The session has one slot each for
the pending second factor (`waiting`), the login challenge, the verified ticket
(`context`) and the challenge of an activation (`enrolment`). `LoginOptions`,
`LoginFinish`, `ActivateOptions`, `ActivateFinish`, `Login`, `VerifyTotp` and
`VerifyTicket` are the handlers. `SignInContract` says which step may make a browser
somebody: what an owner shows is shown in one place - a prompt, or the form of a tab - and
is spent on arrival (`Arrives`), so nothing counts twice and nothing counts for a place
where nobody showed anything. `SignInHolds` is the refinement. What the tables do with tickets, sessions
and time is in `AccountRecovery` and `LoginFlow`.

### UserAdministration

The table `users` with what a password is (`pw`, and `old` when its hash is to be
written again), browsers with their session row and pending second factor, and the
command line. `VerifyPassword` reads and verifies, `Rehash` writes, `PasswordDone` is
the rest of `LoginHandler`. `Update` and `CliSetPassword` begin a change,
`WritePassword`, `WriteLogin` and `EndSessions` are its statements; `DeleteBegin`
counts the administrators, `DeleteCommit` deletes. `Crash` ends a process at any of
these places. `overlap` is chosen once: whether requests interleave. The histories
`meant`, `raced`, `late` and `broken` remember the password last given, whether a rehash of
another was on its way, whether a sign-in was under way when sessions were ended, and
whether a change broke off before it ended them, or took another change for its own.

## 3. The runs

No cfg replaces a definition. Deadlock is checked in the runs of `CredentialRemoval`,
`LoginFlow`, `StepUpPages` and `SignInPages`, where the actors can always go on; the other
models stop at their bounds, at a finished installation, or when nobody is allowed in any
more before the clock ends (in `UserAdministration` when overlapping deletions have left
nobody), and say so with `CHECK_DEADLOCK FALSE`.

| Run | Instance | Shows |
|---|---|---|
| `recovery` | 2 accounts, 1 browser, 2 tickets, 2 keys, 1 session | a locked account keeps no live session, at most one ticket is open and none outlives the lock, recovery leaves one key and the contract holds, in every order of sign-in, enrollment, issue, activation, deletion and crash |
| `recovery_stuck` | 1 account, limit 1, 2 tickets | **violation** `RecoveryCanEnroll` |
| `removal_serial` | owner, administrator, CLI; 3 rows, 2 secrets; no overlap, crashes | a way in always remains; another key confirms the last steps |
| `limiter_counting` | 3 requests, limit 3, block of 2, clock to 3, 6 failures since a success | blocks exactly; overrun bounded; never early, also after a success |
| `installer_setup` | 3 requests, 2 databases, 4 submissions | six properties of an installation |
| `publishing_pages` | 2 documents, 2 types, 2 visitors, 1 editor, ttl 0 or 1, clock to 2, 1 write | bound of staleness; published at once; never another type |
| `login_signin` | 1 browser, 2 accounts, 1 change by others; both time limits one tick | what a second factor rests on, how long a switched-off password counts, enrollment before the workspace, redirects settle |
| `login_loop` | 1 browser, 1 account, no change | **violation** `SentSomewhere` |
| `stepup_pages` | 2 accounts, each with no factor or both, 1 tab, 2 ceremonies, 4 screens; forms to enroll TOTP and to delete an account | an operation is one that was confirmed, once per answer; forms ask for what is demanded; another factor only on a confirmation; buttons |
| `stepup_own` | users page, 1 ceremony, the form that deletes a passkey | **violation** `EveryFormCanBeConfirmed` |
| `signin_pages` | 2 tabs, 2 ceremonies, an account in use and one with an open ticket | an identity only on what its owner has shown; tickets enroll their own; buttons |
| `admin_accounts` | 2 accounts (one with a passkey), 2 browsers, CLI, 2 passwords, 2 changes; overlapping or not | an administrator is left where requests do not overlap; a password is what it was last set to; which sessions outlive a password |

Why these bounds are enough for the questions asked:

* *Recovery.* A race is between a request that has read something and another one
  about the same account. One browser with a request in flight meets every step that
  needs no browser: issue by the command line, deletion, creation, expiry, the end of
  the process. The second account is the administrator who issues and deletes. Two
  tickets are a ticket and its successor, two keys an old one and the enrolled one;
  one session is the one that must not survive. What two browsers do to each other,
  and every larger instance, is covered by the theorems: they prove all five
  properties of this run for any number of each.
* *Sign-in.* Two accounts are needed for pending sign-ins that replace each other.
  One browser, because the browsers of a user share only the tables. Each property is
  about one change that meets a sign-in; initially the accounts are in every state
  that enrollment, activation and the switch can leave. Ages are told apart up to one
  tick beyond the limits.
* *Removal.* The rules differ at one, two and three authenticators; three rows and
  two secrets include two rows that share a secret. The policy itself is proved
  for every set of rows.
* *Limiter.* Three failures are the least number for which the first (inserted),
  a middle one and a blocking one differ. Block 2 and clock 3 contain a streak, its
  block, the second it ends in and a new streak. Three requests are two that overlap and
  one that succeeds or looks. The bound of `OverrunBounded` is then five, so there have
  to be six failures: a sixth is what a limiter that lets one more through would count
  (the mutant that forgets the block at the fourth failure does). The count a request has
  read is bounded as well, because an UPDATE can carry it past a success.
* *Installer.* Three submissions overlap and a fourth follows; two databases tell a
  rerun on the same one from a rerun elsewhere.
* *Publishing.* Two visitors lose an update of the index, one editor moves or
  deletes a document below them. One write is the change whose trace is followed:
  a page is stale relative to the last change of its row. The cache is warmed by the
  visitors, so it needs no write. A lifetime and a patience of one second make two the
  instant at which a page that changed at the beginning must be gone, and the clock goes
  that far: a reader that starts at the change can store the old page a second later, and
  an entry that lived a second longer would be found. Entries that never expire are looked
  at in a calm cache only, which is where `PublishedAtOnce` speaks about them
  (`DocumentPublishingMC`).
* *Step-up pages.* Two users of one session and two ceremonies are what can replace a
  challenge, a grant or an identity. A second tab adds no session slot: a tab that shows
  an old page is a tab whose page was rendered before a change, which one tab does, too.
  One form with the mark left behind and one that is gone after its dialog stand for the
  others; `AskedIsDemanded` looks at every form of every page whatever `Op` is, and the
  theorems hold for every form, tab and ceremony.
* *Sign-in pages.* Two tabs, because here the tabs' forms and buttons differ by page; the
  two accounts are the one that is signed in to and the one whose ticket is verified, and
  the first gets a recovery ticket on the way.
* *User administration.* A race is one change and one sign-in, or two changes; two
  changes are also a password and its successor, and the deletion of both accounts. The
  second browser is the one whose session has to end.

Every property of a passing run has a mutant of a mapped definition that breaks
it (`PROJECT.json` "mutants").

### Fairness

LexNova has no scheduler, queue or background process: what happens next is up to
people, and only two things happen by themselves. A request that was started ends,
with its answer or with the death of its process (`WF(RequestStep)`), and a browser
that was sent somewhere gets an answer and follows a redirect (`WF(Answer)`).
`LoginFlow` assumes just these; nobody has to submit a form, no time has to pass.
`Settles` and `SentSomewhere` are the liveness properties. The promise that stale
pages vanish depends on time and is stated as a bound (`StaleExpires`); the other
specifications state no fairness.

### What the violations say

1. **A recovery at the limit cannot be completed** (`recovery_stuck`). The keys that
   completing would delete are counted first, and the page that could remove one refers
   to the recovery ticket (`PasskeyDeleteHandler.php:78`).
2. **A browser whose session has ended is redirected for ever** (`login_loop`).
   `LoginHandler` sends a browser with a `user_id` to the dashboard
   (`LoginHandler.php:40`), the middleware rejects the ended session row and sends it
   back, and logout, which would clear the `user_id`, is behind the same middleware.
   `LoopIsClosed` proves that nothing but losing the cookie, or giving up on the redirects
   (which the model does not have), gets the browser out.
3. **The users page cannot confirm changes to one's own credentials** (`stepup_own`). Its
   forms ask for `auth.recovery` (`AdminUsersPage.svelte:95`), also where the credentials
   are the administrator's own; there the handlers demand the self-service action and
   answer a confirmation that was just given with "Verify with your own authenticator
   before changing credentials." `AskedIsDemanded` shows that these are the only forms, and
   the theorem `OwnFormsNeverAgree` that it happens to them in every state. One consequence
   is proved as well (`SelfResetNeverConfirmed`): no page asks for `auth.totp.reset`, so the
   self-service branch of `TotpResetHandler.php` is never confirmed.

### Known divergences

The models also have the following behaviours, which a document or a message of the code
does not expect. The properties of the passing runs are stated so that they allow exactly
these, each at the place named.

* *A reissue can turn a recovery into an activation.* `ActivationTicketIssueHandler:56`
  chooses the purpose before the transaction of `issue()`. If a recovery starts in between,
  its ticket is replaced by an activation ticket, which keeps every old authenticator
  (`ActivationService.php:104` says the intent of a pending flow is kept). In
  `AccountRecovery`, `IssueBegin` and `IssueCommit` are two steps; the contract allows either
  purpose in an `Offer` to an account that waits already.
* *The last two passkeys can be removed at the same time*, each by a request that counts on
  the other (`README.md:358`, "Protection against deleting the final passkey of a
  passkey-only account"). `PathKept` and the run `removal_serial` assume `Overlap = FALSE`.
* *A dead process leaves a passkey without `mfa_required`*, so the password alone still
  signs in (`docs/SECURITY_BASELINE.md:15`). `CredentialRemoval` inserts the row and sets
  the flag in two steps and may crash in between.
* *Overlapping failures are lost* in the database limiter (`RateLimitService.php:14`).
  `BlockedExactly` and `OverrunBounded` are about the file limiter and about database
  requests that do not overlap (`Isolated`); `NeverEarly` is about all of them. The file
  limiter loses a failure too, when it is counted in a file that a success has unlinked
  meanwhile: the request was under way before the success, and `failures` leaves it out.
* *A success can be undone* in the database limiter (`RateLimitService.php:15`, "A successful
  login/verification clears the counter"). A request reads the row at two failures, another
  one succeeds and deletes it, a third one fails and inserts it anew: the first one's UPDATE
  writes three and blocks, on two failures since the success. `NeverEarly` names it
  `revived`, which lasts until the next success or until a failure that read no such row is
  written over it; without it TLC finds this very behaviour.
* *Two administrators can delete each other*: `UserDeleteHandler.php:45` counts, and deletes
  statements later ("The last administrator account cannot be deleted.",
  `UserDeleteCommand.php:71`). `AdministratorRemains` is about requests that do not
  overlap.
* *A rehash can bring the old password back*: `UserService.php:100-103` writes the hash of
  the password it verified, whatever was stored meanwhile ("Password for '{$username}' has
  been updated.", `UserSetPasswordCommand.php:105`). `ChangeSticks` names it `raced`.
* *A sign-in under way outlives a password change* (`docs/SECURITY_BASELINE.md:36` says the
  change revokes the sessions there are): its session begins after the revocation and
  rests on the old password. So does one whose revocation a dead process did not reach.
  `OldPasswordEnds` names them `late` and `broken`. Where requests do not overlap, `late`
  excuses only an account with a second factor, whose sign-in waits between two requests.

Behaviour the models contain and no document speaks about: with a limit of one the
database limiter blocks after the second failure and the file limiter after the
first (`BlocksExactly` therefore assumes a limit of at least two); after a run that
died behind the schema, removing `config.toml` is not enough to install again into
the same database; the ticket of a passkey-only first administrator is only in one
response; the key index can expire before the entries it lists, so that a change
leaves a page cached for the rest of its lifetime although nothing overlapped; two
browsers that both count their passkeys before either inserts exceed the credential
limit; a password sign-in that overlaps the enrollment of the first factor gets its
single-factor session, which the revocation after the enrollment ends only if it comes
later; a passkey sign-in keeps the `auth_setup_required` of another account that was
signed in before in the same PHP session; a
self-service enrollment that passed its checks may add its key to an account that
was recovered meanwhile.

## 4. The proofs

TLAPS checks eight modules, for every value of the constants that satisfies the
named assumptions (bounds are natural numbers, the absent value is no value).

**AccountRecoveryProofs.** `Invariance` proves `[]IInv`. The two safety invariants
are not inductive alone; what has to be added is that a request in flight names an
account that exists as an id, that rows above the AUTOINCREMENT counters are blank
(so that an insert hits no row that counts), and that a live session belongs to an
open account. The core of the argument is two transactions on one row:
`issue()` marks the account pending and revokes its sessions, `establish()` inserts
only if the account, read under the same row lock, is active. Hence `LockedOut`
(`PendingHasNoLiveSession`). `OneShotTickets` follows from `issue()` revoking
before it inserts and `complete()` consuming the ticket it checked, `NoTicketLeft`
(`OpenTicketMeansPending`) from the lock and the ticket changing in one transaction.
`TypeCorrect` is the type invariant. The last part is the refinement: `Implements` proves that `AccountRecovery` implements
`RecoveryContract` (`ContractHolds`) under the mapping above, with `IInv` as the
invariant. `OfferTo` chooses the open ticket of an account; that the choice is the
ticket a request holds is where `OneOpenTicket` is needed (`OfferIsTicket`). There is
one lemma per action of the contract, stating what the tables must do for the mapped
step, and then one per action of the code: issue and reissue are `Offer`, `complete()`
is `Redeem`, an inserted key is `Enroll`, `establish()` is `SignIn`, every revocation
is `End`, and all reads, checks, replies and crashes are stutters. So a promise of
recovery that is shown for the contract holds for the interleaved code.

**CredentialRemovalProofs.** `PathRemains` is about the policy: for every account
and finite set of rows, if the *counting* check accepts, the *rows that remain* let
the account sign in. `PathKept` lifts it to the specification when requests do not
overlap: the invariant says that at most one request is in flight and that the
statement it is about to execute leaves a path (`LeavesPath`), which is where the
proof would fail for overlapping requests. `AnotherKeyIsAsked` (`AnotherKeyConfirms`)
adds what a request that is about to delete has established (`Judged`): the step that
follows is judged by the rows and the key it was judged by before (`ProofsAreWorth`).
`RemovalTypeCorrect` needs no such assumption.

**PasswordProofs**, first part: the limiter. `BlockNeverEarly` holds for every interleaving of both
limiters: a bucket, stored or read, is founded on a chain of failures since the last
success, as many as it counts and each within `BlockSeconds` of the one before
(`Founded`). A new failure leaves a chain as it is (`FoundedKept`) or is appended to the one
of the row that was read (`CountedFounded`), whatever was written in between; only a row
read before a success has none, and `outdated` and `revived` follow it (`AllFounded`).
`BlocksExactly` shows that three numbers represent the list: `attempts` is the
length of the longest streak that ends the list (`StreakGrows`, `CountsExactly`),
and a block stands exactly on the last failure. The assumption that database
requests do not overlap enters through `Serial`: the row a request has read is
the row still. `OverrunIsBounded` needs to count: while the address is blocked nobody is
let in, so what was counted plus the requests still under way only goes down, and it is
at most the limit plus the other requests when the block begins (`Overrun`).

Second part: the accounts. The two parts are in one module because they are the two
questions `LoginHandler` asks between a password and a session; neither uses the other.
`AccountsInvariance` proves `[]AccountsInv`, whose four parts need each other from top to
bottom:

* `Named`: a request under way and a sign-in that waits name an account that was created.
  An id is never given twice, so a rehash or a revocation cannot reach a later account.
* `OneByOne`: where requests do not overlap, one is in flight, and beside an account that
  is about to be deleted there is another. `AdministratorRemains` says only that somebody is
  left, which the `DELETE` would not keep; that two were counted has to be remembered from
  the count to the `DELETE` (`AdministratorStays`), and nothing but another request can
  make it untrue in between. For overlapping requests this is where the proof would fail.
* `Meant`: a password that is not the one meant is one of an account that raced, and a
  rehash under way is of the account's own password, or its account raced
  (`PasswordSticks`). `WritePassword` is the step that counts: it notices every rehash of
  the account under way, and clears `raced` when there is none.
* `Rested`: not only the sessions, but what becomes one - a waiting sign-in, and a request
  that has verified a password - rests on the account's password or on a window `RestsOn`
  names (`OldPasswordsEnd`). A change opens a window of its own (`Ending`) with its first
  statement. It closes it with `EndSessions`, which ends every session of the account and
  marks every sign-in under way as `late`, or by dying, which the history `broken` keeps.
  One lemma (`RestedKept`) carries a claim through a step that leaves passwords and
  windows alone (`Steady`), so only the four statements that write are looked at in detail.

That the windows are per account is what the theorem adds to the run: no change, crash or
race of one account excuses a session of another, whatever the number of accounts.

**InstallerProofs.** The invariant ties the place of the run lock's holder to what
it has written (`RowsSoFar`, `ConfigSoFar`); everybody else is idle, so each step is
judged alone (`HolderGoesOn`, `Fills`). Before the config file exists nothing
points at the rows, and once it exists no row changes: the second look under the
lock and the refusal of a second `CREATE TABLE` carry `WholeInstallation`,
`LockedOverWhole`, `RowsOfOneRun`, `TicketOfTheServing` and the action property
`ConfigurationKept`.

**DocumentPublishingProofs.** `NoOtherType` needs only that a page in flight or in the
cache has the type it was fetched under (`TypesAgree`). `StaleIsForgotten` is the bound:
a request that read before the last change is no older than `Patience` (`Punctual`), so
what it stores was fetched in time (`FetchedInTime`) and expires in time (`StaleBound`),
and nothing that has expired is still there.
`ChangesArePublished` is the harder one, for requests that do not overlap and entries that
do not expire: nobody is inside the service beside the one that works (`Alone`), every
entry is fresh or about to be dropped (`FreshOrPending`), every entry is listed or about
to be (`Listed`), and the list of an editor at work is still the one in the cache
(`Undisturbed`).

**LoginFlowProofs.** `PasswordBeforeFactor` ties the age of the pending sign-in to the
history `verified` (`PasswordGiven`), `SwitchingOffHolds` whoever holds or is about to get
a session on a password to `off` (`WasOn`), and `FactorBeforeWorkspace` a password-only
sign-in without `auth_setup_required` to an account that has a key (`HasKey`). Each is the invariant of a
request at each of its steps, and one lemma per group of actions. `RedirectsEnd` is the
part of `Settles` that needs no fairness: each answer lowers the number of redirects left
(`RedirectsLeft`, at most four) unless the session has ended, and no change of an account,
no expiry and no other request raises it, because a browser that is being redirected has
none (`NothingRead`). That the answers come is what fairness adds and TLC checks.

**StepUpPagesProofs** and **SignInPagesProofs.** The refinement needs more than types:
the session holds at most one challenge and one grant (`OneEach`), and a challenge whose
ceremony still waits is the one of that ceremony, for the account that was asked
(`CeremoniesBound`). An answer to any other challenge fails; that is where overwritten
slots, changed users and lost replies are covered. `AddedOnConfirmation` and `OwnTickets`
are action properties that follow from the same invariant. `PurposesAgree` goes through
every form of every page, `OwnFormsNeverAgree` through the three it leaves out.
`SelfResetNeverConfirmed` follows a purpose from the page that asks to the handler that is
confirmed: no ceremony, challenge or grant is ever for another (`NothingElseConfirmed`).
`BusyExactly` has an invariant of its own, that a registration
or ceremony under way has its tab's buttons disabled.

Every invariant and every action property of the passing runs is stated by a theorem. Only
model-checked is liveness (`Settles`, apart from `RedirectsEnd`).
Out of the prover's reach and not attempted: liveness under fairness, ENABLED, and
induction over recursive definitions (there are none).

## 5. Not modelled

`PROJECT.json` "components" gives the reason part by part. The larger gaps:

* *The settings cache.* A request that read an old value may store it in the cache after an
  administrator has written a new one, where it stays for the rest of its lifetime
  (`SystemSettingService.php:60`); the two limits of `AuthLimitSettingHandler.php:51` are
  saved in two transactions. Both have the shape of `DocumentPublishing` and are next in
  the plan.
* *The slot `totp_enrolling_secret`*, which a second tab overwrites: the code of the older
  QR code then no longer matches. `StepUpPages` has the form, not the secret.
* *Plain pages* (`WorkspacePage`, `InstallPage`): forms without a script that keeps state.
  What they submit is in `DocumentPublishing` and `Installer`.
* *External:* database, PHP sessions, CSRF middleware, WebAuthn and TOTP libraries, the
  cache adapters.

## 6. Plan

Done: activation, recovery and sessions with their refinement, sign-in, credentials with
their policy, limiters, installer, publishing, the pages with step-up and the sign-in pages
with their refinements, user administration; a theorem for every safety property of the
passing runs.

Next, in this order:

1. *SettingsCache.* `SystemSettingService` with a refill that races an
   invalidation, the failing cache, and the two limits saved one after the other;
   properties: bound of staleness, and that a value that was never stored is never
   in force.
2. *Enrollment.* The secret a TOTP enrollment keeps in the session, and the QR code of
   another tab.
