----------------------------- MODULE StepUpPages -----------------------------
(***************************************************************************)
(* The pages of one browser that is signed in to LexNova, open in several  *)
(* tabs, and the PHP session the tabs share: the forms and buttons of the  *)
(* account, users, security and TOTP pages, the ceremonies of              *)
(* lib/webauthn.ts they start, and the session slots StepUpService and     *)
(* PasskeyRegisterHandler keep for them.                                   *)
(*                                                                         *)
(* A ceremony awaits a request, then a prompt, then another request, and   *)
(* anything else in the browser may happen in between.  Only one request   *)
(* at a time has the session, so the work of a request is one step; its    *)
(* reply may get lost.  Prompts may be refused, and people edit, submit    *)
(* twice, reload and leave at any time.                                    *)
(*                                                                         *)
(* Which credential may be removed is the question of RemovalPolicy, how   *)
(* an account signs in that of LoginFlow: both are choices here.           *)
(***************************************************************************)
EXTENDS Integers

CONSTANTS
  User,       \* accounts, all of them administrators
  NoUser,     \* no account, or the whole instance
  Tab,        \* tabs of the browser
  NoTab,      \* no tab
  Run,        \* bound: how many ceremonies are under way at once
  Screen,     \* bound: the pages people open
  Op          \* bound: the forms people use

ASSUME NoUserIsNoUser == NoUser \notin User
ASSUME NoTabIsNoTab == NoTab \notin Tab
ASSUME ScreensExist == Screen \subseteq {"account", "users", "security", "enroll"}

VARIABLES
  user,       \* session: user_id
  pending,    \* session: step_up_pending
  grant,      \* session: step_up_grant
  challenge,  \* session: passkey_registration
  factors,    \* the kinds of authenticator an account has
  password,   \* users.password_login_enabled
  done,       \* the confirmed operation the last step carried out, if it did
  page,       \* what a tab shows
  ready,      \* the forms marked data-step-up-ready="1"
  sent,       \* the form a tab is submitting
  run         \* the calls of protectForm and register under way

sessionVars == <<user, pending, grant, challenge>>
databaseVars == <<factors, password>>
tabVars == <<page, ready, sent>>
vars == <<sessionVars, databaseVars, done, tabVars, run>>

---------------------------------------------------------------------------
(* Types *)

SomeUser == User \cup {NoUser}
Method == {"webauthn", "totp"}

Action == {"auth.webauthn.add", "auth.webauthn.delete", "auth.webauthn.rename",
           "auth.totp.add", "auth.totp.delete", "auth.totp.reset",
           "auth.password.enable", "auth.password.disable", "auth.password.change",
           "auth.policy.change", "auth.recovery"}

\* The target of an action names an account, a thing and, in a recovery, the actor.
Name == {"passkey", "totp", "create", "rename", "update", "reset", "ticket", "delete",
         "limits", "fail2ban", "enroll", "register", "account", "none"}
Purposes == [action: Action, on: SomeUser, what: Name, actor: SomeUser]
Forms == [op: Name, on: SomeUser]

\* One ceremony, in the order of the awaits in lib/webauthn.ts: stepUp from "options"
\* to "verified", registerPasskey from "register" to "assign", the navigation.
Step == {"options", "prompt", "finish", "code", "totp", "verified",
         "register", "create", "assign"}

NoForm == [op |-> "none", on |-> NoUser]
NoPurpose == [action |-> "auth.policy.change", on |-> NoUser, what |-> "none", actor |-> NoUser]
Idle == [step |-> "idle", tab |-> NoTab, form |-> NoForm, purpose |-> NoPurpose,
         fallback |-> FALSE, who |-> NoUser]

Submission == [form: Forms, newPassword: BOOLEAN, enabled: BOOLEAN]

\* The data a page was rendered with, and what people and scripts change on it.
Pages == [screen: {"none", "account", "users", "security", "enroll"}, user: SomeUser,
          stepUp: BOOLEAN, password: [User -> BOOLEAN], busy: BOOLEAN]

TypeOK ==
  /\ user \in SomeUser
  /\ pending \in SUBSET [run: Run, user: User, purpose: Purposes]
  /\ grant \in SUBSET [user: User, purpose: Purposes]
  /\ challenge \in SUBSET [run: Run, user: User]
  /\ factors \in [User -> SUBSET Method]
  /\ password \in [User -> BOOLEAN]
  /\ done \in SUBSET (User \X Purposes)
  /\ page \in [Tab -> Pages]
  /\ ready \in SUBSET (Tab \X Forms)
  /\ sent \in [Tab -> SUBSET Submission]
  /\ run \in [Run -> {Idle} \cup [step: Step, tab: Tab, form: Forms, purpose: Purposes,
                                 fallback: BOOLEAN, who: SomeUser]]

Blank == [screen |-> "none", user |-> NoUser, stepUp |-> FALSE,
          password |-> [u \in User |-> FALSE], busy |-> FALSE]

Init ==
  /\ user = NoUser
  /\ pending = {} /\ grant = {} /\ challenge = {}
  /\ factors \in [User -> SUBSET Method]
  /\ password \in {p \in [User -> BOOLEAN] : \A u \in User : "webauthn" \in factors[u] \/ p[u]}
  /\ done = {}
  /\ page = [t \in Tab |-> Blank]
  /\ ready = {}
  /\ sent = [t \in Tab |-> {}]
  /\ run = [c \in Run |-> Idle]

---------------------------------------------------------------------------
(* Forms and their purposes *)

Form(op, on) == [op |-> op, on |-> on]
PurposeOf(action, on, what) == [action |-> action, on |-> on, what |-> what, actor |-> NoUser]
Recovery(on, what, actor) == [action |-> "auth.recovery", on |-> on, what |-> what, actor |-> actor]

\* AccountSecurityPage: own credentials, where removal_allowed
AccountForms(u) == {Form(kind, u) : kind \in {"passkey", "totp"}}

\* AdminUsersPage
UsersForms(u) ==
  {Form("create", NoUser), Form("rename", u)}
    \cup {Form(op, on) : op \in {"update", "passkey", "totp", "reset"}, on \in User}
    \cup {Form(op, on) : op \in {"ticket", "delete"}, on \in User \ {u}}

\* AdminSecurityPage
SecurityForms == {Form("limits", NoUser), Form("fail2ban", NoUser)}

\* The protected forms of a page
FormsOn(p) ==
  CASE p.screen = "account"  -> AccountForms(p.user)
    [] p.screen = "users"    -> UsersForms(p.user)
    [] p.screen = "security" -> SecurityForms
    [] p.screen = "enroll"   -> {Form("enroll", p.user)}
    [] OTHER                 -> {}

\* What a person may have put into a form: a new password, a change of the checkbox.
\* People edit at any time, so each use of a form has its own.
Entries(f) ==
  IF f.op = "update" THEN [newPassword: BOOLEAN, toggled: BOOLEAN]
  ELSE {[newPassword |-> FALSE, toggled |-> FALSE]}

\* The value of the checkbox when the form for account u is submitted
Enabled(p, u, e) == u # NoUser /\ (p.password[u] # e.toggled)

\* Mutant of UpdateAction: the checkbox is looked at first.
CheckboxFirst(p, u, e) ==
  IF e.toggled
  THEN IF Enabled(p, u, e) THEN "auth.password.enable" ELSE "auth.password.disable"
  ELSE IF e.newPassword THEN "auth.password.change" ELSE "auth.policy.change"

\* updateAction: what the form says, next to what it was rendered with
UpdateAction(p, u, e) ==
  IF e.newPassword THEN "auth.password.change"
  ELSE IF ~e.toggled THEN "auth.policy.change"
  ELSE IF Enabled(p, u, e) THEN "auth.password.enable" ELSE "auth.password.disable"

\* UserUpdateHandler: what the values that arrived mean, next to the account
ActionOfUpdate(s) ==
  IF s.newPassword THEN "auth.password.change"
  ELSE IF s.enabled = password[s.form.on] THEN "auth.policy.change"
  ELSE IF s.enabled THEN "auth.password.enable" ELSE "auth.password.disable"

\* The purpose for which the page asks a confirmation.
Asked(p, f, e) ==
  CASE f.op = "enroll" -> PurposeOf("auth.totp.add", p.user, "account")
    [] f.op = "passkey" /\ p.screen = "account" -> PurposeOf("auth.webauthn.delete", f.on, "passkey")
    [] f.op = "totp" /\ p.screen = "account"    -> PurposeOf("auth.totp.delete", f.on, "totp")
    [] f.op \in {"passkey", "totp", "reset", "ticket", "delete"} /\ p.screen = "users" ->
         Recovery(f.on, f.op, p.user)
    [] f.op = "rename" -> PurposeOf("auth.webauthn.rename", f.on, "passkey")
    [] f.op = "update" -> PurposeOf(UpdateAction(p, f.on, e), f.on, "update")
    [] OTHER -> PurposeOf("auth.policy.change", NoUser, f.op)

\* The purpose the handler of a submission s looks for.
Demanded(s) ==
  LET on == s.form.on
      op == s.form.op
      own(action) == IF on = user THEN PurposeOf(action, on, op) ELSE Recovery(on, op, user)
  IN CASE op = "passkey" -> own("auth.webauthn.delete")
       [] op = "totp"    -> own("auth.totp.delete")
       [] op = "reset"   -> own("auth.totp.reset")
       [] op \in {"ticket", "delete"} -> Recovery(on, op, user)
       [] op = "enroll"  -> PurposeOf("auth.totp.add", user, "account")
       [] op = "rename"  -> PurposeOf("auth.webauthn.rename", on, "passkey")
       [] op = "update"  -> PurposeOf(ActionOfUpdate(s), on, "update")
       [] OTHER          -> PurposeOf("auth.policy.change", NoUser, op)

\* stepUpMethodsFor
AcceptsTotp(action) ==
  action \notin {"auth.webauthn.delete", "auth.totp.reset", "auth.policy.change", "auth.recovery"}

\* Mutant of NeedsStepUp: only passkeys count.
NeedsPasskeyOnly(u) == "webauthn" \in factors[u]

\* mfaRequired, hasPasskey or hasActiveTotpKey
NeedsStepUp(u) == factors[u] # {}

\* An account that can sign in, by any way
Exists(u) == factors[u] # {} \/ password[u]

---------------------------------------------------------------------------
(* Tabs *)

\* A page is rendered for the user of the session; auth_setup_required keeps
\* an account without a factor on two pages.
Rendered(s) ==
  [screen |-> s, user |-> user, stepUp |-> NeedsStepUp(user), password |-> password,
   busy |-> FALSE]

Allowed(s) == user # NoUser /\ (s \in {"users", "security"} => NeedsStepUp(user))

\* What comes up for a page: the login page, and a page outside the bound, are blank.
Shown(s) == IF Allowed(s) /\ s \in Screen THEN Rendered(s) ELSE Blank

\* Another document takes the place of the one in tab t, with its scripts.
Replace(t, p) ==
  /\ page' = [page EXCEPT ![t] = p]
  /\ ready' = {m \in ready : m[1] # t}
  /\ sent' = [sent EXCEPT ![t] = {}]
  /\ run' = [c \in Run |-> IF run[c].tab = t THEN Idle ELSE run[c]]

\* A page is opened or reloaded.
Open(t, s) ==
  /\ Replace(t, Shown(s))
  /\ UNCHANGED <<sessionVars, databaseVars>>

\* Form f of page p with the entries e
Filled(p, f, e) ==
  [form |-> f, newPassword |-> e.newPassword, enabled |-> Enabled(p, f.on, e)]

\* The browser posts form f; this replaces an earlier submission of the tab.
Post(t, f) == \E e \in Entries(f) : sent' = [sent EXCEPT ![t] = {Filled(page[t], f, e)}]

\* The TOTP form when the page was rendered for an account without a factor
SubmitUnprotected(t, f) ==
  /\ f \in FormsOn(page[t])
  /\ f.op = "enroll"
  /\ ~page[t].stepUp
  /\ Post(t, f)
  /\ UNCHANGED <<sessionVars, databaseVars, page, ready, run>>

\* A form with the mark is submitted without a ceremony, after its dialog.
SubmitReady(t, f) ==
  /\ f \in FormsOn(page[t])
  /\ <<t, f>> \in ready
  /\ ready' = ready \ {<<t, f>>}
  /\ Post(t, f)
  /\ UNCHANGED <<sessionVars, databaseVars, page, run>>

---------------------------------------------------------------------------
(* Ceremonies *)

Begin(c, t, f, step, purpose, fallback) ==
  run' = [run EXCEPT ![c] = [step |-> step, tab |-> t, form |-> f, purpose |-> purpose,
                             fallback |-> fallback, who |-> NoUser]]

Goto(c, step) == run' = [run EXCEPT ![c].step = step, ![c].who = NoUser]

\* Whether stepUp offers a TOTP code: the page allows it (for a TOTP key, from
\* removal_methods), and the action is not one that FIDO2 has to confirm.
Fallbacks(p, f, purpose) ==
  IF \/ purpose.action \in {"auth.recovery", "auth.policy.change"}
     \/ f.op = "passkey" /\ p.screen = "account"
  THEN {FALSE}
  ELSE IF f.op = "totp" /\ p.screen = "account" THEN BOOLEAN ELSE {TRUE}

\* protectForm prevents the submission and starts a ceremony.
Submit(c, t, f) ==
  /\ run[c] = Idle
  /\ f \in FormsOn(page[t])
  /\ <<t, f>> \notin ready
  /\ f.op = "enroll" => page[t].stepUp
  /\ \E e \in Entries(f) :
       LET purpose == Asked(page[t], f, e)
       IN \E fallback \in Fallbacks(page[t], f, purpose) :
            Begin(c, t, f, "options", purpose, fallback)
  /\ UNCHANGED <<sessionVars, databaseVars, tabVars>>

\* register: the buttons are disabled while a registration is pending.
Register(c, t) ==
  /\ run[c] = Idle
  /\ page[t].screen = "account"
  /\ ~page[t].busy
  /\ Begin(c, t, Form("register", page[t].user),
           IF page[t].stepUp THEN "options" ELSE "register",
           PurposeOf("auth.webauthn.add", page[t].user, "account"), TRUE)
  /\ page' = [page EXCEPT ![t].busy = TRUE]
  /\ UNCHANGED <<sessionVars, databaseVars, ready, sent>>

\* Mutants of Fails: the buttons stay disabled; the ceremony leaves something behind.
FailsBusy(c) == run' = [run EXCEPT ![c] = Idle] /\ UNCHANGED page
FailsStep(c) == run' = [run EXCEPT ![c].step = "idle"] /\ UNCHANGED page

\* The catch of protectForm or register
Fails(c) ==
  /\ run' = [run EXCEPT ![c] = Idle]
  /\ page' = IF run[c].form.op = "register"
             THEN [page EXCEPT ![run[c].tab].busy = FALSE] ELSE page

\* The catch in stepUp: another way to confirm, or none
FidoFails(c) ==
  IF run[c].fallback THEN Goto(c, "code") /\ UNCHANGED page ELSE Fails(c)

\* What comes after stepUp
AfterStepUp(c) == IF run[c].form.op = "register" THEN "register" ELSE "verified"

\* The reply of a request lets the ceremony go on, or is lost.
Reply(c, step) == (Goto(c, step) /\ UNCHANGED page) \/ Fails(c)
FidoReply(c, step) == (Goto(c, step) /\ UNCHANGED page) \/ FidoFails(c)

\* A request is refused or lost, a prompt is dismissed, a reply makes no sense.
GiveUp(c) ==
  /\ \/ run[c].step \in {"options", "prompt", "finish"} /\ FidoFails(c)
     \/ run[c].step \in {"code", "totp", "register", "create"} /\ Fails(c)
  /\ UNCHANGED <<sessionVars, databaseVars, ready, sent>>

\* POST step-up/options: StepUpService::begin
StepUpOptions(c) ==
  /\ run[c].step = "options"
  /\ user # NoUser
  /\ "webauthn" \in factors[user]
  /\ pending' = {[run |-> c, user |-> user, purpose |-> run[c].purpose]}
  /\ \/ /\ run' = [run EXCEPT ![c].step = "prompt", ![c].who = user]
        /\ UNCHANGED page
     \/ FidoFails(c)
  /\ UNCHANGED <<user, grant, challenge, databaseVars, ready, sent>>

\* An authenticator the options name signs the challenge.
AnswerPrompt(c) ==
  /\ run[c].step = "prompt"
  /\ run' = [run EXCEPT ![c].step = "finish"]
  /\ UNCHANGED <<sessionVars, databaseVars, tabVars>>

\* The answer of ceremony c is one to the challenge the session holds.
Answers(c) == \E q \in pending : q.run = c /\ q.user = user /\ "webauthn" \in factors[user]

Grant(u, purpose) == grant' = {[user |-> u, purpose |-> purpose]}

\* POST step-up/finish: takePending, finishAuthentication, grant; a removal may be
\* refused although the answer is right.
StepUpFinish(c) ==
  /\ run[c].step = "finish"
  /\ user # NoUser
  /\ pending' = {}
  /\ \/ /\ Answers(c)
        /\ \E q \in pending : Grant(user, q.purpose)
        /\ FidoReply(c, AfterStepUp(c))
     \/ UNCHANGED grant /\ FidoFails(c)
  /\ UNCHANGED <<user, challenge, databaseVars, ready, sent>>

\* A person with the TOTP key of account u types its code into the prompt.
EnterCode(c, u) ==
  /\ run[c].step = "code"
  /\ run' = [run EXCEPT ![c].step = "totp", ![c].who = u]
  /\ UNCHANGED <<sessionVars, databaseVars, tabVars>>

\* POST step-up/totp: verifyTotp
VerifyTotp(c) ==
  /\ run[c].step = "totp"
  /\ user # NoUser /\ user = run[c].who
  /\ "totp" \in factors[user]
  /\ AcceptsTotp(run[c].purpose.action)
  /\ Grant(user, run[c].purpose)
  /\ Reply(c, AfterStepUp(c))
  /\ UNCHANGED <<user, pending, challenge, databaseVars, ready, sent>>

\* Where the submission that follows a ceremony may not take place: its dialog is
\* cancelled, or a field that was edited meanwhile does not validate.
MayStay(c) ==
  \/ page[run[c].tab].screen = "account"
  \/ run[c].form.op \in {"create", "rename", "update", "limits", "enroll"}

\* protectForm after stepUp: the form is marked and submitted, which takes the
\* mark off again.
Resume(c) ==
  LET r == run[c] IN
    /\ r.step = "verified"
    /\ \/ /\ ready' = ready \ {<<r.tab, r.form>>}
          /\ Post(r.tab, r.form)
       \/ /\ MayStay(c)
          /\ ready' = ready \cup {<<r.tab, r.form>>}
          /\ UNCHANGED sent
    /\ run' = [run EXCEPT ![c] = Idle]
    /\ UNCHANGED <<sessionVars, databaseVars, page>>

\* POST register/options, with the account the page was rendered for
RegisterOptions(c) ==
  /\ run[c].step = "register"
  /\ user # NoUser
  /\ run[c].form.on = user
  /\ challenge' = {[run |-> c, user |-> user]}
  /\ Reply(c, "create")
  /\ UNCHANGED <<user, pending, grant, databaseVars, ready, sent>>

---------------------------------------------------------------------------
(* Operations that need a confirmation *)

\* Mutant of Confirmed: the grant is not compared with the user of the session.
ConfirmedForAnyone(purpose) == \E g \in grant : g.purpose = purpose

\* StepUpService::consume returns a grant; it is gone in any case.
Confirmed(purpose) == [user |-> user, purpose |-> purpose] \in grant

\* The operation is carried out on the word of the grant.
Operation(purpose) == done' = {<<user, purpose>>}

Add(u, method) == factors' = [factors EXCEPT ![u] = @ \cup {method}]

\* The person has created a passkey.  PasskeyRegisterHandler takes the challenge, then
\* the grant; invalid input or a reached limit may still refuse the passkey.
RegisterFinish(c) ==
  LET purpose == PurposeOf("auth.webauthn.add", user, "account")
      current == \E q \in challenge : q.user = user
      signed  == [run |-> c, user |-> user] \in challenge
  IN
    /\ run[c].step = "create"
    /\ user # NoUser
    /\ challenge' = {}
    /\ grant' = IF current /\ NeedsStepUp(user) THEN {} ELSE grant
    /\ \/ /\ signed
          /\ NeedsStepUp(user) => Confirmed(purpose)
          /\ Add(user, "webauthn")
          /\ IF NeedsStepUp(user) THEN Operation(purpose) ELSE done' = {}
          /\ Reply(c, "assign")
       \/ UNCHANGED factors /\ done' = {} /\ Fails(c)
    /\ UNCHANGED <<user, pending, password, ready, sent>>

\* window.location.assign
Assign(c) ==
  /\ run[c].step = "assign"
  /\ Replace(run[c].tab, Shown("account"))
  /\ UNCHANGED <<sessionVars, databaseVars>>

\* What the handler of a confirmed submission changes, of what the pages show.
\* hasValidAuthenticationPathAfterRemoval keeps a factor, self-service a passkey;
\* an account that is deleted loses everything.
Effect(s) ==
  LET u == s.form.on
      without(m) == [factors EXCEPT ![u] = @ \ {m}]
  IN
    /\ CASE s.form.op = "enroll" -> Add(user, "totp")
         [] s.form.op = "passkey" /\ u # user ->
              factors' \in {factors} \cup {g \in {without("webauthn")} : g[u] # {}}
         [] s.form.op = "totp" -> factors' \in {factors} \cup {g \in {without("totp")} : g[u] # {}}
         [] s.form.op = "reset" -> factors' = without("totp")
         [] s.form.op = "delete" -> factors' = [factors EXCEPT ![u] = {}]
         [] OTHER -> UNCHANGED factors
    /\ password' = CASE s.form.op = "update" -> [password EXCEPT ![u] = s.enabled]
                      [] s.form.op = "delete" -> [password EXCEPT ![u] = FALSE]
                      [] OTHER -> password

\* What a handler asks before it consumes the grant
Admissible(s) ==
  /\ Allowed(IF s.form.op = "enroll" THEN "enroll" ELSE "users")
  /\ s.form.on # NoUser => Exists(s.form.on)
  /\ s.form.op = "reset" => "webauthn" \in factors[s.form.on]
  /\ s.form.op \in {"ticket", "delete"} => s.form.on # user
  /\ s.form.op = "rename" => s.form.on = user
  /\ s.form.op = "update" /\ ~s.enabled => "webauthn" \in factors[s.form.on]

\* A submission is handled: the grant is consumed, and confirms it or not.  The
\* redirect opens a page, like any Open.
Handle(t) ==
  \E s \in sent[t] :
    /\ Admissible(s)
    /\ IF s.form.op = "enroll" /\ ~NeedsStepUp(user)
       THEN Effect(s) /\ UNCHANGED grant /\ done' = {}
       ELSE /\ grant' = {}
            /\ IF Confirmed(Demanded(s))
               THEN Effect(s) /\ Operation(Demanded(s))
               ELSE UNCHANGED databaseVars /\ done' = {}
    /\ sent' = [sent EXCEPT ![t] = {}]
    /\ UNCHANGED <<user, pending, challenge, page, ready, run>>

\* It is refused before that, or lost: no user, invalid input, removal not allowed.
Refuse(t) ==
  /\ sent[t] # {}
  /\ sent' = [sent EXCEPT ![t] = {}]
  /\ UNCHANGED <<sessionVars, databaseVars, page, ready, run>>

---------------------------------------------------------------------------
(* The session *)

\* Somebody signs in, in a tab that still shows the login or activation page
\* too; regenerate() keeps the data of the session.
SignIn(u) ==
  /\ user # u
  /\ Exists(u)
  /\ user # NoUser => "webauthn" \in factors[u]
  /\ user' = u
  /\ UNCHANGED <<pending, grant, challenge, databaseVars, tabVars, run>>

\* LogoutHandler clears the session, and so does a completed recovery.
SignOut ==
  /\ user # NoUser
  /\ user' = NoUser /\ pending' = {} /\ grant' = {} /\ challenge' = {}
  /\ UNCHANGED <<databaseVars, tabVars, run>>

\* 120 seconds pass: what is older is as good as gone.
Expire ==
  /\ \/ pending # {} /\ pending' = {} /\ UNCHANGED <<grant, challenge>>
     \/ grant # {} /\ grant' = {} /\ UNCHANGED <<pending, challenge>>
     \/ challenge # {} /\ challenge' = {} /\ UNCHANGED <<pending, grant>>
  /\ UNCHANGED <<user, databaseVars, tabVars, run>>

---------------------------------------------------------------------------
(* Behaviours *)

\* A ceremony under way, up to its last request
Proceed(c) ==
  \/ GiveUp(c)
  \/ StepUpOptions(c) \/ AnswerPrompt(c) \/ StepUpFinish(c)
  \/ \E u \in User : EnterCode(c, u)
  \/ VerifyTotp(c)
  \/ Resume(c)
  \/ RegisterOptions(c) \/ Assign(c)

\* A person at a tab, and what its submissions come back with
Use(t) ==
  \/ \E s \in Screen : Open(t, s)
  \/ \E f \in {g \in FormsOn(page[t]) : g.op \in Op} :
       SubmitUnprotected(t, f) \/ SubmitReady(t, f) \/ \E c \in Run : Submit(c, t, f)
  \/ \E c \in Run : Register(c, t)
  \/ Refuse(t)

Session == (\E u \in User : SignIn(u)) \/ SignOut \/ Expire

\* The handlers that use a confirmation say what they carried out.
Next ==
  \/ /\ (\E c \in Run : Proceed(c)) \/ (\E t \in Tab : Use(t)) \/ Session
     /\ done' = {}
  \/ \E c \in Run : RegisterFinish(c)
  \/ \E t \in Tab : Handle(t)

Spec == Init /\ [][Next]_vars

---------------------------------------------------------------------------
(* Properties *)

\* The answers of authenticators on their way, and the confirmation of the session
Answering == {c \in Run : run[c].step \in {"finish", "totp"}}
AnswersOnTheirWay == {<<c, run[c].who, run[c].purpose>> : c \in Answering}
Held == {<<g.user, g.purpose>> : g \in grant}

\* Whatever tabs, ceremonies and users share a session: an operation is carried out
\* only for the user, the action and the target that this user's authenticator was
\* asked about, and once for each answer (StepUpService, and lib/webauthn.ts).
Contract == INSTANCE StepUpContract
              WITH Ceremony <- Run, Purpose <- Purposes,
                   answered <- AnswersOnTheirWay, held <- Held
StepUpHolds == Contract!Spec

\* The buttons of the account page are disabled exactly while one registration of
\* the tab is under way: no two at once, none that leaves them disabled (register).
BusyWhileRegistering ==
  \A t \in Tab :
    LET registering == {c \in Run : run[c].tab = t /\ run[c].form.op = "register"}
    IN IF page[t].busy THEN \E c \in Run : registering = {c} ELSE registering = {}

\* What the code and the handlers compute on their own agrees: a page that shows the
\* session's user and the accounts as they are asks for the very purpose its form
\* is going to need, however the form is filled in.  The forms the users page shows
\* for the administrator's own credentials are the exception.
OwnOnUsersPage(p, f) == p.screen = "users" /\ f.on = p.user /\ f.op \in {"passkey", "totp", "reset"}
Current(p) == p.user # NoUser /\ p.user = user /\ p.password = password
Agrees(p, f) == \A e \in Entries(f) : Asked(p, f, e) = Demanded(Filled(p, f, e))

AskedIsDemanded ==
  \A t \in Tab : Current(page[t]) =>
    \A f \in FormsOn(page[t]) : OwnOnUsersPage(page[t], f) \/ Agrees(page[t], f)

\* PasskeyDeleteHandler.php:87, "Verify with your own authenticator before
\* changing credentials.": whatever form a current page shows, the answer it
\* asks of the user is one the server accepts for that form.
EveryFormCanBeConfirmed ==
  \A t \in Tab : Current(page[t]) => \A f \in FormsOn(page[t]) : Agrees(page[t], f)

\* An account that has an authenticator gets another only when one of its own just
\* confirmed that: the page decides from old data whether to ask, the handler from
\* the account (mustStepUp, requiresStepUp).
FactorsAreConfirmed ==
  [][\A u \in User :
       factors[u] # {} /\ ~(factors'[u] \subseteq factors[u])
         => \E c \in done' :
              c[1] = u /\ c[2].action \in {"auth.webauthn.add", "auth.totp.add"}]_vars
=============================================================================
