----------------------------- MODULE SignInPages -----------------------------
(***************************************************************************)
(* The pages in front of LexNova in one browser: the login, second-factor  *)
(* and activation pages open in several tabs, the passkey ceremonies their *)
(* buttons start (loginWithPasskey, activateWithPasskey), the forms next   *)
(* to them, and the slots of the one PHP session all of them share.        *)
(*                                                                         *)
(* A ceremony awaits a request, a prompt and another request; meanwhile    *)
(* the other tabs go on, replace the challenge, sign in to another account *)
(* or verify another ticket.  The work of a request is one step, its reply *)
(* may get lost.  Which rows the database keeps is the question of         *)
(* LoginFlow and AccountRecovery; here an account has keys and perhaps an  *)
(* open ticket.                                                            *)
(***************************************************************************)
EXTENDS Integers

CONSTANTS
  User,       \* accounts
  NoUser,     \* none of them
  Tab,        \* tabs of the browser
  NoTab,      \* no tab
  Run         \* bound: how many ceremonies are under way at once

ASSUME NoUserIsNoUser == NoUser \notin User
ASSUME NoTabIsNoTab == NoTab \notin Tab

VARIABLES
  user,       \* session: user_id
  waiting,    \* session: totp_pending_user_id
  challenge,  \* session: passkey_login
  context,    \* session: the verified ticket, activation_user_id and purpose
  enrolment,  \* session: activation_registration
  keys,       \* the kinds of authenticator of an account
  ticket,     \* the purpose of an account's open ticket: it is locked until then
  page,       \* what a tab shows
  sent,       \* the form a tab is submitting
  run         \* the calls of loginWithPasskey and activateWithPasskey under way

slots == <<waiting, challenge, context, enrolment>>
accountVars == <<keys, ticket>>
vars == <<user, slots, accountVars, page, sent, run>>

SomeUser == User \cup {NoUser}
Method == {"webauthn", "totp"}
Purpose == {"activation", "recovery"}

\* The passkey buttons: of the login page, of the second-factor page, of a ticket
Button == {"primary", "mfa", "activate"}
Step == {"options", "prompt", "finish", "assign"}

Idle == [step |-> "idle", tab |-> NoTab, button |-> "primary", who |-> NoUser]

\* What people put into the forms: whose password, code or ticket it is
Submission == [form: {"password", "code", "ticket"}, who: User]

Blank == [screen |-> "none", passkey |-> FALSE, busy |-> FALSE]

TypeOK ==
  /\ user \in SomeUser /\ waiting \in SomeUser
  /\ challenge \in SUBSET [run: Run, user: User, button: {"primary", "mfa"}]
  /\ context \in SUBSET [user: User, purpose: Purpose]
  /\ enrolment \in SUBSET [run: Run, user: User]
  /\ keys \in [User -> SUBSET Method]
  /\ ticket \in [User -> {"none"} \cup Purpose]
  /\ page \in [Tab -> [screen: {"none", "login", "verify", "activate"}, passkey: BOOLEAN, busy: BOOLEAN]]
  /\ sent \in [Tab -> SUBSET Submission]
  /\ run \in [Run -> {Idle} \cup [step: Step, tab: Tab, button: Button, who: SomeUser]]

\* Accounts that were just created wait for their activation.
Init ==
  /\ user = NoUser /\ waiting = NoUser
  /\ challenge = {} /\ context = {} /\ enrolment = {}
  /\ keys \in [User -> SUBSET Method]
  /\ ticket \in [User -> {"none", "activation"}]
  /\ \A u \in User : ticket[u] = "activation" => keys[u] = {}
  /\ page = [t \in Tab |-> Blank]
  /\ sent = [t \in Tab |-> {}]
  /\ run = [c \in Run |-> Idle]

---------------------------------------------------------------------------
(* Tabs *)

Locked(u) == ticket[u] # "none"
HasPasskey(u) == "webauthn" \in keys[u]

\* What the handlers render: no login page for a browser that is signed in, no
\* second-factor page without a password, no passkey button without a passkey or
\* a verified ticket.
Shown(s) ==
  CASE s = "login" /\ user = NoUser ->
         [screen |-> s, passkey |-> TRUE, busy |-> FALSE]
    [] s = "verify" /\ waiting # NoUser ->
         [screen |-> s, passkey |-> HasPasskey(waiting), busy |-> FALSE]
    [] s = "activate" -> [screen |-> s, passkey |-> context # {}, busy |-> FALSE]
    [] OTHER -> Blank

\* Another document takes the place of the one in tab t, with its scripts.
Replace(t, p) ==
  /\ page' = [page EXCEPT ![t] = p]
  /\ sent' = [sent EXCEPT ![t] = {}]
  /\ run' = [c \in Run |-> IF run[c].tab = t THEN Idle ELSE run[c]]

\* A page is opened, reloaded or redirected to.
Open(t, s) == Replace(t, Shown(s)) /\ UNCHANGED <<user, slots, accountVars>>

\* A form of the page is submitted.
FormOf(screen) ==
  CASE screen = "login" -> {"password"}
    [] screen = "verify" -> {"code"}
    [] screen = "activate" -> {"ticket"}
    [] OTHER -> {}

Submit(t, u) ==
  /\ \E f \in FormOf(page[t].screen) :
       /\ f = "ticket" => ~page[t].passkey
       /\ sent' = [sent EXCEPT ![t] = {[form |-> f, who |-> u]}]
  /\ UNCHANGED <<user, slots, accountVars, page, run>>

\* passkeyLogin, activate: the buttons are disabled from here on.
ButtonOf(screen) ==
  CASE screen = "login" -> "primary" [] screen = "verify" -> "mfa" [] OTHER -> "activate"

Press(c, t) ==
  /\ run[c] = Idle
  /\ page[t].passkey /\ ~page[t].busy
  /\ run' = [run EXCEPT ![c] = [step |-> "options", tab |-> t,
                                button |-> ButtonOf(page[t].screen), who |-> NoUser]]
  /\ page' = [page EXCEPT ![t].busy = TRUE]
  /\ UNCHANGED <<user, slots, accountVars, sent>>

---------------------------------------------------------------------------
(* Ceremonies *)

Goto(c, step) == run' = [run EXCEPT ![c].step = step, ![c].who = NoUser]

\* Mutants of Fails: the buttons stay disabled; the ceremony leaves something behind.
FailsBusy(c) == run' = [run EXCEPT ![c] = Idle] /\ UNCHANGED page
FailsStep(c) == run' = [run EXCEPT ![c].step = "idle"] /\ UNCHANGED page

\* The catch of the page
Fails(c) ==
  /\ run' = [run EXCEPT ![c] = Idle]
  /\ page' = [page EXCEPT ![run[c].tab].busy = FALSE]

\* The reply of a request lets the ceremony go on, or is lost.
Reply(c, step) == (Goto(c, step) /\ UNCHANGED page) \/ Fails(c)

\* A request is refused or lost, a prompt is dismissed or times out.
GiveUp(c) ==
  /\ run[c].step \in {"options", "prompt", "finish"}
  /\ Fails(c)
  /\ UNCHANGED <<user, slots, accountVars, sent>>

\* The reply with the options for u's authenticators opens the prompt.
Prompt(c, u) ==
  \/ run' = [run EXCEPT ![c].step = "prompt", ![c].who = u] /\ UNCHANGED page
  \/ Fails(c)

\* POST passkeys/login/options: the account that waits, or the one the person named
LoginOptions(c, u) ==
  /\ run[c].step = "options"
  /\ run[c].button # "activate"
  /\ run[c].button = "mfa" => waiting = u
  /\ HasPasskey(u) /\ ~Locked(u)
  /\ challenge' = {[run |-> c, user |-> u, button |-> run[c].button]}
  /\ Prompt(c, u)
  /\ UNCHANGED <<user, waiting, context, enrolment, accountVars, sent>>

\* POST activate/options: the account of the verified ticket
ActivateOptions(c) ==
  /\ run[c].step = "options"
  /\ run[c].button = "activate"
  /\ \E k \in context :
       /\ enrolment' = {[run |-> c, user |-> k.user]}
       /\ Prompt(c, k.user)
  /\ UNCHANGED <<user, waiting, challenge, context, accountVars, sent>>

\* The owner of the account uses or creates a passkey.
AnswerPrompt(c) ==
  /\ run[c].step = "prompt"
  /\ run' = [run EXCEPT ![c].step = "finish"]
  /\ UNCHANGED <<user, slots, accountVars, page, sent>>

\* Mutant of Answers: the answer is not checked against the challenge.
AnswersAny(c, q) == HasPasskey(q.user) /\ ~Locked(q.user)

\* finishAuthentication: the answer of ceremony c is one to challenge q.
Answers(c, q) == q.run = c /\ HasPasskey(q.user) /\ ~Locked(q.user)

\* POST passkeys/login/finish: the challenge is taken in any case.  As a second factor
\* it needs a password that still waits; one that waited too long, or for an account
\* that is locked now, is forgotten.
LoginFinish(c) ==
  /\ run[c].step = "finish"
  /\ run[c].button # "activate"
  /\ challenge' = {}
  /\ \/ /\ \E q \in challenge :
             /\ q.button = "mfa" => waiting # NoUser
             /\ Answers(c, q)
             /\ user' = q.user
        /\ waiting' = NoUser
        /\ Reply(c, "assign")
     \/ /\ waiting' \in {waiting, NoUser}
        /\ UNCHANGED user
        /\ Fails(c)
  /\ UNCHANGED <<context, enrolment, accountVars, sent>>

\* Mutant of Enrols: the ticket that is verified now is not compared with the challenge.
EnrolsAny(c, k) == \E q \in enrolment : q.run = c

\* The passkey was created for the account whose ticket is verified now.
Enrols(c, k) == [run |-> c, user |-> k.user] \in enrolment

\* POST activate/finish: the ticket of the context and the challenge have to be for
\* the same account.  A recovery leaves only the new passkey, and an anonymous
\* browser; a first activation signs in, unless no session row can be written.
ActivateFinish(c) ==
  /\ run[c].step = "finish"
  /\ run[c].button = "activate"
  /\ enrolment' = {}
  /\ \/ \E k \in context :
          /\ Enrols(c, k)
          /\ ticket[k.user] = k.purpose
          /\ ticket' = [ticket EXCEPT ![k.user] = "none"]
          /\ context' = {}
          /\ IF k.purpose = "recovery"
             THEN /\ keys' = [keys EXCEPT ![k.user] = {"webauthn"}]
                  /\ user' = NoUser /\ waiting' = NoUser /\ challenge' = {}
                  /\ Reply(c, "assign")
             ELSE /\ keys' = [keys EXCEPT ![k.user] = @ \cup {"webauthn"}]
                  /\ UNCHANGED <<waiting, challenge>>
                  /\ (user' = k.user /\ Reply(c, "assign")) \/ (UNCHANGED user /\ Fails(c))
     \/ UNCHANGED <<user, waiting, challenge, context, accountVars>> /\ Fails(c)
  /\ UNCHANGED sent

\* window.location.assign
Assign(c) ==
  /\ run[c].step = "assign"
  /\ \E s \in {"login", "none"} : Replace(run[c].tab, Shown(s))
  /\ UNCHANGED <<user, slots, accountVars>>

---------------------------------------------------------------------------
(* Forms *)

\* The page a form is answered with opens like any other.
Handled(t) == sent' = [sent EXCEPT ![t] = {}] /\ UNCHANGED <<page, run>>

\* POST admin/login with the right password
Login(t) ==
  /\ user = NoUser
  /\ \E s \in sent[t] :
       /\ s.form = "password"
       /\ ~Locked(s.who)
       /\ IF keys[s.who] # {} THEN waiting' = s.who /\ UNCHANGED user
                              ELSE user' = s.who /\ UNCHANGED waiting
  /\ Handled(t)
  /\ UNCHANGED <<challenge, context, enrolment, accountVars>>

\* POST totp/verify with a code of the account that waits
VerifyTotp(t) ==
  /\ \E s \in sent[t] :
       /\ s.form = "code"
       /\ s.who = waiting
       /\ "totp" \in keys[s.who] /\ ~Locked(s.who)
       /\ user' = s.who
  /\ waiting' = NoUser
  /\ Handled(t)
  /\ UNCHANGED <<challenge, context, enrolment, accountVars>>

\* POST activate/verify with an open ticket: a recovery first clears the session.
VerifyTicket(t) ==
  /\ \E s \in sent[t] :
       /\ s.form = "ticket"
       /\ Locked(s.who)
       /\ context' = {[user |-> s.who, purpose |-> ticket[s.who]]}
       /\ IF ticket[s.who] = "recovery"
          THEN user' = NoUser /\ waiting' = NoUser /\ challenge' = {} /\ enrolment' = {}
          ELSE UNCHANGED <<user, waiting, challenge, enrolment>>
  /\ Handled(t)
  /\ UNCHANGED accountVars

\* The form is refused or lost: a wrong entry, a locked account, a limit.
Refuse(t) ==
  /\ sent[t] # {}
  /\ Handled(t)
  /\ UNCHANGED <<user, slots, accountVars>>

---------------------------------------------------------------------------
(* The session and the accounts *)

\* LogoutHandler
SignOut ==
  /\ user # NoUser
  /\ user' = NoUser /\ waiting' = NoUser
  /\ challenge' = {} /\ context' = {} /\ enrolment' = {}
  /\ UNCHANGED <<accountVars, page, sent, run>>

\* 120, 300 or 900 seconds pass: what is older is as good as gone.
Expire ==
  /\ \/ waiting' = NoUser /\ UNCHANGED <<challenge, context, enrolment>>
     \/ challenge' = {} /\ UNCHANGED <<waiting, context, enrolment>>
     \/ context' = {} /\ UNCHANGED <<waiting, challenge, enrolment>>
     \/ enrolment' = {} /\ UNCHANGED <<waiting, challenge, context>>
  /\ UNCHANGED <<user, accountVars, page, sent, run>>

\* ActivationService::issue for an account in use: a recovery
Issue(u) ==
  /\ ~Locked(u)
  /\ ticket' = [ticket EXCEPT ![u] = "recovery"]
  /\ UNCHANGED <<user, slots, keys, page, sent, run>>

---------------------------------------------------------------------------
(* Behaviours *)

\* What goes on by itself once a ceremony was started
Settle(c) ==
  \/ GiveUp(c)
  \/ (\E u \in User : LoginOptions(c, u)) \/ ActivateOptions(c)
  \/ AnswerPrompt(c)
  \/ LoginFinish(c) \/ ActivateFinish(c)
  \/ Assign(c)

Use(t) ==
  \/ \E s \in {"login", "verify", "activate"} : Open(t, s)
  \/ \E u \in User : Submit(t, u)
  \/ \E c \in Run : Press(c, t)
  \/ Login(t) \/ VerifyTotp(t) \/ VerifyTicket(t) \/ Refuse(t)

Next ==
  \/ \E c \in Run : Settle(c)
  \/ \E t \in Tab : Use(t)
  \/ SignOut \/ Expire
  \/ \E u \in User : Issue(u)

Spec == Init /\ [][Next]_vars

---------------------------------------------------------------------------
(* Properties *)

\* What owners have shown and is on its way
OnItsWay ==
  {<<c, run[c].who, "passkey">> : c \in {d \in Run : run[d].step = "finish"}}
    \cup UNION {{<<t, s.who, s.form>> : s \in {r \in sent[t] : r.form # "ticket"}} : t \in Tab}

\* Whatever tabs and ceremonies share a session: the browser takes on an identity
\* only on what the owner of that account just showed, and once for each prompt and
\* form (PasskeyLoginHandler, TotpVerifyHandler, LoginHandler and ActivationHandler
\* with their one-slot state).
Contract == INSTANCE SignInContract
              WITH Place <- Run \cup Tab, shown <- OnItsWay, halfway <- waiting
SignInHolds == Contract!Spec

\* The buttons of a page are disabled exactly while one ceremony of the tab is under
\* way: no two at once, none that leaves them disabled (pending in the three pages).
BusyWhileAsking ==
  \A t \in Tab :
    LET asking == {c \in Run : run[c].tab = t}
    IN IF page[t].busy THEN \E c \in Run : asking = {c} ELSE asking = {}

\* A ticket is used up, and gives a passkey, only for the account of the prompt the
\* passkey was created in: not in a tab whose ceremony began before another tab
\* verified another ticket, and not twice (ActivationHandler, with its own slots).
TicketsEnrolTheirOwn ==
  [][\A u \in User :
       (Locked(u) /\ ticket'[u] = "none") \/ ~(keys'[u] \subseteq keys[u])
         => Locked(u) /\ \E c \in Run : run[c].step = "finish" /\ run[c].who = u]_vars
=============================================================================
