-------------------------- MODULE StepUpPagesProofs --------------------------
(***************************************************************************)
(* Proofs about StepUpPages for every number of accounts, tabs and         *)
(* ceremonies, and every choice of pages and forms.                        *)
(***************************************************************************)
EXTENDS StepUpPages, TLAPS

---------------------------------------------------------------------------
(* Typing *)

Ceremony == [step: Step, tab: Tab, form: Forms, purpose: Purposes,
             fallback: BOOLEAN, who: SomeUser]

\* The rest of TypeOK in three parts, one for each kind of variable.
SessionTyped ==
  /\ user \in SomeUser
  /\ pending \in SUBSET [run: Run, user: User, purpose: Purposes]
  /\ grant \in SUBSET [user: User, purpose: Purposes]
  /\ challenge \in SUBSET [run: Run, user: User]
DatabaseTyped == factors \in [User -> SUBSET Method] /\ password \in [User -> BOOLEAN]
TabsTyped ==
  /\ page \in [Tab -> Pages]
  /\ ready \in SUBSET (Tab \X Forms)
  /\ sent \in [Tab -> SUBSET Submission]
RunsTyped == run \in [Run -> {Idle} \cup Ceremony]
DoneTyped == done \in SUBSET (User \X Purposes)

LEMMA TypeParts ==
  TypeOK <=> SessionTyped /\ DatabaseTyped /\ TabsTyped /\ RunsTyped /\ DoneTyped
  BY DEF TypeOK, SessionTyped, DatabaseTyped, TabsTyped, RunsTyped, DoneTyped, Ceremony

LEMMA TypePartsAfter ==
  SessionTyped' /\ DatabaseTyped' /\ TabsTyped' /\ RunsTyped' /\ DoneTyped' => TypeOK'
  BY DEF TypeOK, SessionTyped, DatabaseTyped, TabsTyped, RunsTyped, DoneTyped, Ceremony

LEMMA PurposesTyped ==
  /\ \A a \in Action, on \in SomeUser, what \in Name : PurposeOf(a, on, what) \in Purposes
  /\ \A on \in SomeUser, what \in Name, actor \in SomeUser :
       Recovery(on, what, actor) \in Purposes
  /\ \A op \in Name, on \in SomeUser : Form(op, on) \in Forms
  /\ NoForm \in Forms /\ NoPurpose \in Purposes
  <1>1. \A a \in Action, on \in SomeUser, what \in Name : PurposeOf(a, on, what) \in Purposes
    BY DEF PurposeOf, Purposes, SomeUser
  <1>2. \A on \in SomeUser, what \in Name, actor \in SomeUser :
          Recovery(on, what, actor) \in Purposes
    BY DEF Recovery, Purposes, Action
  <1>3. \A op \in Name, on \in SomeUser : Form(op, on) \in Forms
    BY DEF Form, Forms
  <1>4. NoForm \in Forms
    BY DEF NoForm, Forms, SomeUser, Name
  <1>5. NoPurpose \in Purposes
    BY DEF NoPurpose, Purposes, Action, SomeUser, Name
  <1>q. QED BY <1>1, <1>2, <1>3, <1>4, <1>5

\* The forms of a page name an account, or nothing.
LEMMA FormsTyped == ASSUME NEW p \in Pages PROVE FormsOn(p) \subseteq Forms
  <1>1. p.user \in SomeUser /\ User \subseteq SomeUser /\ NoUser \in SomeUser
    BY DEF Pages, SomeUser
  <1>2. AccountForms(p.user) \subseteq Forms
    <2>1. \A kind \in {"passkey", "totp"} : kind \in Name
      BY DEF Name
    <2>q. QED BY <1>1, <2>1, PurposesTyped DEF AccountForms
  <1>3. UsersForms(p.user) \subseteq Forms
    BY <1>1, PurposesTyped DEF UsersForms, Name
  <1>4. SecurityForms \subseteq Forms /\ {Form("enroll", p.user)} \subseteq Forms
    BY <1>1, PurposesTyped DEF SecurityForms, Name
  <1>q. QED BY <1>2, <1>3, <1>4 DEF FormsOn

\* What a page asks for, and what a handler demands, is a purpose.
LEMMA AskedTyped ==
  ASSUME NEW p \in Pages, NEW f \in Forms, NEW e
  PROVE  Asked(p, f, e) \in Purposes
  <1>1. p.user \in SomeUser /\ f.on \in SomeUser /\ f.op \in Name /\ NoUser \in SomeUser
    BY DEF Pages, Forms, SomeUser
  <1>2. UpdateAction(p, f.on, e) \in Action
    BY DEF UpdateAction, Action
  <1>q. QED BY <1>1, <1>2, PurposesTyped DEF Asked, Action, Name

LEMMA DemandedTyped ==
  ASSUME user \in SomeUser, NEW s \in Submission
  PROVE  Demanded(s) \in Purposes
  <1>1. s.form.on \in SomeUser /\ s.form.op \in Name /\ NoUser \in SomeUser
    BY DEF Submission, Forms, SomeUser
  <1>2. ActionOfUpdate(s) \in Action
    BY DEF ActionOfUpdate, Action
  <1>q. QED BY <1>1, <1>2, PurposesTyped DEF Demanded, Action, Name

LEMMA InitTyped == Init => TypeOK
  <1> SUFFICES ASSUME Init PROVE TypeOK
    OBVIOUS
  <1>1. Blank \in Pages
    BY DEF Blank, Pages, SomeUser
  <1>2. SessionTyped /\ DatabaseTyped /\ DoneTyped /\ RunsTyped
    BY DEF Init, SessionTyped, DatabaseTyped, DoneTyped, RunsTyped, SomeUser
  <1>3. TabsTyped
    BY <1>1 DEF Init, TabsTyped
  <1>q. QED BY <1>2, <1>3, TypeParts

\* A ceremony under way is one, and stays one from step to step.
LEMMA UnderWay ==
  ASSUME RunsTyped, NEW c \in Run, run[c].step # "idle"
  PROVE  run[c] \in Ceremony
  BY DEF RunsTyped, Idle

LEMMA GotoTyped ==
  ASSUME RunsTyped, NEW c \in Run, NEW step \in Step, run[c].step # "idle", Goto(c, step)
  PROVE  RunsTyped'
  <1>1. [run[c] EXCEPT !.step = step, !.who = NoUser] \in Ceremony
    BY UnderWay DEF Ceremony, SomeUser
  <1>q. QED BY <1>1 DEF Goto, RunsTyped

LEMMA AsksTyped ==
  ASSUME RunsTyped, NEW c \in Run, NEW step \in Step, NEW who \in SomeUser,
         run[c].step # "idle", run' = [run EXCEPT ![c].step = step, ![c].who = who]
  PROVE  RunsTyped'
  <1>1. [run[c] EXCEPT !.step = step, !.who = who] \in Ceremony
    BY UnderWay DEF Ceremony
  <1>q. QED BY <1>1 DEF RunsTyped

LEMMA FailsTyped ==
  ASSUME RunsTyped, page \in [Tab -> Pages], NEW c \in Run, Fails(c)
  PROVE  RunsTyped' /\ page' \in [Tab -> Pages]
  <1>1. RunsTyped'
    BY DEF Fails, RunsTyped
  <1>2. ASSUME NEW t \in Tab PROVE [page[t] EXCEPT !.busy = FALSE] \in Pages
    BY DEF Pages
  <1>q. QED BY <1>1, <1>2 DEF Fails

LEMMA FidoFailsTyped ==
  ASSUME RunsTyped, page \in [Tab -> Pages], NEW c \in Run, run[c].step # "idle", FidoFails(c)
  PROVE  RunsTyped' /\ page' \in [Tab -> Pages]
  BY FailsTyped, GotoTyped DEF FidoFails, Step

LEMMA RepliesTyped ==
  ASSUME RunsTyped, page \in [Tab -> Pages], NEW c \in Run, NEW step \in Step,
         run[c].step # "idle", Reply(c, step) \/ FidoReply(c, step)
  PROVE  RunsTyped' /\ page' \in [Tab -> Pages]
  BY FailsTyped, FidoFailsTyped, GotoTyped DEF Reply, FidoReply

LEMMA ShownTyped ==
  ASSUME SessionTyped, DatabaseTyped, NEW s
  PROVE  Shown(s) \in Pages
  <1>1. Blank \in Pages
    BY DEF Blank, Pages, SomeUser
  <1>2. ASSUME s \in Screen PROVE Rendered(s) \in Pages
    <2>1. NeedsStepUp(user) \in BOOLEAN
      BY DEF NeedsStepUp
    <2>q. QED
      BY <1>2, <2>1, ScreensExist DEF Rendered, Pages, SessionTyped, DatabaseTyped
  <1>q. QED BY <1>1, <1>2 DEF Shown

LEMMA ReplaceTyped ==
  ASSUME TabsTyped, RunsTyped, NEW t \in Tab, NEW p \in Pages, Replace(t, p)
  PROVE  TabsTyped' /\ RunsTyped'
  BY DEF Replace, TabsTyped, RunsTyped

LEMMA PostTyped ==
  ASSUME TabsTyped, NEW t \in Tab, NEW f \in Forms, Post(t, f)
  PROVE  sent' \in [Tab -> SUBSET Submission]
  <1>1. PICK e \in Entries(f) : sent' = [sent EXCEPT ![t] = {Filled(page[t], f, e)}]
    BY DEF Post
  <1>2. e.newPassword \in BOOLEAN
    <2>1. CASE f.op = "update"
      BY <2>1 DEF Entries
    <2>2. CASE f.op # "update"
      <3>1. e = [newPassword |-> FALSE, toggled |-> FALSE]
        BY <2>2 DEF Entries
      <3>q. QED BY <3>1
    <2>q. QED BY <2>1, <2>2
  <1>3. Enabled(page[t], f.on, e) \in BOOLEAN
    BY DEF Enabled
  <1>4. Filled(page[t], f, e) \in Submission
    BY <1>2, <1>3 DEF Filled, Submission
  <1>q. QED BY <1>1, <1>4 DEF TabsTyped

---------------------------------------------------------------------------
(* Every action keeps the types *)

LEMMA FormIsTyped ==
  ASSUME TabsTyped, NEW t \in Tab, NEW f \in FormsOn(page[t])
  PROVE  f \in Forms
  BY FormsTyped DEF TabsTyped

\* What a ceremony goes on with.
LEMMA ProceedTyped ==
  ASSUME TypeOK, NEW c \in Run, Proceed(c)
  PROVE  SessionTyped' /\ DatabaseTyped' /\ TabsTyped' /\ RunsTyped'
  <1> USE TypeParts
  <1>0. /\ SessionTyped /\ DatabaseTyped /\ TabsTyped /\ RunsTyped
        /\ page \in [Tab -> Pages] /\ sent \in [Tab -> SUBSET Submission]
        /\ ready \in SUBSET (Tab \X Forms)
    BY DEF TabsTyped
  <1>1. CASE GiveUp(c)
    <2>1. RunsTyped' /\ page' \in [Tab -> Pages]
      BY <1>0, <1>1, FailsTyped, FidoFailsTyped DEF GiveUp
    <2>q. QED
      BY <1>0, <1>1, <2>1
      DEF GiveUp, SessionTyped, DatabaseTyped, TabsTyped, sessionVars, databaseVars
  <1>2. CASE StepUpOptions(c)
    <2>1. run[c] \in Ceremony /\ user \in User
      BY <1>0, <1>2, UnderWay DEF StepUpOptions, SessionTyped, SomeUser
    <2>2. pending' \in SUBSET [run: Run, user: User, purpose: Purposes]
      BY <1>2, <2>1 DEF StepUpOptions, Ceremony
    <2>3. RunsTyped' /\ page' \in [Tab -> Pages]
      BY <1>0, <1>2, <2>1, AsksTyped, FidoFailsTyped DEF StepUpOptions, Step, SomeUser
    <2>q. QED
      BY <1>0, <1>2, <2>2, <2>3
      DEF StepUpOptions, SessionTyped, DatabaseTyped, TabsTyped, databaseVars
  <1>3. CASE AnswerPrompt(c)
    <2>1. [run[c] EXCEPT !.step = "finish"] \in Ceremony
      BY <1>0, <1>3, UnderWay DEF AnswerPrompt, Ceremony, Step
    <2>2. RunsTyped'
      BY <1>0, <1>3, <2>1 DEF AnswerPrompt, RunsTyped
    <2>q. QED
      BY <1>0, <1>3, <2>2
      DEF AnswerPrompt, SessionTyped, DatabaseTyped, TabsTyped, sessionVars, databaseVars, tabVars
  <1>4. CASE StepUpFinish(c)
    <2>1. AfterStepUp(c) \in Step
      BY DEF AfterStepUp, Step
    <2>2. RunsTyped' /\ page' \in [Tab -> Pages]
      BY <1>0, <1>4, <2>1, RepliesTyped, FidoFailsTyped DEF StepUpFinish
    <2>3. grant' \in SUBSET [user: User, purpose: Purposes]
      BY <1>0, <1>4 DEF StepUpFinish, Grant, SessionTyped, SomeUser
    <2>q. QED
      BY <1>0, <1>4, <2>2, <2>3
      DEF StepUpFinish, SessionTyped, DatabaseTyped, TabsTyped, databaseVars
  <1>5. ASSUME NEW u \in User, EnterCode(c, u)
        PROVE  SessionTyped' /\ DatabaseTyped' /\ TabsTyped' /\ RunsTyped'
    <2>1. RunsTyped'
      BY <1>0, <1>5, AsksTyped DEF EnterCode, Step, SomeUser
    <2>q. QED
      BY <1>0, <1>5, <2>1
      DEF EnterCode, SessionTyped, DatabaseTyped, TabsTyped, sessionVars, databaseVars, tabVars
  <1>6. CASE VerifyTotp(c)
    <2>1. AfterStepUp(c) \in Step
      BY DEF AfterStepUp, Step
    <2>2. RunsTyped' /\ page' \in [Tab -> Pages]
      BY <1>0, <1>6, <2>1, RepliesTyped DEF VerifyTotp
    <2>3. user \in User
      BY <1>0, <1>6 DEF VerifyTotp, SessionTyped, SomeUser
    <2>4. grant' \in SUBSET [user: User, purpose: Purposes]
      BY <1>0, <1>6, <2>3, UnderWay DEF VerifyTotp, Grant, SessionTyped, Ceremony
    <2>q. QED
      BY <1>0, <1>6, <2>2, <2>4
      DEF VerifyTotp, SessionTyped, DatabaseTyped, TabsTyped, databaseVars
  <1>7. CASE Resume(c)
    <2>1. run[c].tab \in Tab /\ run[c].form \in Forms
      BY <1>0, <1>7, UnderWay DEF Resume, Ceremony
    <2>2. sent' \in [Tab -> SUBSET Submission]
      BY <1>0, <1>7, <2>1, PostTyped DEF Resume
    <2>3. ready' \in SUBSET (Tab \X Forms)
      BY <1>0, <1>7, <2>1 DEF Resume
    <2>4. RunsTyped'
      BY <1>0, <1>7 DEF Resume, RunsTyped
    <2>q. QED
      BY <1>0, <1>7, <2>2, <2>3, <2>4
      DEF Resume, SessionTyped, DatabaseTyped, TabsTyped, sessionVars, databaseVars
  <1>8. CASE RegisterOptions(c)
    <2>1. RunsTyped' /\ page' \in [Tab -> Pages]
      BY <1>0, <1>8, RepliesTyped DEF RegisterOptions, Step
    <2>2. challenge' \in SUBSET [run: Run, user: User]
      BY <1>0, <1>8 DEF RegisterOptions, SessionTyped, SomeUser
    <2>q. QED
      BY <1>0, <1>8, <2>1, <2>2
      DEF RegisterOptions, SessionTyped, DatabaseTyped, TabsTyped, databaseVars
  <1>9. CASE Assign(c)
    <2>1. run[c].tab \in Tab
      BY <1>0, <1>9, UnderWay DEF Assign, Ceremony
    <2>2. TabsTyped' /\ RunsTyped'
      BY <1>0, <1>9, <2>1, ShownTyped, ReplaceTyped DEF Assign
    <2>q. QED
      BY <1>0, <1>9, <2>2 DEF Assign, SessionTyped, DatabaseTyped, sessionVars, databaseVars
  <1>q. QED
    BY <1>1, <1>2, <1>3, <1>4, <1>5, <1>6, <1>7, <1>8, <1>9 DEF Proceed

\* What people do at a tab.
LEMMA UseTyped ==
  ASSUME TypeOK, NEW t \in Tab, Use(t)
  PROVE  SessionTyped' /\ DatabaseTyped' /\ TabsTyped' /\ RunsTyped'
  <1> USE TypeParts
  <1>0. /\ SessionTyped /\ DatabaseTyped /\ TabsTyped /\ RunsTyped
        /\ page \in [Tab -> Pages] /\ sent \in [Tab -> SUBSET Submission]
        /\ ready \in SUBSET (Tab \X Forms)
    BY DEF TabsTyped
  <1>1. ASSUME NEW s \in Screen, Open(t, s)
        PROVE  SessionTyped' /\ DatabaseTyped' /\ TabsTyped' /\ RunsTyped'
    BY <1>0, <1>1, ShownTyped, ReplaceTyped
    DEF Open, SessionTyped, DatabaseTyped, sessionVars, databaseVars
  <1>2. ASSUME NEW f \in FormsOn(page[t]), SubmitUnprotected(t, f)
        PROVE  SessionTyped' /\ DatabaseTyped' /\ TabsTyped' /\ RunsTyped'
    <2>1. sent' \in [Tab -> SUBSET Submission]
      BY <1>0, <1>2, FormIsTyped, PostTyped DEF SubmitUnprotected
    <2>q. QED
      BY <1>0, <1>2, <2>1
      DEF SubmitUnprotected, SessionTyped, DatabaseTyped, TabsTyped, RunsTyped,
          sessionVars, databaseVars
  <1>3. ASSUME NEW f \in FormsOn(page[t]), SubmitReady(t, f)
        PROVE  SessionTyped' /\ DatabaseTyped' /\ TabsTyped' /\ RunsTyped'
    <2>1. sent' \in [Tab -> SUBSET Submission]
      BY <1>0, <1>3, FormIsTyped, PostTyped DEF SubmitReady
    <2>q. QED
      BY <1>0, <1>3, <2>1
      DEF SubmitReady, SessionTyped, DatabaseTyped, TabsTyped, RunsTyped,
          sessionVars, databaseVars
  <1>4. ASSUME NEW f \in FormsOn(page[t]), NEW c \in Run, Submit(c, t, f)
        PROVE  SessionTyped' /\ DatabaseTyped' /\ TabsTyped' /\ RunsTyped'
    <2>1. f \in Forms /\ page[t] \in Pages
      BY <1>0, FormIsTyped
    <2>2. PICK e \in Entries(f), fallback \in BOOLEAN :
            Begin(c, t, f, "options", Asked(page[t], f, e), fallback)
      BY <1>4 DEF Submit, Fallbacks
    <2>3. Asked(page[t], f, e) \in Purposes
      BY <2>1, AskedTyped
    <2>4. RunsTyped'
      BY <1>0, <2>1, <2>2, <2>3 DEF Begin, RunsTyped, Ceremony, Step, SomeUser
    <2>q. QED
      BY <1>0, <1>4, <2>4
      DEF Submit, SessionTyped, DatabaseTyped, TabsTyped, sessionVars, databaseVars, tabVars
  <1>5. ASSUME NEW c \in Run, Register(c, t)
        PROVE  SessionTyped' /\ DatabaseTyped' /\ TabsTyped' /\ RunsTyped'
    <2>1. page[t] \in Pages /\ page[t].user \in SomeUser
      BY <1>0 DEF Pages
    <2>2. Form("register", page[t].user) \in Forms
      BY <2>1, PurposesTyped DEF Name
    <2>3. PurposeOf("auth.webauthn.add", page[t].user, "account") \in Purposes
      BY <2>1, PurposesTyped DEF Name, Action
    <2>4. (IF page[t].stepUp THEN "options" ELSE "register") \in Step
      BY DEF Step
    <2>5. RunsTyped'
      BY <1>0, <1>5, <2>2, <2>3, <2>4 DEF Register, Begin, RunsTyped, Ceremony, SomeUser
    <2>6. [page[t] EXCEPT !.busy = TRUE] \in Pages
      BY <2>1 DEF Pages
    <2>7. page' \in [Tab -> Pages]
      BY <1>0, <1>5, <2>6 DEF Register
    <2>q. QED
      BY <1>0, <1>5, <2>5, <2>7
      DEF Register, SessionTyped, DatabaseTyped, TabsTyped, sessionVars, databaseVars
  <1>6. CASE Refuse(t)
    BY <1>0, <1>6
    DEF Refuse, SessionTyped, DatabaseTyped, TabsTyped, RunsTyped, sessionVars, databaseVars
  <1>q. QED BY <1>1, <1>2, <1>3, <1>4, <1>5, <1>6 DEF Use

\* What happens to the session.
LEMMA SessionStepTyped ==
  ASSUME TypeOK, Session
  PROVE  SessionTyped' /\ DatabaseTyped' /\ TabsTyped' /\ RunsTyped'
  <1> USE TypeParts
  <1>1. CASE \E u \in User : SignIn(u)
    BY <1>1
    DEF SignIn, SessionTyped, DatabaseTyped, TabsTyped, RunsTyped, SomeUser, databaseVars, tabVars
  <1>2. CASE SignOut
    BY <1>2
    DEF SignOut, SessionTyped, DatabaseTyped, TabsTyped, RunsTyped, SomeUser, databaseVars, tabVars
  <1>3. CASE Expire
    BY <1>3
    DEF Expire, SessionTyped, DatabaseTyped, TabsTyped, RunsTyped, databaseVars, tabVars
  <1>q. QED BY <1>1, <1>2, <1>3 DEF Session

\* The handlers that use a confirmation
LEMMA RegisterFinishTyped ==
  ASSUME TypeOK, NEW c \in Run, RegisterFinish(c)
  PROVE  TypeOK'
  <1> USE TypeParts
  <1> DEFINE purpose == PurposeOf("auth.webauthn.add", user, "account")
  <1>0. /\ SessionTyped /\ DatabaseTyped /\ TabsTyped /\ RunsTyped
        /\ page \in [Tab -> Pages] /\ user \in User
    BY DEF TabsTyped, RegisterFinish, SessionTyped, SomeUser
  <1>1. RunsTyped' /\ page' \in [Tab -> Pages]
    BY <1>0, RepliesTyped, FailsTyped DEF RegisterFinish, Step
  <1>2. SessionTyped'
    BY <1>0 DEF RegisterFinish, SessionTyped
  <1>3. DatabaseTyped'
    BY <1>0 DEF RegisterFinish, DatabaseTyped, Add, Method
  <1>4. DoneTyped'
    <2>1. purpose \in Purposes
      BY <1>0, PurposesTyped DEF Action, Name, SomeUser
    <2>2. done' = {} \/ done' = {<<user, purpose>>}
      BY DEF RegisterFinish, Operation
    <2>q. QED BY <1>0, <2>1, <2>2 DEF DoneTyped
  <1>5. TabsTyped'
    BY <1>0, <1>1 DEF RegisterFinish, TabsTyped
  <1>q. QED BY <1>1, <1>2, <1>3, <1>4, <1>5, TypePartsAfter

LEMMA EffectTyped ==
  ASSUME DatabaseTyped, NEW s \in Submission, Effect(s)
  PROVE  DatabaseTyped'
  <1>1. s.enabled \in BOOLEAN
    BY DEF Submission
  <1>2. password' \in [User -> BOOLEAN]
    BY <1>1 DEF Effect, DatabaseTyped
  <1>3. factors' \in [User -> SUBSET Method]
    BY DEF Effect, DatabaseTyped, Add, Method
  <1>q. QED BY <1>2, <1>3 DEF DatabaseTyped

LEMMA HandleTyped ==
  ASSUME TypeOK, NEW t \in Tab, Handle(t)
  PROVE  TypeOK'
  <1> USE TypeParts
  <1>1. PICK s \in sent[t] :
          /\ Admissible(s)
          /\ IF s.form.op = "enroll" /\ ~NeedsStepUp(user)
             THEN Effect(s) /\ UNCHANGED grant /\ done' = {}
             ELSE /\ grant' = {}
                  /\ IF Confirmed(Demanded(s))
                     THEN Effect(s) /\ Operation(Demanded(s))
                     ELSE UNCHANGED databaseVars /\ done' = {}
    BY DEF Handle
  <1>2. s \in Submission
    BY <1>1 DEF TabsTyped
  <1>3. user \in User
    BY <1>1 DEF Admissible, Allowed, SessionTyped, SomeUser
  <1>4. DatabaseTyped'
    BY <1>1, <1>2, EffectTyped DEF databaseVars, DatabaseTyped
  <1>5. DoneTyped'
    <2>1. Demanded(s) \in Purposes
      BY <1>2, DemandedTyped DEF SessionTyped
    <2>2. done' = {} \/ done' = {<<user, Demanded(s)>>}
      BY <1>1 DEF Operation
    <2>q. QED BY <1>3, <2>1, <2>2 DEF DoneTyped
  <1>6. SessionTyped' /\ TabsTyped' /\ RunsTyped'
    BY <1>1 DEF Handle, SessionTyped, TabsTyped, RunsTyped
  <1>q. QED BY <1>4, <1>5, <1>6, TypePartsAfter

LEMMA NextTyped == TypeOK /\ [Next]_vars => TypeOK'
  <1> SUFFICES ASSUME TypeOK, [Next]_vars PROVE TypeOK'
    OBVIOUS
  <1>1. ASSUME SessionTyped' /\ DatabaseTyped' /\ TabsTyped' /\ RunsTyped' /\ done' = {}
        PROVE  TypeOK'
    BY <1>1, TypePartsAfter DEF DoneTyped
  <1>2. CASE ((\E c \in Run : Proceed(c)) \/ (\E t \in Tab : Use(t)) \/ Session) /\ done' = {}
    BY <1>1, <1>2, ProceedTyped, UseTyped, SessionStepTyped
  <1>3. CASE \E c \in Run : RegisterFinish(c)
    BY <1>3, RegisterFinishTyped
  <1>4. CASE \E t \in Tab : Handle(t)
    BY <1>4, HandleTyped
  <1>5. CASE UNCHANGED vars
    BY <1>5 DEF vars, sessionVars, databaseVars, tabVars, TypeOK
  <1>q. QED BY <1>2, <1>3, <1>4, <1>5 DEF Next

\* The session, the accounts, the tabs and the ceremonies are always well typed.
THEOREM TypeCorrect == Spec => []TypeOK
  <1>q. QED BY InitTyped, NextTyped, PTL DEF Spec

---------------------------------------------------------------------------
(* A ceremony and the slots of the session *)

\* Each slot of the session holds one thing.
OneEach ==
  /\ \A p, q \in pending : p = q
  /\ \A g, h \in grant : g = h

\* A challenge that is a ceremony's is for its purpose and for the person it asked;
\* a code was entered by somebody.
CeremoniesBound ==
  \A c \in Run :
    /\ run[c].step \in {"prompt", "finish", "totp"} => run[c].who \in User
    /\ run[c].step \in {"prompt", "finish"} =>
         \A q \in pending : q.run = c => q.user = run[c].who /\ q.purpose = run[c].purpose

IInv == TypeOK /\ OneEach /\ CeremoniesBound

\* A step that leads no ceremony to a prompt and starts no challenge
Asking == {"prompt", "finish", "totp"}
Quiet ==
  /\ pending' \subseteq pending
  /\ \A c \in Run : run'[c] = run[c] \/ run'[c].step \notin Asking

LEMMA QuietKeeps ==
  ASSUME CeremoniesBound, Quiet
  PROVE  CeremoniesBound' /\ AnswersOnTheirWay' \subseteq AnswersOnTheirWay
  <1>1. CeremoniesBound'
    BY DEF CeremoniesBound, Quiet, Asking
  <1>2. ASSUME NEW c \in Run, run'[c].step \in {"finish", "totp"}
        PROVE  run'[c] = run[c] /\ c \in Answering
    BY <1>2 DEF Quiet, Asking, Answering
  <1>q. QED BY <1>1, <1>2 DEF AnswersOnTheirWay, Answering

\* The ways a ceremony goes on without a prompt
LEMMA GotoQuiet ==
  ASSUME RunsTyped, NEW c \in Run, NEW step \in Step \ Asking, Goto(c, step), pending' \subseteq pending
  PROVE  Quiet
  BY DEF Goto, Quiet, Asking, RunsTyped

LEMMA FailsQuiet ==
  ASSUME RunsTyped, NEW c \in Run, Fails(c), pending' \subseteq pending
  PROVE  Quiet
  BY DEF Fails, Quiet, Asking, RunsTyped, Idle

LEMMA RepliesQuiet ==
  ASSUME RunsTyped, NEW c \in Run, NEW step \in Step \ Asking, pending' \subseteq pending,
         Fails(c) \/ FidoFails(c) \/ Reply(c, step) \/ FidoReply(c, step)
  PROVE  Quiet
  <1>1. "code" \in Step \ Asking
    BY DEF Step, Asking
  <1>q. QED BY <1>1, GotoQuiet, FailsQuiet DEF FidoFails, Reply, FidoReply

LEMMA ReplaceQuiet ==
  ASSUME RunsTyped, NEW t, NEW p, Replace(t, p), pending' \subseteq pending
  PROVE  Quiet
  BY DEF Replace, Quiet, Asking, RunsTyped, Idle

LEMMA IdleQuiet ==
  ASSUME RunsTyped, run' = run, pending' \subseteq pending
  PROVE  Quiet
  BY DEF Quiet

\* Where the steps of a ceremony that are not prompts lead
LEMMA StepNames ==
  /\ \A c : AfterStepUp(c) \in Step \ Asking
  /\ "create" \in Step \ Asking /\ "assign" \in Step \ Asking
  /\ "options" \in Step \ Asking /\ "register" \in Step \ Asking
  BY DEF AfterStepUp, Step, Asking

LEMMA ProceedQuiet ==
  ASSUME TypeOK, NEW c \in Run,
         GiveUp(c) \/ StepUpFinish(c) \/ VerifyTotp(c) \/ Resume(c) \/ RegisterOptions(c) \/ Assign(c)
  PROVE  Quiet
  <1>0. RunsTyped
    BY TypeParts
  <1>1. CASE GiveUp(c)
    BY <1>0, <1>1, StepNames, RepliesQuiet DEF GiveUp, sessionVars
  <1>2. CASE StepUpFinish(c)
    BY <1>0, <1>2, StepNames, RepliesQuiet DEF StepUpFinish
  <1>3. CASE VerifyTotp(c)
    BY <1>0, <1>3, StepNames, RepliesQuiet DEF VerifyTotp
  <1>4. CASE Resume(c)
    BY <1>0, <1>4 DEF Resume, Quiet, Asking, RunsTyped, Idle, sessionVars
  <1>5. CASE RegisterOptions(c)
    BY <1>0, <1>5, StepNames, RepliesQuiet DEF RegisterOptions
  <1>6. CASE Assign(c)
    BY <1>0, <1>6, ReplaceQuiet DEF Assign, sessionVars
  <1>q. QED BY <1>1, <1>2, <1>3, <1>4, <1>5, <1>6

LEMMA UseQuiet ==
  ASSUME TypeOK, NEW t \in Tab, Use(t)
  PROVE  Quiet /\ grant' = grant
  <1>0. RunsTyped
    BY TypeParts
  <1>1. ASSUME NEW s \in Screen, Open(t, s) PROVE Quiet /\ grant' = grant
    BY <1>0, <1>1, ReplaceQuiet DEF Open, sessionVars
  <1>2. ASSUME NEW f \in FormsOn(page[t]), SubmitUnprotected(t, f) \/ SubmitReady(t, f)
        PROVE  Quiet /\ grant' = grant
    BY <1>0, <1>2, IdleQuiet DEF SubmitUnprotected, SubmitReady, sessionVars
  <1>3. ASSUME NEW c \in Run, NEW step \in Step \ Asking, NEW f, NEW purpose, NEW fallback,
               Begin(c, t, f, step, purpose, fallback), UNCHANGED sessionVars
        PROVE  Quiet /\ grant' = grant
    BY <1>0, <1>3 DEF Begin, Quiet, Asking, RunsTyped, sessionVars
  <1>4. ASSUME NEW f \in FormsOn(page[t]), NEW c \in Run, Submit(c, t, f)
        PROVE  Quiet /\ grant' = grant
    BY <1>3, <1>4, StepNames DEF Submit
  <1>5. ASSUME NEW c \in Run, Register(c, t) PROVE Quiet /\ grant' = grant
    <2>1. (IF page[t].stepUp THEN "options" ELSE "register") \in Step \ Asking
      BY StepNames
    <2>q. QED BY <1>3, <1>5, <2>1 DEF Register
  <1>6. CASE Refuse(t)
    BY <1>0, <1>6, IdleQuiet DEF Refuse, sessionVars
  <1>q. QED BY <1>1, <1>2, <1>4, <1>5, <1>6 DEF Use

LEMMA SessionQuiet ==
  ASSUME TypeOK, Session
  PROVE  Quiet /\ grant' \subseteq grant /\ (grant' = grant \/ grant' = {}) /\ run' = run
  <1>0. RunsTyped
    BY TypeParts
  <1>q. QED BY <1>0, IdleQuiet DEF Session, SignIn, SignOut, Expire

---------------------------------------------------------------------------
(* The steps that are not quiet *)

LEMMA AskingKeeps ==
  ASSUME IInv, NEW c \in Run,
         StepUpOptions(c) \/ AnswerPrompt(c) \/ \E u \in User : EnterCode(c, u)
  PROVE  OneEach' /\ CeremoniesBound' /\ grant' = grant
  <1>0. RunsTyped /\ SessionTyped /\ OneEach /\ CeremoniesBound
    BY TypeParts DEF IInv
  <1>1. CASE StepUpOptions(c)
    <2>1. user \in User
      BY <1>0, <1>1 DEF StepUpOptions, SessionTyped, SomeUser
    <2>2. grant' = grant /\ pending' = {[run |-> c, user |-> user, purpose |-> run[c].purpose]}
      BY <1>1 DEF StepUpOptions
    <2>3. OneEach'
      BY <1>0, <2>2 DEF OneEach
    <2>4. CASE run' = [run EXCEPT ![c].step = "prompt", ![c].who = user]
      <3>1. /\ run'[c].step = "prompt" /\ run'[c].who = user /\ run'[c].purpose = run[c].purpose
            /\ \A d \in Run \ {c} : run'[d] = run[d]
        BY <1>0, <1>1, <2>4, UnderWay DEF RunsTyped, Ceremony, StepUpOptions
      <3>q. QED BY <1>0, <2>1, <2>2, <2>3, <3>1 DEF CeremoniesBound
    <2>5. CASE FidoFails(c)
      <3>1. run'[c].step \notin Asking /\ \A d \in Run \ {c} : run'[d] = run[d]
        BY <1>0, <1>1, <2>5, UnderWay
        DEF FidoFails, Fails, Goto, RunsTyped, Asking, Idle, Ceremony, StepUpOptions
      <3>q. QED BY <1>0, <2>2, <2>3, <3>1 DEF CeremoniesBound, Asking
    <2>q. QED BY <1>1, <2>4, <2>5 DEF StepUpOptions
  <1>2. CASE AnswerPrompt(c)
    <2>1. /\ run'[c].step = "finish" /\ run[c].step = "prompt"
          /\ run'[c].who = run[c].who /\ run'[c].purpose = run[c].purpose
          /\ \A d \in Run \ {c} : run'[d] = run[d]
      BY <1>0, <1>2, UnderWay DEF AnswerPrompt, RunsTyped, Ceremony
    <2>2. pending' = pending /\ grant' = grant
      BY <1>2 DEF AnswerPrompt, sessionVars
    <2>q. QED BY <1>0, <2>1, <2>2 DEF CeremoniesBound, OneEach
  <1>3. ASSUME NEW u \in User, EnterCode(c, u)
        PROVE  OneEach' /\ CeremoniesBound' /\ grant' = grant
    <2>1. /\ run'[c].step = "totp" /\ run'[c].who = u
          /\ \A d \in Run \ {c} : run'[d] = run[d]
      BY <1>0, <1>3, UnderWay DEF EnterCode, RunsTyped, Ceremony
    <2>2. pending' = pending /\ grant' = grant
      BY <1>3 DEF EnterCode, sessionVars
    <2>q. QED BY <1>0, <2>1, <2>2 DEF CeremoniesBound, OneEach
  <1>q. QED BY <1>1, <1>2, <1>3

\* One grant takes the place of another.
LEMMA OneGrant ==
  ASSUME OneEach, Quiet, grant' \subseteq grant \/ \E u, purpose : Grant(u, purpose)
  PROVE  OneEach'
  BY DEF OneEach, Quiet, Grant

\* The handlers that use a confirmation start no ceremony, and grant nothing.
LEMMA RegisterFinishQuiet ==
  ASSUME TypeOK, NEW c \in Run, RegisterFinish(c)
  PROVE  Quiet /\ grant' \subseteq grant
  <1>0. RunsTyped
    BY TypeParts
  <1>1. Quiet
    BY <1>0, StepNames, RepliesQuiet DEF RegisterFinish
  <1>q. QED BY <1>1 DEF RegisterFinish

LEMMA HandleQuiet ==
  ASSUME TypeOK, NEW t \in Tab, Handle(t)
  PROVE  Quiet /\ grant' \subseteq grant
  BY TypeParts, IdleQuiet DEF Handle

LEMMA InitInv == Init => IInv
  <1>1. Init => OneEach /\ CeremoniesBound
    BY DEF Init, OneEach, CeremoniesBound, Idle
  <1>q. QED BY <1>1, InitTyped DEF IInv

LEMMA NextInv == IInv /\ [Next]_vars => IInv'
  <1> SUFFICES ASSUME IInv, [Next]_vars PROVE OneEach' /\ CeremoniesBound'
    BY NextTyped DEF IInv
  <1>0. TypeOK /\ RunsTyped /\ OneEach /\ CeremoniesBound
    BY TypeParts DEF IInv
  <1>1. ASSUME Quiet, grant' \subseteq grant \/ \E u, purpose : Grant(u, purpose)
        PROVE  OneEach' /\ CeremoniesBound'
    BY <1>0, <1>1, QuietKeeps, OneGrant
  <1>2. ASSUME NEW c \in Run, Proceed(c) PROVE OneEach' /\ CeremoniesBound'
    <2>1. CASE StepUpOptions(c) \/ AnswerPrompt(c) \/ \E u \in User : EnterCode(c, u)
      BY <2>1, AskingKeeps
    <2>2. CASE StepUpFinish(c) \/ VerifyTotp(c)
      <3>1. Quiet
        BY <1>0, <2>2, ProceedQuiet
      <3>2. grant' \subseteq grant \/ \E u, purpose : Grant(u, purpose)
        BY <2>2 DEF StepUpFinish, VerifyTotp
      <3>q. QED BY <1>1, <3>1, <3>2
    <2>3. CASE GiveUp(c) \/ Resume(c) \/ RegisterOptions(c) \/ Assign(c)
      <3>1. Quiet
        BY <1>0, <2>3, ProceedQuiet
      <3>2. grant' = grant
        BY <2>3 DEF GiveUp, Resume, RegisterOptions, Assign, sessionVars
      <3>q. QED BY <1>1, <3>1, <3>2
    <2>q. QED BY <1>2, <2>1, <2>2, <2>3 DEF Proceed
  <1>3. ASSUME NEW t \in Tab, Use(t) PROVE OneEach' /\ CeremoniesBound'
    BY <1>0, <1>1, <1>3, UseQuiet
  <1>4. CASE Session
    BY <1>0, <1>1, <1>4, SessionQuiet
  <1>5. ASSUME NEW c \in Run, RegisterFinish(c) PROVE OneEach' /\ CeremoniesBound'
    BY <1>0, <1>1, <1>5, RegisterFinishQuiet
  <1>6. ASSUME NEW t \in Tab, Handle(t) PROVE OneEach' /\ CeremoniesBound'
    BY <1>0, <1>1, <1>6, HandleQuiet
  <1>7. CASE UNCHANGED vars
    BY <1>0, <1>7 DEF vars, sessionVars, OneEach, CeremoniesBound
  <1>q. QED BY <1>2, <1>3, <1>4, <1>5, <1>6, <1>7 DEF Next

\* The inductive invariant holds in every reachable state.
THEOREM Invariance == Spec => []IInv
  <1>q. QED BY InitInv, NextInv, PTL DEF Spec

---------------------------------------------------------------------------
(* The pages keep the promise of a step-up *)

AnswersTyped == AnswersOnTheirWay \subseteq Run \X User \X Purposes

LEMMA AnswersAreTyped == IInv => AnswersTyped
  <1> SUFFICES ASSUME IInv, NEW c \in Answering
               PROVE  <<c, run[c].who, run[c].purpose>> \in Run \X User \X Purposes
    BY DEF AnswersTyped, AnswersOnTheirWay
  <1>1. c \in Run /\ run[c].step # "idle" /\ run[c].who \in User
    BY DEF Answering, IInv, CeremoniesBound
  <1>2. run[c].purpose \in Purposes
    BY <1>1, UnderWay, TypeParts DEF IInv, Ceremony
  <1>q. QED BY <1>1, <1>2

LEMMA AnswersStayTyped == IInv' => AnswersTyped'
  BY AnswersAreTyped, PTL

LEMMA InitImplements == Init => Contract!Init
  BY DEF Init, Contract!Init, AnswersOnTheirWay, Answering, Held, Idle

\* A step that leaves the confirmation alone, and in which nobody answers
LEMMA LoseStep ==
  ASSUME AnswersOnTheirWay' \subseteq AnswersOnTheirWay, grant' = grant, done' = {}
  PROVE  Contract!Next
  <1>1. Held' = Held
    BY DEF Held
  <1>q. QED BY <1>1 DEF Contract!Next, Contract!Lose

\* The steps in which a person is asked, and may answer: one answer at a time.
LEMMA AnswerStep ==
  ASSUME IInv, IInv', NEW c \in Run, done' = {},
         StepUpOptions(c) \/ AnswerPrompt(c) \/ \E u \in User : EnterCode(c, u)
  PROVE  Contract!Next
  <1>0. RunsTyped /\ grant' = grant
    BY TypeParts, AskingKeeps DEF IInv
  <1>1. run[c].step \in {"options", "prompt", "code"} /\ run[c] \in Ceremony
    BY <1>0, UnderWay DEF StepUpOptions, AnswerPrompt, EnterCode
  <1>2. \A d \in Run \ {c} : run'[d] = run[d]
    BY <1>0
    DEF StepUpOptions, FidoFails, Fails, Goto, AnswerPrompt, EnterCode, RunsTyped
  <1>3. CASE run'[c].step \notin {"finish", "totp"}
    <2>1. \A d \in Answering' : d \in Answering /\ run'[d] = run[d]
      BY <1>2, <1>3 DEF Answering
    <2>2. AnswersOnTheirWay' \subseteq AnswersOnTheirWay
      BY <2>1 DEF AnswersOnTheirWay
    <2>q. QED BY <1>0, <2>2, LoseStep
  <1>4. CASE run'[c].step \in {"finish", "totp"}
    <2> DEFINE a == <<c, run'[c].who, run'[c].purpose>>
    <2>1. Answering' = Answering \cup {c} /\ c \notin Answering
      BY <1>1, <1>2, <1>4 DEF Answering
    <2>2. \A d \in Answering : run'[d] = run[d]
      BY <1>2, <2>1 DEF Answering
    <2>3. AnswersOnTheirWay' = AnswersOnTheirWay \cup {a}
      BY <2>1, <2>2 DEF AnswersOnTheirWay
    <2>4. a \in Contract!Answers
      BY <2>3, AnswersStayTyped DEF AnswersTyped, Contract!Answers
    <2>5. Held' = Held
      BY <1>0 DEF Held
    <2>q. QED BY <2>3, <2>4, <2>5 DEF Contract!Next, Contract!Answer
  <1>q. QED BY <1>3, <1>4

\* A ceremony that goes on from its answer takes this answer away, and no other.
LEMMA AnswerSpent ==
  ASSUME TypeOK, NEW c \in Run, run[c].step \in {"finish", "totp"},
         \A d \in Run \ {c} : run'[d] = run[d], run'[c].step \notin {"finish", "totp"}
  PROVE  AnswersOnTheirWay' = AnswersOnTheirWay \ {<<c, run[c].who, run[c].purpose>>}
  <1>1. Answering' = Answering \ {c}
    BY DEF Answering
  <1>q. QED BY <1>1 DEF AnswersOnTheirWay, Answering

LEMMA CeremonyGoesOn ==
  ASSUME TypeOK, NEW c \in Run, StepUpFinish(c) \/ VerifyTotp(c)
  PROVE  /\ run[c].step \in {"finish", "totp"}
         /\ \A d \in Run \ {c} : run'[d] = run[d]
         /\ run'[c].step \notin {"finish", "totp"}
  <1>1. run[c].step \in {"finish", "totp"}
    BY DEF StepUpFinish, VerifyTotp
  <1>2. RunsTyped
    BY TypeParts
  <1>3. \/ run' = [run EXCEPT ![c].step = AfterStepUp(c), ![c].who = NoUser]
        \/ run' = [run EXCEPT ![c].step = "code", ![c].who = NoUser]
        \/ run' = [run EXCEPT ![c] = Idle]
    BY DEF StepUpFinish, VerifyTotp, FidoReply, Reply, FidoFails, Fails, Goto
  <1>4. AfterStepUp(c) \in {"register", "verified"}
    BY DEF AfterStepUp
  <1>5. run[c] \in Ceremony
    BY <1>1, <1>2, UnderWay
  <1>q. QED BY <1>1, <1>2, <1>3, <1>4, <1>5 DEF RunsTyped, Ceremony, Idle

\* The two steps that accept an answer
LEMMA AcceptStep ==
  ASSUME IInv, NEW c \in Run, StepUpFinish(c) \/ VerifyTotp(c), done' = {}, IInv'
  PROVE  Contract!Next
  <1>0. TypeOK /\ RunsTyped /\ SessionTyped /\ OneEach /\ CeremoniesBound
    BY TypeParts DEF IInv
  <1> DEFINE answer == <<c, run[c].who, run[c].purpose>>
  <1>1. AnswersOnTheirWay' = AnswersOnTheirWay \ {answer}
    BY <1>0, CeremonyGoesOn, AnswerSpent
  <1>2. CASE grant' = grant
    BY <1>1, <1>2, LoseStep
  <1>3. ASSUME Grant(run[c].who, run[c].purpose), run[c].step \in {"finish", "totp"}
        PROVE  Contract!Next
    <2>1. answer \in AnswersOnTheirWay
      BY <1>3 DEF AnswersOnTheirWay, Answering
    <2>2. Held' = {<<run[c].who, run[c].purpose>>}
      BY <1>3 DEF Held, Grant
    <2>q. QED BY <1>1, <2>1, <2>2 DEF Contract!Next, Contract!Accept
  <1>4. CASE VerifyTotp(c)
    BY <1>3, <1>4 DEF VerifyTotp
  <1>5. CASE StepUpFinish(c) /\ Answers(c) /\ \E q \in pending : Grant(user, q.purpose)
    <2>1. PICK q \in pending : Grant(user, q.purpose)
      BY <1>5
    <2>2. q.run = c /\ q.user = user
      BY <1>0, <1>5 DEF Answers, OneEach
    <2>3. run[c].step = "finish"
      BY <1>5 DEF StepUpFinish
    <2>4. run[c].who = user /\ run[c].purpose = q.purpose
      BY <1>0, <2>2, <2>3 DEF CeremoniesBound
    <2>q. QED BY <1>3, <2>1, <2>3, <2>4
  <1>q. QED BY <1>2, <1>4, <1>5 DEF StepUpFinish

\* The steps that may carry out what was confirmed
LEMMA CarryStep ==
  ASSUME IInv, IInv', AnswersOnTheirWay' \subseteq AnswersOnTheirWay, NEW purpose,
         \/ grant' = grant /\ done' = {}
         \/ grant' = {} /\ done' = {}
         \/ grant' = {} /\ Confirmed(purpose) /\ Operation(purpose)
  PROVE  Contract!Next
  <1>1. CASE grant' = grant /\ done' = {}
    BY <1>1, LoseStep
  <1>2. CASE grant' = {} /\ done' = {}
    BY <1>2 DEF Held, Contract!Next, Contract!Drop
  <1>3. CASE grant' = {} /\ Confirmed(purpose) /\ Operation(purpose)
    <2>1. grant = {[user |-> user, purpose |-> purpose]}
      BY <1>3 DEF Confirmed, IInv, OneEach
    <2>2. Held = {<<user, purpose>>}
      BY <2>1 DEF Held
    <2>3. Held' = {}
      BY <1>3 DEF Held
    <2>q. QED BY <1>3, <2>2, <2>3 DEF Operation, Contract!Next, Contract!Carry
  <1>q. QED BY <1>1, <1>2, <1>3

LEMMA NextImplements ==
  ASSUME IInv, [Next]_vars, IInv'
  PROVE  [Contract!Next]_(Contract!vars)
  <1>0. TypeOK /\ CeremoniesBound
    BY DEF IInv
  <1>1. ASSUME NEW c \in Run, Proceed(c), done' = {} PROVE Contract!Next
    <2>1. CASE StepUpOptions(c) \/ AnswerPrompt(c) \/ \E u \in User : EnterCode(c, u)
      BY <1>1, <2>1, AnswerStep
    <2>2. CASE StepUpFinish(c) \/ VerifyTotp(c)
      BY <1>1, <2>2, AcceptStep
    <2>3. CASE GiveUp(c) \/ Resume(c) \/ RegisterOptions(c) \/ Assign(c)
      <3>1. grant' = grant
        BY <2>3 DEF GiveUp, Resume, RegisterOptions, Assign, sessionVars
      <3>2. AnswersOnTheirWay' \subseteq AnswersOnTheirWay
        BY <1>0, <2>3, ProceedQuiet, QuietKeeps
      <3>q. QED BY <1>1, <3>1, <3>2, LoseStep
    <2>q. QED BY <1>1, <2>1, <2>2, <2>3 DEF Proceed
  <1>2. ASSUME NEW t \in Tab, Use(t), done' = {} PROVE Contract!Next
    BY <1>0, <1>2, UseQuiet, QuietKeeps, LoseStep
  <1>3. CASE Session /\ done' = {}
    BY <1>0, <1>3, SessionQuiet, QuietKeeps, CarryStep
  <1>4. ASSUME NEW c \in Run, RegisterFinish(c) PROVE Contract!Next
    <2>1. AnswersOnTheirWay' \subseteq AnswersOnTheirWay
      BY <1>0, <1>4, RegisterFinishQuiet, QuietKeeps
    <2> DEFINE purpose == PurposeOf("auth.webauthn.add", user, "account")
    <2>2. \/ grant' = grant /\ done' = {}
          \/ grant' = {} /\ done' = {}
          \/ grant' = {} /\ Confirmed(purpose) /\ Operation(purpose)
      BY <1>4 DEF RegisterFinish
    <2>q. QED BY <2>1, <2>2, CarryStep
  <1>5. ASSUME NEW t \in Tab, Handle(t) PROVE Contract!Next
    <2>1. AnswersOnTheirWay' \subseteq AnswersOnTheirWay
      BY <1>0, <1>5, HandleQuiet, QuietKeeps
    <2>2. PICK s \in sent[t] :
            \/ grant' = grant /\ done' = {}
            \/ grant' = {} /\ done' = {}
            \/ grant' = {} /\ Confirmed(Demanded(s)) /\ Operation(Demanded(s))
      BY <1>5 DEF Handle
    <2>q. QED BY <2>1, <2>2, CarryStep
  <1>6. CASE UNCHANGED vars
    BY <1>6
    DEF vars, sessionVars, Contract!vars, AnswersOnTheirWay, Answering, Held
  <1>q. QED BY <1>1, <1>2, <1>3, <1>4, <1>5, <1>6 DEF Next

\* Whatever tabs, ceremonies and accounts share a session, an operation is carried
\* out only for what an authenticator of that user was asked about, once for each
\* answer: the pages and the server implement the contract.
THEOREM Implements == Spec => StepUpHolds
  <1>q. QED BY InitImplements, Invariance, NextImplements, PTL DEF Spec, StepUpHolds, Contract!Spec

---------------------------------------------------------------------------
(* An authenticator is added on the word of another *)

\* An operation that is carried out for u adds to the authenticators of u only.
LEMMA RegisterConfirmed ==
  ASSUME TypeOK, NEW u \in User, NEW c \in Run, RegisterFinish(c),
         factors[u] # {}, ~(factors'[u] \subseteq factors[u])
  PROVE  \E d \in done' : d[1] = u /\ d[2].action \in {"auth.webauthn.add", "auth.totp.add"}
  <1> DEFINE purpose == PurposeOf("auth.webauthn.add", user, "account")
  <1>1. Add(user, "webauthn") /\ (NeedsStepUp(user) => Operation(purpose))
    BY DEF RegisterFinish
  <1>2. user = u
    BY <1>1 DEF Add, TypeOK
  <1>3. done' = {<<user, purpose>>}
    BY <1>1, <1>2 DEF NeedsStepUp, Operation
  <1>4. purpose.action = "auth.webauthn.add"
    BY DEF PurposeOf
  <1>q. QED BY <1>2, <1>3, <1>4

LEMMA HandleConfirmed ==
  ASSUME TypeOK, NEW u \in User, NEW t \in Tab, Handle(t),
         factors[u] # {}, ~(factors'[u] \subseteq factors[u])
  PROVE  \E d \in done' : d[1] = u /\ d[2].action \in {"auth.webauthn.add", "auth.totp.add"}
  <1>1. PICK s \in sent[t] :
          \/ Effect(s) /\ s.form.op = "enroll" /\ ~NeedsStepUp(user)
          \/ Effect(s) /\ Operation(Demanded(s))
          \/ UNCHANGED databaseVars
    BY DEF Handle
  <1>2. Effect(s)
    BY <1>1 DEF databaseVars
  <1>3. s.form.op = "enroll"
    <2>1. CASE s.form.op \in {"passkey", "totp", "reset", "delete"}
      BY <1>2, <2>1 DEF Effect, TypeOK
    <2>2. CASE s.form.op \notin {"enroll", "passkey", "totp", "reset", "delete"}
      BY <1>2, <2>2 DEF Effect
    <2>q. QED BY <2>1, <2>2
  <1>4. Add(user, "totp")
    BY <1>2, <1>3 DEF Effect
  <1>5. user = u
    BY <1>4 DEF Add, TypeOK
  <1>6. Operation(Demanded(s))
    BY <1>1, <1>5 DEF NeedsStepUp, databaseVars
  <1>7. Demanded(s).action = "auth.totp.add"
    BY <1>3 DEF Demanded, PurposeOf
  <1>q. QED BY <1>5, <1>6, <1>7 DEF Operation

\* Proceed, Use and Session leave the authenticators alone.
LEMMA OthersKeepFactors ==
  /\ \A c \in Run : Proceed(c) => factors' = factors
  /\ \A t \in Tab : Use(t) => factors' = factors
  /\ Session => factors' = factors
  <1>1. ASSUME NEW c \in Run, Proceed(c) PROVE factors' = factors
    BY <1>1
    DEF Proceed, GiveUp, StepUpOptions, AnswerPrompt, StepUpFinish, EnterCode, VerifyTotp,
        Resume, RegisterOptions, Assign, databaseVars
  <1>2. ASSUME NEW t \in Tab, Use(t) PROVE factors' = factors
    BY <1>2
    DEF Use, Open, SubmitUnprotected, SubmitReady, Submit, Register, Refuse, databaseVars
  <1>3. ASSUME Session PROVE factors' = factors
    BY <1>3 DEF Session, SignIn, SignOut, Expire, databaseVars
  <1>q. QED BY <1>1, <1>2, <1>3

\* An account that has an authenticator gets another only on the word of one of its
\* own, whatever the page it was asked for on believed.
THEOREM AddedOnConfirmation == Spec => FactorsAreConfirmed
  <1> DEFINE Added(u) == factors[u] # {} /\ ~(factors'[u] \subseteq factors[u])
  <1>1. ASSUME TypeOK, [Next]_vars
        PROVE  [\A u \in User :
                  factors[u] # {} /\ ~(factors'[u] \subseteq factors[u])
                    => \E c \in done' :
                         c[1] = u /\ c[2].action \in {"auth.webauthn.add", "auth.totp.add"}]_vars
    <2> SUFFICES ASSUME NEW u \in User, Added(u), Next
                 PROVE  \E c \in done' :
                          c[1] = u /\ c[2].action \in {"auth.webauthn.add", "auth.totp.add"}
      BY <1>1
    <2>1. factors' # factors
      OBVIOUS
    <2>q. QED
      BY <1>1, <2>1, OthersKeepFactors, RegisterConfirmed, HandleConfirmed DEF Next
  <1>q. QED BY <1>1, TypeCorrect, PTL DEF Spec, FactorsAreConfirmed

---------------------------------------------------------------------------
(* The page and the handler compute the same purpose *)

\* The forms of each page, one kind after the other
LEMMA AccountAgrees ==
  ASSUME NEW t \in Tab, page[t] \in Pages, Current(page[t]), page[t].screen = "account",
         NEW f \in FormsOn(page[t])
  PROVE  Agrees(page[t], f)
  <1>1. f \in {Form("passkey", user), Form("totp", user)}
    BY DEF FormsOn, AccountForms, Current
  <1>2. f.on = user /\ f.op \in {"passkey", "totp"}
    BY <1>1 DEF Form
  <1>q. QED BY <1>2 DEF Agrees, Asked, Demanded, Filled, PurposeOf

LEMMA UpdateAgrees ==
  ASSUME NEW t \in Tab, page[t] \in Pages, Current(page[t]), NEW f, f.on \in User, f.op = "update",
         NEW e \in Entries(f)
  PROVE  UpdateAction(page[t], f.on, e) = ActionOfUpdate(Filled(page[t], f, e))
  <1>1. e.newPassword \in BOOLEAN /\ e.toggled \in BOOLEAN
    BY DEF Entries
  <1>2. page[t].password = password /\ password[f.on] \in BOOLEAN
    BY DEF Current, Pages
  <1>3. f.on # NoUser
    BY NoUserIsNoUser
  <1>4. Enabled(page[t], f.on, e) <=> ~(password[f.on] <=> e.toggled)
    BY <1>1, <1>2, <1>3 DEF Enabled
  <1>5. LET s == Filled(page[t], f, e)
        IN /\ s.form = f /\ s.newPassword = e.newPassword
           /\ s.enabled = Enabled(page[t], f.on, e)
    BY DEF Filled
  <1>6. Enabled(page[t], f.on, e) \in BOOLEAN
    BY DEF Enabled
  <1>7. (Enabled(page[t], f.on, e) = password[f.on]) <=> ~e.toggled
    BY <1>1, <1>2, <1>4, <1>6
  <1>q. QED BY <1>5, <1>7 DEF UpdateAction, ActionOfUpdate

LEMMA UsersAgrees ==
  ASSUME NEW t \in Tab, page[t] \in Pages, Current(page[t]), page[t].screen = "users", user \in SomeUser,
         NEW f \in FormsOn(page[t]), ~OwnOnUsersPage(page[t], f)
  PROVE  Agrees(page[t], f)
  <1>0. page[t].user = user /\ user # NoUser /\ user \in User
    BY DEF Current, SomeUser
  <1>1. f \in UsersForms(user)
    BY <1>0 DEF FormsOn
  <1>2. CASE f.op \in {"passkey", "totp", "reset"}
    <2>1. f.on # user
      BY <1>0, <1>2 DEF OwnOnUsersPage
    <2>q. QED BY <1>0, <1>2, <2>1 DEF Agrees, Asked, Demanded, Filled, Recovery
  <1>3. CASE f.op \in {"ticket", "delete"}
    BY <1>0, <1>3 DEF Agrees, Asked, Demanded, Filled, Recovery
  <1>4. CASE f.op = "rename"
    BY <1>4 DEF Agrees, Asked, Demanded, Filled, PurposeOf
  <1>5. CASE f.op = "create"
    BY <1>5 DEF Agrees, Asked, Demanded, Filled, PurposeOf
  <1>6. CASE f.op = "update"
    <2>1. f.on \in User
      BY <1>1, <1>6 DEF UsersForms, Form
    <2>q. QED BY <1>6, <2>1, UpdateAgrees DEF Agrees, Asked, Demanded, Filled
  <1>7. f.op \in {"passkey", "totp", "reset", "ticket", "delete", "rename", "create", "update"}
    BY <1>1 DEF UsersForms, Form
  <1>q. QED BY <1>2, <1>3, <1>4, <1>5, <1>6, <1>7

LEMMA OthersAgree ==
  ASSUME NEW t \in Tab, Current(page[t]), page[t].screen \in {"security", "enroll"},
         NEW f \in FormsOn(page[t])
  PROVE  Agrees(page[t], f)
  <1>1. CASE page[t].screen = "security"
    <2>1. f.op \in {"limits", "fail2ban"}
      BY <1>1 DEF FormsOn, SecurityForms, Form
    <2>q. QED BY <2>1 DEF Agrees, Asked, Demanded, Filled, PurposeOf
  <1>2. CASE page[t].screen = "enroll"
    <2>1. f.op = "enroll"
      BY <1>2 DEF FormsOn, Form
    <2>q. QED BY <2>1 DEF Agrees, Asked, Demanded, Filled, PurposeOf, Current
  <1>q. QED BY <1>1, <1>2

\* A page that shows the accounts as they are asks for the very purpose its form is
\* going to need, whatever people put into it.
THEOREM PurposesAgree == Spec => []AskedIsDemanded
  <1>1. TypeOK => AskedIsDemanded
    <2> SUFFICES ASSUME TypeOK, NEW t \in Tab, Current(page[t]), NEW f \in FormsOn(page[t]),
                        ~OwnOnUsersPage(page[t], f)
                 PROVE  Agrees(page[t], f)
      BY DEF AskedIsDemanded
    <2>1. page[t] \in Pages /\ user \in SomeUser
      BY DEF TypeOK
    <2>2. page[t].screen \in {"account", "users", "security", "enroll"}
      BY <2>1 DEF Pages, FormsOn
    <2>q. QED BY <2>1, <2>2, AccountAgrees, UsersAgrees, OthersAgree
  <1>q. QED BY <1>1, TypeCorrect, PTL

---------------------------------------------------------------------------
(* The own credentials on the users page *)

OwnFormsRefused ==
  \A t \in Tab : Current(page[t]) =>
    \A f \in FormsOn(page[t]) : OwnOnUsersPage(page[t], f) =>
      \A e \in Entries(f) : Asked(page[t], f, e) # Demanded(Filled(page[t], f, e))

\* The forms of the users page for the administrator's own credentials are the ones
\* that cannot be confirmed, in every state and however they are filled in: the page
\* asks for auth.recovery, PasskeyDeleteHandler, TotpKeyDeleteHandler and
\* TotpResetHandler look for the action of self-service.
THEOREM OwnFormsNeverAgree == Spec => []OwnFormsRefused
  <1>1. ASSUME NEW t \in Tab, Current(page[t]), NEW f \in FormsOn(page[t]), OwnOnUsersPage(page[t], f),
               NEW e \in Entries(f)
        PROVE  Asked(page[t], f, e) # Demanded(Filled(page[t], f, e))
    <2>1. /\ page[t].screen = "users" /\ f.op \in {"passkey", "totp", "reset"}
          /\ f.on = user /\ page[t].user = user
      BY <1>1 DEF OwnOnUsersPage, Current
    <2>2. Asked(page[t], f, e).action = "auth.recovery"
      BY <2>1 DEF Asked, Recovery
    <2>3. Filled(page[t], f, e).form = f
      BY DEF Filled
    <2>4. Demanded(Filled(page[t], f, e)).action
            \in {"auth.webauthn.delete", "auth.totp.delete", "auth.totp.reset"}
      BY <2>1, <2>3 DEF Demanded, PurposeOf
    <2>q. QED BY <2>2, <2>4
  <1>2. OwnFormsRefused
    BY <1>1 DEF OwnFormsRefused
  <1>q. QED BY <1>2, PTL

\* No page asks for the action under which TotpResetHandler resets the own account.
AskedSomewhere(purpose) == purpose.action # "auth.totp.reset"

NothingElseConfirmed ==
  /\ \A c \in Run : AskedSomewhere(run[c].purpose)
  /\ \A q \in pending : AskedSomewhere(q.purpose)
  /\ \A g \in grant : AskedSomewhere(g.purpose)
  /\ \A c \in done : AskedSomewhere(c[2])

LEMMA PagesAsk ==
  /\ \A p, f, e : AskedSomewhere(Asked(p, f, e))
  /\ \A u : AskedSomewhere(PurposeOf("auth.webauthn.add", u, "account"))
  /\ AskedSomewhere(Idle.purpose)
  <1>1. \A p, f, e : AskedSomewhere(Asked(p, f, e))
    <2>1. \A a, on, what, actor : PurposeOf(a, on, what).action = a
                                  /\ Recovery(on, what, actor).action = "auth.recovery"
      BY DEF PurposeOf, Recovery
    <2>2. \A p, u, e : UpdateAction(p, u, e) # "auth.totp.reset"
      BY DEF UpdateAction
    <2>q. QED BY <2>1, <2>2 DEF Asked, AskedSomewhere
  <1>q. QED BY <1>1 DEF AskedSomewhere, PurposeOf, Idle, NoPurpose

\* A ceremony that goes on goes on for the same purpose.
LEMMA ProceedAsks ==
  ASSUME RunsTyped, NEW c \in Run, Proceed(c)
  PROVE  \A d \in Run : run'[d].purpose = run[d].purpose \/ run'[d] = Idle
  <1>1. ASSUME NEW step, run[c].step # "idle", Goto(c, step) \/ Fails(c)
        PROVE  \A d \in Run : run'[d].purpose = run[d].purpose \/ run'[d] = Idle
    BY <1>1, UnderWay DEF Goto, Fails, RunsTyped, Ceremony
  <1>2. CASE GiveUp(c) \/ StepUpFinish(c) \/ VerifyTotp(c) \/ RegisterOptions(c)
    BY <1>1, <1>2
    DEF GiveUp, StepUpFinish, VerifyTotp, RegisterOptions, FidoReply, Reply, FidoFails
  <1>3. CASE StepUpOptions(c)
    <2>1. CASE run' = [run EXCEPT ![c].step = "prompt", ![c].who = user]
      BY <1>3, <2>1, UnderWay DEF StepUpOptions, RunsTyped, Ceremony
    <2>2. CASE FidoFails(c)
      BY <1>1, <1>3, <2>2 DEF StepUpOptions, FidoFails
    <2>q. QED BY <1>3, <2>1, <2>2 DEF StepUpOptions
  <1>4. CASE AnswerPrompt(c) \/ \E u \in User : EnterCode(c, u)
    BY <1>4, UnderWay DEF AnswerPrompt, EnterCode, RunsTyped, Ceremony
  <1>5. CASE Resume(c) \/ Assign(c)
    BY <1>5 DEF Resume, Assign, Replace, RunsTyped
  <1>q. QED BY <1>2, <1>3, <1>4, <1>5 DEF Proceed

LEMMA UseAsks ==
  ASSUME RunsTyped, NEW t \in Tab, Use(t)
  PROVE  \A d \in Run : run'[d].purpose = run[d].purpose \/ AskedSomewhere(run'[d].purpose)
  <1>1. ASSUME NEW c \in Run, NEW f, NEW step, NEW purpose, NEW fallback,
               AskedSomewhere(purpose), Begin(c, t, f, step, purpose, fallback)
        PROVE  \A d \in Run : run'[d].purpose = run[d].purpose \/ AskedSomewhere(run'[d].purpose)
    BY <1>1 DEF Begin, RunsTyped
  <1>2. ASSUME NEW c \in Run, NEW f, Submit(c, t, f)
        PROVE  \A d \in Run : run'[d].purpose = run[d].purpose \/ AskedSomewhere(run'[d].purpose)
    BY <1>1, <1>2, PagesAsk DEF Submit
  <1>3. ASSUME NEW c \in Run, Register(c, t)
        PROVE  \A d \in Run : run'[d].purpose = run[d].purpose \/ AskedSomewhere(run'[d].purpose)
    BY <1>1, <1>3, PagesAsk DEF Register
  <1>4. ASSUME NEW s, Open(t, s)
        PROVE  \A d \in Run : run'[d].purpose = run[d].purpose \/ AskedSomewhere(run'[d].purpose)
    BY <1>4, PagesAsk DEF Open, Replace, RunsTyped
  <1>5. ASSUME NEW f, SubmitUnprotected(t, f) \/ SubmitReady(t, f) \/ Refuse(t)
        PROVE  run' = run
    BY <1>5 DEF SubmitUnprotected, SubmitReady, Refuse
  <1>6. CASE Refuse(t)
    BY <1>6 DEF Refuse
  <1>q. QED BY <1>2, <1>3, <1>4, <1>5, <1>6 DEF Use

LEMMA NothingElseConfirmedInitially == Init => NothingElseConfirmed
  BY PagesAsk DEF Init, NothingElseConfirmed

LEMMA NothingElseConfirmedKept ==
  ASSUME TypeOK, NothingElseConfirmed, [Next]_vars
  PROVE  NothingElseConfirmed'
  <1>0. RunsTyped
    BY TypeParts
  <1>1. ASSUME \A d \in Run : run'[d].purpose = run[d].purpose \/ run'[d] = Idle
                              \/ AskedSomewhere(run'[d].purpose),
               \A q \in pending' : q \in pending \/ \E c \in Run : q.purpose = run[c].purpose,
               \A g \in grant' : g \in grant \/ (\E c \in Run : g.purpose = run[c].purpose)
                                 \/ \E q \in pending : g.purpose = q.purpose,
               \A c \in done' : c \in done \/ AskedSomewhere(c[2]) \/ \E g \in grant : c[2] = g.purpose
        PROVE  NothingElseConfirmed'
    BY <1>1, PagesAsk DEF NothingElseConfirmed, AskedSomewhere
  <1>2. ASSUME NEW c \in Run, Proceed(c), done' = {} PROVE NothingElseConfirmed'
    <2>1. \A d \in Run : run'[d].purpose = run[d].purpose \/ run'[d] = Idle
      BY <1>0, <1>2, ProceedAsks
    <2>2. \A q \in pending' : q \in pending \/ \E d \in Run : q.purpose = run[d].purpose
      BY <1>2
      DEF Proceed, GiveUp, StepUpOptions, AnswerPrompt, StepUpFinish, EnterCode, VerifyTotp, Resume,
          RegisterOptions, Assign, sessionVars
    <2>3. \A g \in grant' : g \in grant \/ (\E d \in Run : g.purpose = run[d].purpose)
                            \/ \E q \in pending : g.purpose = q.purpose
      BY <1>2
      DEF Proceed, GiveUp, StepUpOptions, AnswerPrompt, StepUpFinish, EnterCode, VerifyTotp, Resume,
          RegisterOptions, Assign, Grant, sessionVars
    <2>q. QED BY <1>1, <1>2, <2>1, <2>2, <2>3
  <1>3. ASSUME NEW t \in Tab, Use(t), done' = {} PROVE NothingElseConfirmed'
    <2>1. UNCHANGED sessionVars
      BY <1>3 DEF Use, Open, SubmitUnprotected, SubmitReady, Submit, Register, Refuse
    <2>q. QED BY <1>0, <1>1, <1>3, <2>1, UseAsks DEF sessionVars
  <1>4. ASSUME Session, done' = {} PROVE NothingElseConfirmed'
    <2>1. pending' \subseteq pending /\ grant' \subseteq grant /\ run' = run
      BY <1>4, SessionQuiet DEF Quiet
    <2>q. QED BY <1>1, <1>4, <2>1
  <1>5. ASSUME NEW c \in Run, RegisterFinish(c) PROVE NothingElseConfirmed'
    <2>1. pending' = pending /\ grant' \subseteq grant
      BY <1>5 DEF RegisterFinish
    <2>2. \A d \in Run : run'[d].purpose = run[d].purpose \/ run'[d] = Idle
      <3>1. run[c] \in Ceremony /\ (Reply(c, "assign") \/ Fails(c))
        BY <1>0, <1>5, UnderWay DEF RegisterFinish
      <3>q. QED BY <1>0, <3>1 DEF Reply, Goto, Fails, RunsTyped, Ceremony
    <2>3. \A d \in done' : AskedSomewhere(d[2])
      BY <1>5, PagesAsk DEF RegisterFinish, Operation
    <2>q. QED BY <1>1, <2>1, <2>2, <2>3
  <1>6. ASSUME NEW t \in Tab, Handle(t) PROVE NothingElseConfirmed'
    <2>1. pending' = pending /\ grant' \subseteq grant /\ run' = run
      BY <1>6 DEF Handle
    <2>2. \A d \in done' : \E g \in grant : d[2] = g.purpose
      BY <1>6 DEF Handle, Operation, Confirmed
    <2>q. QED BY <1>1, <2>1, <2>2
  <1>7. CASE UNCHANGED vars
    BY <1>1, <1>7 DEF vars, sessionVars
  <1>q. QED BY <1>2, <1>3, <1>4, <1>5, <1>6, <1>7 DEF Next

OwnResetUnconfirmed == \A c \in done : c[2].action # "auth.totp.reset"

\* No order of pages, ceremonies, stale tabs and changes of user makes an administrator
\* reset the own TOTP keys: no page asks for auth.totp.reset, so no confirmation for it
\* is ever held, and TotpResetHandler demands exactly that.
THEOREM SelfResetNeverConfirmed == Spec => []OwnResetUnconfirmed
  <1>1. TypeOK /\ NothingElseConfirmed /\ [Next]_vars => NothingElseConfirmed'
    BY NothingElseConfirmedKept
  <1>2. Spec => []NothingElseConfirmed
    BY <1>1, NothingElseConfirmedInitially, TypeCorrect, PTL DEF Spec
  <1>3. NothingElseConfirmed => OwnResetUnconfirmed
    BY DEF NothingElseConfirmed, AskedSomewhere, OwnResetUnconfirmed
  <1>q. QED BY <1>2, <1>3, PTL

---------------------------------------------------------------------------
(* The buttons of the account page *)

\* Only a form is submitted when its confirmation was accepted.
VerifiedSubmits == \A c \in Run : run[c].step = "verified" => run[c].form.op # "register"

Registers(c, t) == run[c].tab = t /\ run[c].form.op = "register"
BusyInv == BusyWhileRegistering /\ VerifiedSubmits

LEMMA BusyMeans ==
  BusyWhileRegistering <=>
    \A t \in Tab : IF page[t].busy THEN \E c \in Run : \A d \in Run : Registers(d, t) <=> d = c
                                   ELSE \A d \in Run : ~Registers(d, t)
  BY DEF BusyWhileRegistering, Registers

LEMMA BusyMeansAfter ==
  BusyWhileRegistering' <=>
    \A t \in Tab : IF page'[t].busy THEN \E c \in Run : \A d \in Run : Registers(d, t)' <=> d = c
                                    ELSE \A d \in Run : ~Registers(d, t)'
  BY DEF BusyWhileRegistering, Registers

\* A ceremony goes on, and keeps its tab and its form.
GoesOn(c, step) ==
  /\ run'[c].tab = run[c].tab /\ run'[c].form = run[c].form /\ run'[c].step = step
  /\ \A d \in Run \ {c} : run'[d] = run[d]
  /\ page' = page

LEMMA GoingOnKeeps ==
  ASSUME BusyInv, NEW c \in Run, NEW step, step = "verified" => run[c].form.op # "register",
         GoesOn(c, step)
  PROVE  BusyInv'
  <1>1. \A d \in Run, t \in Tab : Registers(d, t)' <=> Registers(d, t)
    BY DEF GoesOn, Registers
  <1>2. BusyWhileRegistering'
    BY <1>1, BusyMeans, BusyMeansAfter DEF GoesOn, BusyInv
  <1>q. QED BY <1>2 DEF GoesOn, BusyInv, VerifiedSubmits

LEMMA FailingKeeps ==
  ASSUME BusyInv, RunsTyped, page \in [Tab -> Pages], NEW c \in Run, run[c].step # "idle", Fails(c)
  PROVE  BusyInv'
  <1>1. run[c].tab \in Tab /\ run[c].tab # NoTab
    BY UnderWay, NoTabIsNoTab DEF Ceremony
  <1>2. run'[c] = Idle /\ \A d \in Run \ {c} : run'[d] = run[d]
    BY DEF Fails, RunsTyped
  <1>3. /\ \A t \in Tab : ~Registers(c, t)'
        /\ \A d \in Run \ {c}, t \in Tab : Registers(d, t)' <=> Registers(d, t)
    BY <1>2 DEF Registers, Idle, NoForm
  <1>4. CASE run[c].form.op = "register"
    <2>0. PICK tab \in Tab : tab = run[c].tab
      BY <1>1
    <2>1. Registers(c, tab) /\ \A d \in Run : Registers(d, tab) => d = c
      BY <2>0, <1>4, BusyMeans DEF BusyInv, Registers
    <2>2. ~page'[tab].busy
      BY <2>0, <1>4 DEF Fails, Pages
    <2>3. \A t \in Tab \ {tab} : page'[t] = page[t] /\ ~Registers(c, t)
      BY <2>0, <1>4 DEF Fails, Registers
    <2>4. \A t \in Tab \ {tab}, d \in Run : Registers(d, t)' <=> Registers(d, t)
      BY <1>3, <2>3
    <2>5. \A d \in Run : ~Registers(d, tab)'
      BY <1>3, <2>1
    <2>6. BusyWhileRegistering'
      BY <2>2, <2>3, <2>4, <2>5, BusyMeans, BusyMeansAfter DEF BusyInv
    <2>q. QED BY <1>2, <2>6 DEF BusyInv, VerifiedSubmits, Idle
  <1>5. CASE run[c].form.op # "register"
    <2>1. \A d \in Run, t \in Tab : Registers(d, t)' <=> Registers(d, t)
      BY <1>3, <1>5 DEF Registers
    <2>2. BusyWhileRegistering'
      BY <1>5, <2>1, BusyMeans, BusyMeansAfter DEF BusyInv, Fails
    <2>q. QED BY <1>2, <2>2 DEF BusyInv, VerifiedSubmits, Idle
  <1>q. QED BY <1>4, <1>5

\* A reply lets a ceremony go on, by another way perhaps, or ends it.
LEMMA RepliesKeep ==
  ASSUME BusyInv, RunsTyped, page \in [Tab -> Pages], NEW c \in Run, run[c].step # "idle",
         NEW step, step = "verified" => run[c].form.op # "register",
         Fails(c) \/ FidoFails(c) \/ Reply(c, step) \/ FidoReply(c, step)
  PROVE  BusyInv'
  <1>1. ASSUME NEW to, Goto(c, to), page' = page PROVE GoesOn(c, to)
    BY <1>1, UnderWay DEF Goto, GoesOn, RunsTyped, Ceremony
  <1>2. CASE Fails(c)
    BY <1>2, FailingKeeps
  <1>3. CASE Goto(c, step) /\ page' = page
    BY <1>1, <1>3, GoingOnKeeps
  <1>4. CASE Goto(c, "code") /\ page' = page
    BY <1>1, <1>4, GoingOnKeeps
  <1>q. QED BY <1>2, <1>3, <1>4 DEF FidoFails, Reply, FidoReply

LEMMA ReplacingKeeps ==
  ASSUME BusyInv, RunsTyped, page \in [Tab -> Pages], NEW t \in Tab, NEW s, Replace(t, Shown(s))
  PROVE  BusyInv'
  <1>1. page' = [page EXCEPT ![t] = Shown(s)] /\ ~Shown(s).busy
    BY DEF Replace, Shown, Rendered, Blank
  <1>2. \A d \in Run : run'[d] = IF run[d].tab = t THEN Idle ELSE run[d]
    BY DEF Replace
  <1>3. \A d \in Run, u \in Tab : Registers(d, u)' <=> Registers(d, u) /\ u # t
    BY <1>2 DEF Registers, Idle, NoForm
  <1>4. BusyWhileRegistering'
    BY <1>1, <1>3, BusyMeans, BusyMeansAfter DEF BusyInv
  <1>q. QED BY <1>2, <1>4 DEF BusyInv, VerifiedSubmits, Idle

LEMMA ProceedKeeps ==
  ASSUME TypeOK, BusyInv, NEW c \in Run, Proceed(c)
  PROVE  BusyInv'
  <1>0. RunsTyped /\ page \in [Tab -> Pages]
    BY TypeParts DEF TabsTyped
  <1>1. AfterStepUp(c) = "verified" => run[c].form.op # "register"
    BY DEF AfterStepUp
  <1>2. CASE GiveUp(c)
    BY <1>0, <1>1, <1>2, RepliesKeep DEF GiveUp
  <1>3. CASE StepUpOptions(c)
    <2>1. CASE run' = [run EXCEPT ![c].step = "prompt", ![c].who = user] /\ page' = page
      <3>1. GoesOn(c, "prompt")
        BY <1>0, <1>3, <2>1, UnderWay DEF StepUpOptions, GoesOn, RunsTyped, Ceremony
      <3>q. QED BY <3>1, GoingOnKeeps
    <2>2. CASE FidoFails(c)
      BY <1>0, <1>1, <1>3, <2>2, RepliesKeep DEF StepUpOptions
    <2>q. QED BY <1>3, <2>1, <2>2 DEF StepUpOptions
  <1>4. CASE AnswerPrompt(c)
    <2>1. GoesOn(c, "finish")
      BY <1>0, <1>4, UnderWay DEF AnswerPrompt, GoesOn, RunsTyped, Ceremony, tabVars
    <2>q. QED BY <2>1, GoingOnKeeps
  <1>5. CASE StepUpFinish(c)
    BY <1>0, <1>1, <1>5, RepliesKeep DEF StepUpFinish
  <1>6. ASSUME NEW u \in User, EnterCode(c, u) PROVE BusyInv'
    <2>1. GoesOn(c, "totp")
      BY <1>0, <1>6, UnderWay DEF EnterCode, GoesOn, RunsTyped, Ceremony, tabVars
    <2>q. QED BY <2>1, GoingOnKeeps
  <1>7. CASE VerifyTotp(c)
    BY <1>0, <1>1, <1>7, RepliesKeep DEF VerifyTotp
  <1>8. CASE Resume(c)
    <2>1. run[c].form.op # "register"
      BY <1>8 DEF Resume, BusyInv, VerifiedSubmits
    <2>2. Fails(c)
      BY <1>8, <2>1 DEF Resume, Fails
    <2>q. QED BY <1>0, <1>8, <2>2, FailingKeeps DEF Resume
  <1>9. CASE RegisterOptions(c)
    BY <1>0, <1>9, RepliesKeep DEF RegisterOptions
  <1>10. CASE Assign(c)
    <2>1. run[c].tab \in Tab
      BY <1>0, <1>10, UnderWay DEF Assign, Ceremony
    <2>2. PICK t \in Tab : t = run[c].tab /\ Replace(t, Shown("account"))
      BY <1>10, <2>1 DEF Assign
    <2>q. QED BY <1>0, <2>2, ReplacingKeeps
  <1>q. QED
    BY <1>2, <1>3, <1>4, <1>5, <1>6, <1>7, <1>8, <1>9, <1>10 DEF Proceed

LEMMA UseKeeps ==
  ASSUME TypeOK, BusyInv, NEW t \in Tab, Use(t)
  PROVE  BusyInv'
  <1>0. RunsTyped /\ page \in [Tab -> Pages]
    BY TypeParts DEF TabsTyped
  <1>1. ASSUME NEW s \in Screen, Open(t, s) PROVE BusyInv'
    BY <1>0, <1>1, ReplacingKeeps DEF Open
  <1>2. ASSUME page' = page, run' = run PROVE BusyInv'
    BY <1>2 DEF BusyInv, BusyWhileRegistering, VerifiedSubmits
  <1>3. ASSUME NEW f, SubmitUnprotected(t, f) \/ SubmitReady(t, f) \/ Refuse(t) PROVE BusyInv'
    BY <1>2, <1>3 DEF SubmitUnprotected, SubmitReady, Refuse
  <1>4. ASSUME NEW f, NEW c \in Run, NEW step, NEW purpose, NEW fallback, run[c] = Idle,
               step # "verified", Begin(c, t, f, step, purpose, fallback)
        PROVE  /\ \A d \in Run, u \in Tab :
                    Registers(d, u)' <=>
                      Registers(d, u) \/ (d = c /\ u = t /\ f.op = "register")
               /\ VerifiedSubmits'
    <2>1. /\ run'[c].tab = t /\ run'[c].form = f /\ run'[c].step = step
          /\ \A d \in Run \ {c} : run'[d] = run[d]
      BY <1>0, <1>4 DEF Begin, RunsTyped
    <2>2. \A u \in Tab : ~Registers(c, u)
      BY <1>4 DEF Registers, Idle, NoForm
    <2>3. ASSUME NEW d \in Run, NEW u \in Tab
          PROVE  Registers(d, u)' <=>
                      Registers(d, u) \/ (d = c /\ u = t /\ f.op = "register")
      <3>1. CASE d = c
        BY <2>1, <2>2, <3>1 DEF Registers
      <3>2. CASE d # c
        BY <2>1, <3>2 DEF Registers
      <3>q. QED BY <3>1, <3>2
    <2>q. QED BY <1>4, <2>1, <2>3 DEF BusyInv, VerifiedSubmits
  <1>5. ASSUME NEW f \in FormsOn(page[t]), NEW c \in Run, Submit(c, t, f) PROVE BusyInv'
    <2>1. f.op # "register"
      BY DEF FormsOn, AccountForms, UsersForms, SecurityForms, Form
    <2>2. PICK purpose, fallback : Begin(c, t, f, "options", purpose, fallback)
      BY <1>5 DEF Submit
    <2>3. run[c] = Idle /\ page' = page
      BY <1>5 DEF Submit, tabVars
    <2>4. /\ \A d \in Run, u \in Tab : Registers(d, u)' <=> Registers(d, u)
          /\ VerifiedSubmits'
      BY <1>4, <2>1, <2>2, <2>3
    <2>5. BusyWhileRegistering'
      BY <2>3, <2>4, BusyMeans, BusyMeansAfter DEF BusyInv
    <2>q. QED BY <2>4, <2>5 DEF BusyInv
  <1>6. ASSUME NEW c \in Run, Register(c, t) PROVE BusyInv'
    <2>1. PICK f, step, purpose, fallback :
            f.op = "register" /\ step # "verified" /\ Begin(c, t, f, step, purpose, fallback)
      BY <1>6 DEF Register, Form
    <2>2. run[c] = Idle /\ ~page[t].busy /\ page' = [page EXCEPT ![t].busy = TRUE]
      BY <1>6 DEF Register
    <2>3. /\ \A d \in Run, u \in Tab : Registers(d, u)' <=> Registers(d, u) \/ (d = c /\ u = t)
          /\ VerifiedSubmits'
      BY <1>4, <2>1, <2>2
    <2>4. page'[t].busy /\ \A u \in Tab \ {t} : page'[u] = page[u]
      BY <1>0, <2>2 DEF Pages
    <2>5. \A d \in Run : ~Registers(d, t)
      BY <2>2, BusyMeans DEF BusyInv
    <2>6. BusyWhileRegistering'
      BY <2>3, <2>4, <2>5, BusyMeans, BusyMeansAfter DEF BusyInv
    <2>q. QED BY <2>3, <2>6 DEF BusyInv
  <1>q. QED BY <1>1, <1>3, <1>5, <1>6 DEF Use

\* The buttons of the account page are disabled exactly while a registration of its
\* tab is under way: no second one at the same time, and no failure that keeps them.
THEOREM BusyExactly == Spec => []BusyWhileRegistering
  <1>1. Init => BusyInv
    BY DEF Init, BusyInv, BusyWhileRegistering, VerifiedSubmits, Idle, NoForm, Blank
  <1>2. TypeOK /\ BusyInv /\ [Next]_vars => BusyInv'
    <2> SUFFICES ASSUME TypeOK, BusyInv, [Next]_vars PROVE BusyInv'
      OBVIOUS
    <2>0. RunsTyped /\ page \in [Tab -> Pages]
      BY TypeParts DEF TabsTyped
    <2>1. ASSUME page' = page, run' = run PROVE BusyInv'
      BY <2>1 DEF BusyInv, BusyWhileRegistering, VerifiedSubmits
    <2>2. CASE Session
      BY <2>1, <2>2 DEF Session, SignIn, SignOut, Expire, tabVars
    <2>3. ASSUME NEW c \in Run, RegisterFinish(c) PROVE BusyInv'
      BY <2>0, <2>3, RepliesKeep DEF RegisterFinish
    <2>4. ASSUME NEW t \in Tab, Handle(t) PROVE BusyInv'
      BY <2>1, <2>4 DEF Handle
    <2>5. CASE UNCHANGED vars
      BY <2>1, <2>5 DEF vars, tabVars
    <2>q. QED BY <2>2, <2>3, <2>4, <2>5, ProceedKeeps, UseKeeps DEF Next
  <1>3. BusyInv => BusyWhileRegistering
    BY DEF BusyInv
  <1>q. QED BY <1>1, <1>2, <1>3, TypeCorrect, PTL DEF Spec
==============================================================================
