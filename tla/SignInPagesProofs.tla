-------------------------- MODULE SignInPagesProofs --------------------------
(***************************************************************************)
(* Proofs about SignInPages for every number of accounts, tabs and         *)
(* ceremonies.                                                             *)
(***************************************************************************)
EXTENDS SignInPages, TLAPS

---------------------------------------------------------------------------
(* Typing *)

Ceremony == [step: Step, tab: Tab, button: Button, who: SomeUser]
PageData == [screen: {"none", "login", "verify", "activate"}, passkey: BOOLEAN, busy: BOOLEAN]

\* The parts of TypeOK
SlotsTyped ==
  /\ user \in SomeUser /\ waiting \in SomeUser
  /\ challenge \in SUBSET [run: Run, user: User, button: {"primary", "mfa"}]
  /\ context \in SUBSET [user: User, purpose: Purpose]
  /\ enrolment \in SUBSET [run: Run, user: User]
AccountsTyped ==
  keys \in [User -> SUBSET Method] /\ ticket \in [User -> {"none"} \cup Purpose]
PagesTyped == page \in [Tab -> PageData]
SentTyped == sent \in [Tab -> SUBSET Submission]
RunsTyped == run \in [Run -> {Idle} \cup Ceremony]

LEMMA TypeParts ==
  TypeOK <=> SlotsTyped /\ AccountsTyped /\ PagesTyped /\ SentTyped /\ RunsTyped
  BY DEF TypeOK, SlotsTyped, AccountsTyped, PagesTyped, SentTyped, RunsTyped, Ceremony, PageData

LEMMA TypePartsAfter ==
  SlotsTyped' /\ AccountsTyped' /\ PagesTyped' /\ SentTyped' /\ RunsTyped' => TypeOK'
  BY DEF TypeOK, SlotsTyped, AccountsTyped, PagesTyped, SentTyped, RunsTyped, Ceremony, PageData

LEMMA InitTyped == Init => TypeOK
  <1> SUFFICES ASSUME Init PROVE TypeOK
    OBVIOUS
  <1>1. SlotsTyped /\ AccountsTyped
    BY DEF Init, SlotsTyped, AccountsTyped, SomeUser, Purpose
  <1>2. PagesTyped /\ SentTyped /\ RunsTyped
    BY DEF Init, PagesTyped, SentTyped, RunsTyped, Blank, PageData
  <1>q. QED BY <1>1, <1>2, TypeParts

\* A ceremony under way is one, and stays one from step to step.
LEMMA UnderWay ==
  ASSUME RunsTyped, NEW c \in Run, run[c].step # "idle"
  PROVE  run[c] \in Ceremony
  BY DEF RunsTyped, Idle

LEMMA GotoTyped ==
  ASSUME RunsTyped, NEW c \in Run, NEW step \in Step, NEW who \in SomeUser, run[c].step # "idle",
         run' = [run EXCEPT ![c].step = step, ![c].who = who]
  PROVE  RunsTyped'
  <1>1. [run[c] EXCEPT !.step = step, !.who = who] \in Ceremony
    BY UnderWay DEF Ceremony
  <1>q. QED BY <1>1 DEF RunsTyped

LEMMA FailsTyped ==
  ASSUME RunsTyped, PagesTyped, NEW c \in Run, Fails(c)
  PROVE  RunsTyped' /\ PagesTyped'
  <1>1. RunsTyped'
    BY DEF Fails, RunsTyped
  <1>2. ASSUME NEW t \in Tab PROVE [page[t] EXCEPT !.busy = FALSE] \in PageData
    BY DEF PagesTyped, PageData
  <1>q. QED BY <1>1, <1>2 DEF Fails, PagesTyped

LEMMA RepliesTyped ==
  ASSUME RunsTyped, PagesTyped, NEW c \in Run, run[c].step # "idle",
         \/ \E step \in Step : Reply(c, step)
         \/ \E u \in User : Prompt(c, u)
  PROVE  RunsTyped' /\ PagesTyped'
  <1>1. NoUser \in SomeUser /\ User \subseteq SomeUser /\ "prompt" \in Step
    BY DEF SomeUser, Step
  <1>2. CASE Fails(c)
    BY <1>2, FailsTyped
  <1>3. ASSUME NEW step \in Step, NEW who \in SomeUser,
               run' = [run EXCEPT ![c].step = step, ![c].who = who], page' = page
        PROVE  RunsTyped' /\ PagesTyped'
    BY <1>3, GotoTyped DEF PagesTyped
  <1>q. QED BY <1>1, <1>2, <1>3 DEF Reply, Prompt, Goto

LEMMA ShownTyped == ASSUME NEW s PROVE Shown(s) \in PageData
  <1>1. HasPasskey(waiting) \in BOOLEAN /\ (context # {}) \in BOOLEAN
    BY DEF HasPasskey
  <1>q. QED BY <1>1 DEF Shown, Blank, PageData

LEMMA ReplaceTyped ==
  ASSUME PagesTyped, SentTyped, RunsTyped, NEW t \in Tab, NEW s, Replace(t, Shown(s))
  PROVE  PagesTyped' /\ SentTyped' /\ RunsTyped'
  BY ShownTyped DEF Replace, PagesTyped, SentTyped, RunsTyped

---------------------------------------------------------------------------
(* Every action keeps the types *)

LEMMA SettleTyped ==
  ASSUME TypeOK, NEW c \in Run, Settle(c)
  PROVE  TypeOK'
  <1>0. SlotsTyped /\ AccountsTyped /\ PagesTyped /\ SentTyped /\ RunsTyped
    BY TypeParts
  <1>1. CASE GiveUp(c)
    <2>1. RunsTyped' /\ PagesTyped'
      BY <1>0, <1>1, FailsTyped DEF GiveUp
    <2>2. SlotsTyped' /\ AccountsTyped' /\ SentTyped'
      BY <1>0, <1>1 DEF GiveUp, SlotsTyped, AccountsTyped, SentTyped, slots, accountVars
    <2>q. QED BY <2>1, <2>2, TypePartsAfter
  <1>2. ASSUME NEW u \in User, LoginOptions(c, u) PROVE TypeOK'
    <2>1. RunsTyped' /\ PagesTyped'
      BY <1>0, <1>2, RepliesTyped DEF LoginOptions
    <2>2. run[c].button \in {"primary", "mfa"}
      BY <1>0, <1>2, UnderWay DEF LoginOptions, Ceremony, Button
    <2>3. SlotsTyped' /\ AccountsTyped' /\ SentTyped'
      BY <1>0, <1>2, <2>2 DEF LoginOptions, SlotsTyped, AccountsTyped, SentTyped, accountVars
    <2>q. QED BY <2>1, <2>3, TypePartsAfter
  <1>3. CASE ActivateOptions(c)
    <2>1. PICK k \in context : enrolment' = {[run |-> c, user |-> k.user]} /\ Prompt(c, k.user)
      BY <1>3 DEF ActivateOptions
    <2>2. k.user \in User
      BY <1>0 DEF SlotsTyped
    <2>3. RunsTyped' /\ PagesTyped'
      BY <1>0, <1>3, <2>1, <2>2, RepliesTyped DEF ActivateOptions
    <2>4. SlotsTyped' /\ AccountsTyped' /\ SentTyped'
      BY <1>0, <1>3, <2>1, <2>2 DEF ActivateOptions, SlotsTyped, AccountsTyped, SentTyped, accountVars
    <2>q. QED BY <2>3, <2>4, TypePartsAfter
  <1>4. CASE AnswerPrompt(c)
    <2>1. [run[c] EXCEPT !.step = "finish"] \in Ceremony
      BY <1>0, <1>4, UnderWay DEF AnswerPrompt, Ceremony, Step
    <2>2. RunsTyped'
      BY <1>0, <1>4, <2>1 DEF AnswerPrompt, RunsTyped
    <2>3. SlotsTyped' /\ AccountsTyped' /\ SentTyped' /\ PagesTyped'
      BY <1>0, <1>4
      DEF AnswerPrompt, SlotsTyped, AccountsTyped, SentTyped, PagesTyped, slots, accountVars
    <2>q. QED BY <2>2, <2>3, TypePartsAfter
  <1>5. CASE LoginFinish(c)
    <2>1. RunsTyped' /\ PagesTyped'
      BY <1>0, <1>5, RepliesTyped, FailsTyped DEF LoginFinish, Step
    <2>2. SlotsTyped' /\ AccountsTyped' /\ SentTyped'
      BY <1>0, <1>5 DEF LoginFinish, SlotsTyped, AccountsTyped, SentTyped, SomeUser, accountVars
    <2>q. QED BY <2>1, <2>2, TypePartsAfter
  <1>6. CASE ActivateFinish(c)
    <2>1. RunsTyped' /\ PagesTyped'
      BY <1>0, <1>6, RepliesTyped, FailsTyped DEF ActivateFinish, Step
    <2>2. \A k \in context : k.user \in User
      BY <1>0 DEF SlotsTyped
    <2>3. user' \in SomeUser /\ waiting' \in SomeUser
      BY <1>0, <1>6, <2>2 DEF ActivateFinish, SlotsTyped, SomeUser
    <2>4. SlotsTyped'
      BY <1>0, <1>6, <2>3 DEF ActivateFinish, SlotsTyped
    <2>5. AccountsTyped'
      BY <1>0, <1>6 DEF ActivateFinish, AccountsTyped, Method, accountVars
    <2>6. SentTyped'
      BY <1>0, <1>6 DEF ActivateFinish, SentTyped
    <2>q. QED BY <2>1, <2>4, <2>5, <2>6, TypePartsAfter
  <1>7. CASE Assign(c)
    <2>1. run[c].tab \in Tab
      BY <1>0, <1>7, UnderWay DEF Assign, Ceremony
    <2>2. PagesTyped' /\ SentTyped' /\ RunsTyped'
      BY <1>0, <1>7, <2>1, ReplaceTyped DEF Assign
    <2>3. SlotsTyped' /\ AccountsTyped'
      BY <1>0, <1>7 DEF Assign, SlotsTyped, AccountsTyped, slots, accountVars
    <2>q. QED BY <2>2, <2>3, TypePartsAfter
  <1>q. QED BY <1>1, <1>2, <1>3, <1>4, <1>5, <1>6, <1>7 DEF Settle

LEMMA UseTyped ==
  ASSUME TypeOK, NEW t \in Tab, Use(t)
  PROVE  TypeOK'
  <1>0. SlotsTyped /\ AccountsTyped /\ PagesTyped /\ SentTyped /\ RunsTyped
    BY TypeParts
  <1>1. ASSUME NEW s, Open(t, s) PROVE TypeOK'
    <2>1. PagesTyped' /\ SentTyped' /\ RunsTyped'
      BY <1>0, <1>1, ReplaceTyped DEF Open
    <2>2. SlotsTyped' /\ AccountsTyped'
      BY <1>0, <1>1 DEF Open, SlotsTyped, AccountsTyped, slots, accountVars
    <2>q. QED BY <2>1, <2>2, TypePartsAfter
  <1>2. ASSUME NEW u \in User, Submit(t, u) PROVE TypeOK'
    <2>1. FormOf(page[t].screen) \subseteq {"password", "code", "ticket"}
      BY DEF FormOf
    <2>2. SentTyped'
      BY <1>0, <1>2, <2>1 DEF Submit, SentTyped, Submission
    <2>3. SlotsTyped' /\ AccountsTyped' /\ PagesTyped' /\ RunsTyped'
      BY <1>0, <1>2
      DEF Submit, SlotsTyped, AccountsTyped, PagesTyped, RunsTyped, slots, accountVars
    <2>q. QED BY <2>2, <2>3, TypePartsAfter
  <1>3. ASSUME NEW c \in Run, Press(c, t) PROVE TypeOK'
    <2>1. ButtonOf(page[t].screen) \in Button
      BY DEF ButtonOf, Button
    <2>2. RunsTyped'
      BY <1>0, <1>3, <2>1 DEF Press, RunsTyped, Ceremony, Step, SomeUser
    <2>3. [page[t] EXCEPT !.busy = TRUE] \in PageData
      BY <1>0 DEF PagesTyped, PageData
    <2>4. SlotsTyped' /\ AccountsTyped' /\ PagesTyped' /\ SentTyped'
      BY <1>0, <1>3, <2>3
      DEF Press, SlotsTyped, AccountsTyped, PagesTyped, SentTyped, slots, accountVars
    <2>q. QED BY <2>2, <2>4, TypePartsAfter
  <1>4. ASSUME Login(t) \/ VerifyTotp(t) \/ VerifyTicket(t) \/ Refuse(t) PROVE TypeOK'
    <2>0. \A s \in sent[t] : s.who \in User
      BY <1>0 DEF SentTyped, Submission
    <2>1. PagesTyped' /\ SentTyped' /\ RunsTyped'
      BY <1>0, <1>4
      DEF Login, VerifyTotp, VerifyTicket, Refuse, Handled, PagesTyped, SentTyped, RunsTyped
    <2>2. AccountsTyped'
      BY <1>0, <1>4 DEF Login, VerifyTotp, VerifyTicket, Refuse, AccountsTyped, accountVars
    <2>3. CASE Login(t) \/ VerifyTotp(t) \/ Refuse(t)
      BY <1>0, <2>0, <2>1, <2>2, <2>3, TypePartsAfter
      DEF Login, VerifyTotp, Refuse, SlotsTyped, SomeUser, slots
    <2>4. CASE VerifyTicket(t)
      <3>1. PICK s \in sent[t] :
              Locked(s.who) /\ context' = {[user |-> s.who, purpose |-> ticket[s.who]]}
        BY <2>4 DEF VerifyTicket
      <3>2. ticket[s.who] \in Purpose
        BY <1>0, <2>0, <3>1 DEF Locked, AccountsTyped
      <3>3. context' \in SUBSET [user: User, purpose: Purpose]
        BY <2>0, <3>1, <3>2
      <3>4. \/ user' = NoUser /\ waiting' = NoUser /\ challenge' = {} /\ enrolment' = {}
            \/ UNCHANGED <<user, waiting, challenge, enrolment>>
        BY <2>4 DEF VerifyTicket
      <3>5. SlotsTyped'
        BY <1>0, <3>3, <3>4 DEF SlotsTyped, SomeUser
      <3>q. QED BY <2>1, <2>2, <3>5, TypePartsAfter
    <2>q. QED BY <1>4, <2>3, <2>4
  <1>q. QED BY <1>1, <1>2, <1>3, <1>4 DEF Use

LEMMA NextTyped == TypeOK /\ [Next]_vars => TypeOK'
  <1> SUFFICES ASSUME TypeOK, [Next]_vars PROVE TypeOK'
    OBVIOUS
  <1>0. SlotsTyped /\ AccountsTyped /\ PagesTyped /\ SentTyped /\ RunsTyped
    BY TypeParts
  <1>1. CASE SignOut \/ Expire
    <2>1. SlotsTyped'
      BY <1>0, <1>1 DEF SignOut, Expire, SlotsTyped, SomeUser
    <2>2. AccountsTyped' /\ PagesTyped' /\ SentTyped' /\ RunsTyped'
      BY <1>0, <1>1
      DEF SignOut, Expire, AccountsTyped, PagesTyped, SentTyped, RunsTyped, accountVars
    <2>q. QED BY <2>1, <2>2, TypePartsAfter
  <1>2. ASSUME NEW u \in User, Issue(u) PROVE TypeOK'
    BY <1>2 DEF Issue, TypeOK, Purpose, slots
  <1>3. CASE UNCHANGED vars
    BY <1>3 DEF vars, TypeOK, slots, accountVars
  <1>q. QED BY <1>1, <1>2, <1>3, SettleTyped, UseTyped DEF Next

\* The session, the accounts, the tabs and the ceremonies are always well typed.
THEOREM TypeCorrect == Spec => []TypeOK
  <1>q. QED BY InitTyped, NextTyped, PTL DEF Spec

---------------------------------------------------------------------------
(* A ceremony and the slots of the session *)

\* A challenge that is a ceremony's is for the person it asked.
CeremoniesBound ==
  \A c \in Run : run[c].step \in {"prompt", "finish"} =>
    /\ run[c].who \in User
    /\ run[c].button # "activate" => \A q \in challenge : q.run = c => q.user = run[c].who
    /\ run[c].button = "activate" => \A q \in enrolment : q.run = c => q.user = run[c].who

IInv == TypeOK /\ CeremoniesBound

\* A step that leads no ceremony to a prompt, starts no challenge and submits nothing
Asking == {"prompt", "finish"}
Quiet ==
  /\ challenge' \subseteq challenge /\ enrolment' \subseteq enrolment
  /\ \A c \in Run : run'[c] = run[c] \/ run'[c].step \notin Asking

LEMMA QuietKeeps == ASSUME CeremoniesBound, Quiet PROVE CeremoniesBound'
  BY DEF CeremoniesBound, Quiet, Asking

\* What is on its way comes from a prompt or from a form.
FromPrompt(x) == \E c \in Run : run[c].step = "finish" /\ x = <<c, run[c].who, "passkey">>
FromForm(x, t) == \E s \in sent[t] : s.form # "ticket" /\ x = <<t, s.who, s.form>>

LEMMA OnItsWayMeans ==
  /\ \A x : x \in OnItsWay <=> FromPrompt(x) \/ \E t \in Tab : FromForm(x, t)
  /\ \A x : x \in OnItsWay' <=> FromPrompt(x)' \/ \E t \in Tab : FromForm(x, t)'
  BY DEF OnItsWay, FromPrompt, FromForm

LEMMA QuietShows ==
  ASSUME Quiet, \A t \in Tab : sent'[t] \subseteq sent[t]
  PROVE  OnItsWay' \subseteq OnItsWay
  <1>1. \A x : FromPrompt(x)' => FromPrompt(x)
    <2>1. ASSUME NEW c \in Run, run'[c].step = "finish"
          PROVE  run'[c] = run[c]
      BY <2>1 DEF Quiet, Asking
    <2>q. QED BY <2>1 DEF FromPrompt
  <1>2. \A x : \A t \in Tab : FromForm(x, t)' => FromForm(x, t)
    BY DEF FromForm
  <1>q. QED BY <1>1, <1>2, OnItsWayMeans

LEMMA RepliesQuiet ==
  ASSUME RunsTyped, NEW c \in Run, run[c].step # "idle", Reply(c, "assign") \/ Fails(c)
  PROVE  \A d \in Run : run'[d] = run[d] \/ run'[d].step \notin Asking
  <1>1. CASE Fails(c)
    BY <1>1 DEF Fails, Asking, RunsTyped, Idle
  <1>2. CASE Goto(c, "assign")
    BY <1>2, UnderWay DEF Goto, Asking, RunsTyped, Ceremony
  <1>q. QED BY <1>1, <1>2 DEF Reply

LEMMA ReplaceQuiet ==
  ASSUME SentTyped, NEW t \in Tab, NEW p, Replace(t, p)
  PROVE  /\ \A d \in Run : run'[d] = run[d] \/ run'[d].step \notin Asking
         /\ \A u \in Tab : sent'[u] \subseteq sent[u]
  BY DEF Replace, Asking, Idle, SentTyped

\* The steps of a ceremony that are not prompts
LEMMA SettleQuiet ==
  ASSUME TypeOK, NEW c \in Run, GiveUp(c) \/ LoginFinish(c) \/ ActivateFinish(c) \/ Assign(c)
  PROVE  Quiet /\ \A t \in Tab : sent'[t] \subseteq sent[t]
  <1>0. RunsTyped /\ SentTyped
    BY TypeParts
  <1>1. CASE GiveUp(c)
    BY <1>0, <1>1, RepliesQuiet DEF GiveUp, Quiet, slots
  <1>2. CASE LoginFinish(c)
    BY <1>0, <1>2, RepliesQuiet DEF LoginFinish, Quiet
  <1>3. CASE ActivateFinish(c)
    <2>1. run[c].step # "idle" /\ (Reply(c, "assign") \/ Fails(c))
      BY <1>3 DEF ActivateFinish
    <2>2. challenge' \subseteq challenge /\ enrolment' = {} /\ sent' = sent
      BY <1>3 DEF ActivateFinish
    <2>q. QED BY <1>0, <2>1, <2>2, RepliesQuiet DEF Quiet
  <1>4. CASE Assign(c)
    <2>1. run[c].tab \in Tab
      BY <1>0, <1>4, UnderWay DEF Assign, Ceremony
    <2>2. PICK t \in Tab, s \in {"login", "none"} : Replace(t, Shown(s))
      BY <1>4, <2>1 DEF Assign
    <2>q. QED BY <1>0, <1>4, <2>2, ReplaceQuiet DEF Assign, Quiet, slots
  <1>q. QED BY <1>1, <1>2, <1>3, <1>4

\* What people do at a tab, except that a form is submitted
LEMMA UseQuiet ==
  ASSUME TypeOK, NEW t \in Tab, Use(t)
  PROVE  /\ Quiet
         /\ (\A u \in Tab : sent'[u] \subseteq sent[u]) \/ (user' = user /\ waiting' = waiting)
  <1>0. RunsTyped /\ SentTyped
    BY TypeParts
  <1>1. ASSUME NEW s, Open(t, s) PROVE Quiet /\ user' = user /\ waiting' = waiting
    BY <1>0, <1>1, ReplaceQuiet DEF Open, Quiet, slots
  <1>2. ASSUME NEW u \in User, Submit(t, u) PROVE Quiet /\ user' = user /\ waiting' = waiting
    BY <1>2 DEF Submit, Quiet, slots
  <1>3. ASSUME NEW c \in Run, Press(c, t) PROVE Quiet /\ user' = user /\ waiting' = waiting
    BY <1>0, <1>3 DEF Press, Quiet, slots, RunsTyped, Asking
  <1>4. ASSUME Login(t) \/ VerifyTotp(t) \/ VerifyTicket(t) \/ Refuse(t)
        PROVE  Quiet /\ \A u \in Tab : sent'[u] \subseteq sent[u]
    <2>1. run' = run /\ \A u \in Tab : sent'[u] \subseteq sent[u]
      BY <1>0, <1>4 DEF Login, VerifyTotp, VerifyTicket, Refuse, Handled, SentTyped
    <2>2. challenge' \subseteq challenge /\ enrolment' \subseteq enrolment
      BY <1>4 DEF Login, VerifyTotp, VerifyTicket, Refuse, slots
    <2>q. QED BY <2>1, <2>2 DEF Quiet
  <1>q. QED BY <1>1, <1>2, <1>3, <1>4 DEF Use

LEMMA SessionQuiet ==
  ASSUME SignOut \/ Expire \/ \E u \in User : Issue(u)
  PROVE  Quiet /\ sent' = sent
  BY DEF SignOut, Expire, Issue, Quiet, slots

\* The steps to a prompt, and its answer
LEMMA AskingKeeps ==
  ASSUME IInv, NEW c \in Run,
         (\E u \in User : LoginOptions(c, u)) \/ ActivateOptions(c) \/ AnswerPrompt(c)
  PROVE  CeremoniesBound' /\ user' = user /\ waiting' = waiting
  <1>0. TypeOK /\ RunsTyped /\ SlotsTyped /\ CeremoniesBound
    BY TypeParts DEF IInv
  <1>1. ASSUME NEW u \in User, Prompt(c, u), run[c].step = "options",
               \/ /\ run[c].button # "activate"
                  /\ enrolment' = enrolment /\ \A q \in challenge' : q.run = c /\ q.user = u
               \/ /\ run[c].button = "activate"
                  /\ challenge' = challenge /\ \A q \in enrolment' : q.run = c /\ q.user = u
        PROVE  CeremoniesBound'
    <2>1. \A d \in Run \ {c} : run'[d] = run[d]
      <3>1. CASE Fails(c)
        BY <1>0, <3>1 DEF Fails, RunsTyped
      <3>2. CASE run' = [run EXCEPT ![c].step = "prompt", ![c].who = u]
        BY <1>0, <3>2 DEF RunsTyped
      <3>q. QED BY <1>1, <3>1, <3>2 DEF Prompt
    <2>2. CASE Fails(c)
      BY <1>0, <1>1, <2>1, <2>2 DEF CeremoniesBound, Fails, RunsTyped, Idle
    <2>3. CASE run' = [run EXCEPT ![c].step = "prompt", ![c].who = u]
      <3>1. run'[c].who = u /\ run'[c].button = run[c].button
        BY <1>0, <1>1, <2>3, UnderWay DEF RunsTyped, Ceremony
      <3>q. QED BY <1>0, <1>1, <2>1, <3>1 DEF CeremoniesBound
    <2>q. QED BY <1>1, <2>2, <2>3 DEF Prompt
  <1>2. ASSUME NEW u \in User, LoginOptions(c, u)
        PROVE  CeremoniesBound' /\ user' = user /\ waiting' = waiting
    BY <1>1, <1>2 DEF LoginOptions
  <1>3. CASE ActivateOptions(c)
    <2>1. PICK k \in context : enrolment' = {[run |-> c, user |-> k.user]} /\ Prompt(c, k.user)
      BY <1>3 DEF ActivateOptions
    <2>2. k.user \in User
      BY <1>0 DEF SlotsTyped
    <2>3. \A q \in enrolment' : q.run = c /\ q.user = k.user
      BY <2>1
    <2>4. PICK u \in User : u = k.user
      BY <2>2
    <2>q. QED BY <1>1, <1>3, <2>1, <2>3, <2>4 DEF ActivateOptions
  <1>4. CASE AnswerPrompt(c)
    <2>1. /\ run'[c].who = run[c].who /\ run'[c].button = run[c].button
          /\ \A d \in Run \ {c} : run'[d] = run[d]
      BY <1>0, <1>4, UnderWay DEF AnswerPrompt, RunsTyped, Ceremony
    <2>q. QED BY <1>0, <1>4, <2>1 DEF AnswerPrompt, CeremoniesBound, slots
  <1>q. QED BY <1>2, <1>3, <1>4

LEMMA InitInv == Init => IInv
  BY InitTyped DEF Init, IInv, CeremoniesBound, Idle

LEMMA NextInv == IInv /\ [Next]_vars => IInv'
  <1> SUFFICES ASSUME IInv, [Next]_vars PROVE CeremoniesBound'
    BY NextTyped DEF IInv
  <1>0. TypeOK /\ CeremoniesBound
    BY DEF IInv
  <1>1. ASSUME NEW c \in Run, Settle(c) PROVE CeremoniesBound'
    BY <1>0, <1>1, AskingKeeps, SettleQuiet, QuietKeeps DEF Settle
  <1>2. ASSUME NEW t \in Tab, Use(t) PROVE CeremoniesBound'
    BY <1>0, <1>2, UseQuiet, QuietKeeps
  <1>3. ASSUME SignOut \/ Expire \/ \E u \in User : Issue(u) PROVE CeremoniesBound'
    BY <1>0, <1>3, SessionQuiet, QuietKeeps
  <1>4. CASE UNCHANGED vars
    BY <1>0, <1>4 DEF vars, slots, CeremoniesBound
  <1>q. QED BY <1>1, <1>2, <1>3, <1>4 DEF Next

\* The inductive invariant holds in every reachable state.
THEOREM Invariance == Spec => []IInv
  <1>q. QED BY InitInv, NextInv, PTL DEF Spec

---------------------------------------------------------------------------
(* The pages take on an identity only from its owner *)

OnItsWayTyped == OnItsWay \subseteq (Run \cup Tab) \X User \X {"passkey", "password", "code"}

LEMMA OwnersShow == IInv => OnItsWayTyped
  <1> SUFFICES ASSUME IInv, NEW x \in OnItsWay
               PROVE  x \in (Run \cup Tab) \X User \X {"passkey", "password", "code"}
    BY DEF OnItsWayTyped
  <1>1. CASE FromPrompt(x)
    BY <1>1 DEF FromPrompt, IInv, CeremoniesBound
  <1>2. ASSUME NEW t \in Tab, FromForm(x, t)
        PROVE  x \in (Run \cup Tab) \X User \X {"passkey", "password", "code"}
    BY <1>2 DEF FromForm, IInv, TypeOK, Submission
  <1>q. QED BY <1>1, <1>2, OnItsWayMeans

LEMMA InitImplements == Init => Contract!Init
  BY OnItsWayMeans DEF Init, Contract!Init, FromPrompt, FromForm, Idle

\* A credential that is shown is one more on its way.
LEMMA PromptShows ==
  ASSUME IInv, NEW c \in Run, AnswerPrompt(c)
  PROVE  Contract!Next
  <1> DEFINE a == <<c, run[c].who, "passkey">>
  <1>1. run[c].who \in User /\ sent' = sent /\ user' = user /\ waiting' = waiting
    BY DEF AnswerPrompt, IInv, CeremoniesBound, slots
  <1>2. run'[c].who = run[c].who /\ \A d \in Run \ {c} : run'[d] = run[d]
    BY TypeParts, UnderWay DEF AnswerPrompt, IInv, RunsTyped, Ceremony
  <1>3. \A x : FromPrompt(x)' => (FromPrompt(x) \/ x = a)
    BY <1>2 DEF FromPrompt
  <1>4. \A x : \A t \in Tab : FromForm(x, t)' => FromForm(x, t)
    BY <1>1 DEF FromForm
  <1>5. OnItsWay' \subseteq OnItsWay \cup {a}
    BY <1>3, <1>4, OnItsWayMeans
  <1>6. a \in (Run \cup Tab) \X User \X Contract!Kind
    BY <1>1 DEF Contract!Kind
  <1>q. QED BY <1>1, <1>5, <1>6 DEF Contract!Next, Contract!Show

LEMMA FormShows ==
  ASSUME IInv, NEW t \in Tab, NEW u \in User, Submit(t, u)
  PROVE  Contract!Next
  <1>1. user' = user /\ waiting' = waiting /\ run' = run
    BY DEF Submit, slots
  <1>2. PICK f \in FormOf(page[t].screen) : sent' = [sent EXCEPT ![t] = {[form |-> f, who |-> u]}]
    BY DEF Submit
  <1>3. f \in {"password", "code", "ticket"}
    BY <1>2 DEF FormOf
  <1> DEFINE a == <<t, u, f>>
  <1>4. \A x : FromPrompt(x)' => FromPrompt(x)
    BY <1>1 DEF FromPrompt
  <1>5. \A d \in Tab : sent'[d] = sent[d] \/ (d = t /\ sent'[d] = {[form |-> f, who |-> u]})
    BY <1>2 DEF IInv, TypeOK
  <1>6. \A x : \A d \in Tab : (FromForm(x, d)' => FromForm(x, d) \/ (x = a /\ f # "ticket"))
    BY <1>5 DEF FromForm
  <1>7. CASE f = "ticket"
    <2>1. OnItsWay' \subseteq OnItsWay
      BY <1>4, <1>6, <1>7, OnItsWayMeans
    <2>q. QED BY <1>1, <2>1 DEF Contract!Next, Contract!Leave
  <1>8. CASE f # "ticket"
    <2>1. OnItsWay' \subseteq OnItsWay \cup {a}
      BY <1>4, <1>6, OnItsWayMeans
    <2>2. a \in (Run \cup Tab) \X User \X Contract!Kind
      BY <1>3, <1>8 DEF Contract!Kind
    <2>q. QED BY <1>1, <2>1, <2>2 DEF Contract!Next, Contract!Show
  <1>q. QED BY <1>7, <1>8

LEMMA LeaveStep ==
  ASSUME OnItsWay' \subseteq OnItsWay, user' \in {user, NoUser}, waiting' \in {waiting, NoUser}
  PROVE  Contract!Next
  BY DEF Contract!Next, Contract!Leave

\* A prompt that was asked for, and is not on its way yet
LEMMA PromptingShowsNothing ==
  ASSUME IInv, NEW c \in Run, (\E u \in User : LoginOptions(c, u)) \/ ActivateOptions(c)
  PROVE  Contract!Next
  <1>1. user' = user /\ waiting' = waiting /\ sent' = sent
    BY DEF LoginOptions, ActivateOptions
  <1>2. PICK u : Prompt(c, u)
    BY DEF LoginOptions, ActivateOptions
  <1>3. run[c].step = "options"
    BY DEF LoginOptions, ActivateOptions
  <1>4. RunsTyped /\ run[c] \in Ceremony
    BY <1>3, TypeParts, UnderWay DEF IInv
  <1>5. /\ \A d \in Run \ {c} : run'[d] = run[d]
        /\ run'[c].step # "finish"
    <2>1. CASE Fails(c)
      BY <1>4, <2>1 DEF Fails, RunsTyped, Idle
    <2>2. CASE run' = [run EXCEPT ![c].step = "prompt", ![c].who = u]
      BY <1>4, <2>2 DEF RunsTyped, Ceremony
    <2>q. QED BY <1>2, <2>1, <2>2 DEF Prompt
  <1>6. \A x : FromPrompt(x)' => FromPrompt(x)
    BY <1>5 DEF FromPrompt
  <1>7. \A x : \A t \in Tab : FromForm(x, t)' => FromForm(x, t)
    BY <1>1 DEF FromForm
  <1>q. QED BY <1>1, <1>6, <1>7, OnItsWayMeans, LeaveStep

\* A ceremony that ends takes its passkey away, a form that is handled what it said.
LEMMA PromptSpent ==
  ASSUME IInv, IInv', NEW c \in Run, run'[c].step # "finish", OnItsWay' \subseteq OnItsWay
  PROVE  \A u : OnItsWay' \subseteq OnItsWay \ {<<c, u, "passkey">>}
  <1> SUFFICES ASSUME NEW u, <<c, u, "passkey">> \in OnItsWay' PROVE FALSE
    OBVIOUS
  <1>1. CASE FromPrompt(<<c, u, "passkey">>)'
    BY <1>1 DEF FromPrompt
  <1>2. ASSUME NEW t \in Tab, FromForm(<<c, u, "passkey">>, t)' PROVE FALSE
    BY <1>2 DEF FromForm, IInv, TypeOK, Submission
  <1>q. QED BY <1>1, <1>2, OnItsWayMeans

LEMMA FormSpent ==
  ASSUME NEW t \in Tab, sent'[t] = {}, OnItsWay' \subseteq OnItsWay, NEW u,
         NEW kind \in {"password", "code"}
  PROVE  OnItsWay' \subseteq OnItsWay \ {<<t, u, kind>>}
  <1> SUFFICES ASSUME <<t, u, kind>> \in OnItsWay' PROVE FALSE
    OBVIOUS
  <1>1. CASE FromPrompt(<<t, u, kind>>)'
    BY <1>1 DEF FromPrompt
  <1>2. ASSUME NEW d \in Tab, FromForm(<<t, u, kind>>, d)' PROVE FALSE
    BY <1>2 DEF FromForm
  <1>q. QED BY <1>1, <1>2, OnItsWayMeans

\* An identity that is taken on with a passkey
LEMMA EnterStep ==
  ASSUME IInv, IInv', OnItsWay' \subseteq OnItsWay,
         NEW c \in Run, run[c].step = "finish", run'[c].step # "finish", run[c].who \in User,
         user' = run[c].who, waiting' \in {waiting, NoUser}
  PROVE  Contract!Next
  <1>1. <<c, run[c].who, "passkey">> \in OnItsWay
    BY OnItsWayMeans DEF FromPrompt
  <1>2. OnItsWay' \subseteq OnItsWay \ {<<c, run[c].who, "passkey">>}
    BY PromptSpent
  <1>3. Contract!Arrives(run[c].who, "passkey")
    BY <1>1, <1>2 DEF Contract!Arrives
  <1>q. QED BY <1>3 DEF Contract!Next, Contract!Enter

\* The ceremony whose passkey arrived goes on to a page, or ends.
LEMMA FinishEnds ==
  ASSUME IInv, NEW c \in Run, LoginFinish(c) \/ ActivateFinish(c)
  PROVE  run[c].step = "finish" /\ run'[c].step # "finish"
  <1>1. run[c].step = "finish" /\ (Reply(c, "assign") \/ Fails(c))
    BY DEF LoginFinish, ActivateFinish
  <1>2. RunsTyped /\ run[c] \in Ceremony
    BY <1>1, TypeParts, UnderWay DEF IInv
  <1>q. QED BY <1>1, <1>2 DEF Reply, Goto, Fails, RunsTyped, Ceremony, Idle

LEMMA LoginFinishImplements ==
  ASSUME IInv, IInv', NEW c \in Run, LoginFinish(c)
  PROVE  Contract!Next
  <1>1. OnItsWay' \subseteq OnItsWay
    BY SettleQuiet, QuietShows DEF IInv
  <1>2. CASE \E q \in challenge : Answers(c, q) /\ user' = q.user /\ waiting' = NoUser
    <2>1. PICK q \in challenge : q.run = c /\ user' = q.user /\ waiting' = NoUser
      BY <1>2 DEF Answers
    <2>2. run[c].step = "finish" /\ run[c].button # "activate"
      BY DEF LoginFinish
    <2>3. run[c].who \in User /\ q.user = run[c].who
      BY <2>1, <2>2 DEF IInv, CeremoniesBound
    <2>q. QED BY <1>1, <2>1, <2>2, <2>3, EnterStep, FinishEnds
  <1>3. CASE user' = user /\ waiting' \in {waiting, NoUser}
    BY <1>1, <1>3, LeaveStep
  <1>q. QED BY <1>2, <1>3 DEF LoginFinish

LEMMA ActivateFinishImplements ==
  ASSUME IInv, IInv', NEW c \in Run, ActivateFinish(c)
  PROVE  Contract!Next
  <1>1. OnItsWay' \subseteq OnItsWay
    BY SettleQuiet, QuietShows DEF IInv
  <1>2. ASSUME NEW k \in context, Enrols(c, k), user' = k.user, waiting' = waiting
        PROVE  Contract!Next
    <2>1. run[c].step = "finish" /\ run[c].button = "activate"
      BY DEF ActivateFinish
    <2>2. run[c].who \in User /\ k.user = run[c].who
      BY <1>2, <2>1 DEF IInv, CeremoniesBound, Enrols
    <2>q. QED BY <1>1, <1>2, <2>1, <2>2, EnterStep, FinishEnds
  <1>3. CASE user' \in {user, NoUser} /\ waiting' \in {waiting, NoUser}
    BY <1>1, <1>3, LeaveStep
  <1>4. \/ \E k \in context : Enrols(c, k) /\ user' = k.user /\ waiting' = waiting
        \/ user' \in {user, NoUser} /\ waiting' \in {waiting, NoUser}
    BY DEF ActivateFinish
  <1>q. QED BY <1>2, <1>3, <1>4

\* The forms
LEMMA FormsImplement ==
  ASSUME IInv, IInv', NEW t \in Tab, Login(t) \/ VerifyTotp(t) \/ VerifyTicket(t)
  PROVE  Contract!Next
  <1>1. OnItsWay' \subseteq OnItsWay
    <2>1. \A u \in Tab : sent'[u] \subseteq sent[u]
      BY DEF Login, VerifyTotp, VerifyTicket, Handled, IInv, TypeOK
    <2>2. Quiet
      BY UseQuiet DEF IInv, Use
    <2>q. QED BY <2>1, <2>2, QuietShows
  <1>2. sent'[t] = {}
    BY DEF Login, VerifyTotp, VerifyTicket, Handled, IInv, TypeOK
  <1>3. ASSUME NEW s \in sent[t], s.form \in {"password", "code"}
        PROVE  s.who \in User /\ Contract!Arrives(s.who, s.form)
    <2>1. s.who \in User
      BY DEF IInv, TypeOK, Submission
    <2>2. <<t, s.who, s.form>> \in OnItsWay
      BY <1>3, OnItsWayMeans DEF FromForm
    <2>3. OnItsWay' \subseteq OnItsWay \ {<<t, s.who, s.form>>}
      BY <1>1, <1>2, <1>3, FormSpent
    <2>q. QED BY <2>1, <2>2, <2>3 DEF Contract!Arrives
  <1>4. CASE Login(t)
    <2>1. PICK s \in sent[t] :
            /\ s.form = "password"
            /\ (waiting' = s.who /\ user' = user) \/ (user' = s.who /\ waiting' = waiting)
      BY <1>4 DEF Login
    <2>2. s.who \in User /\ Contract!Arrives(s.who, "password")
      BY <1>3, <2>1
    <2>q. QED
      BY <2>1, <2>2 DEF Contract!Next, Contract!AskSecond, Contract!Enter
  <1>5. CASE VerifyTotp(t)
    <2>1. PICK s \in sent[t] : s.form = "code" /\ s.who = waiting /\ user' = s.who /\ waiting' = NoUser
      BY <1>5 DEF VerifyTotp
    <2>2. s.who \in User /\ Contract!Arrives(s.who, "code")
      BY <1>3, <2>1
    <2>q. QED BY <2>1, <2>2 DEF Contract!Next, Contract!Enter
  <1>6. CASE VerifyTicket(t)
    BY <1>1, <1>6, LeaveStep DEF VerifyTicket
  <1>q. QED BY <1>4, <1>5, <1>6

LEMMA NextImplements ==
  ASSUME IInv, [Next]_vars, IInv'
  PROVE  [Contract!Next]_(Contract!vars)
  <1>0. TypeOK
    BY DEF IInv
  <1>1. ASSUME NEW c \in Run, Settle(c) PROVE Contract!Next
    <2>1. CASE GiveUp(c) \/ Assign(c)
      <3>1. OnItsWay' \subseteq OnItsWay
        BY <1>0, <2>1, SettleQuiet, QuietShows
      <3>q. QED BY <2>1, <3>1, LeaveStep DEF GiveUp, Assign, slots
    <2>q. QED
      BY <1>1, <2>1, PromptingShowsNothing, PromptShows, LoginFinishImplements,
         ActivateFinishImplements DEF Settle
  <1>2. ASSUME NEW t \in Tab, Use(t) PROVE Contract!Next
    <2>1. CASE Login(t) \/ VerifyTotp(t) \/ VerifyTicket(t)
      BY <2>1, FormsImplement
    <2>2. CASE \E u \in User : Submit(t, u)
      BY <2>2, FormShows
    <2>3. ASSUME \/ \E s \in {"login", "verify", "activate"} : Open(t, s)
                 \/ \E c \in Run : Press(c, t)
                 \/ Refuse(t)
          PROVE  Contract!Next
      <3>1. user' = user /\ waiting' = waiting
        BY <2>3 DEF Open, Press, Refuse, slots
      <3>2. \A u \in Tab : sent'[u] \subseteq sent[u]
        BY <1>0, <2>3 DEF Open, Replace, Press, Refuse, Handled, TypeOK
      <3>3. Quiet
        BY <1>0, <1>2, UseQuiet
      <3>q. QED BY <3>1, <3>2, <3>3, QuietShows, LeaveStep
    <2>q. QED BY <1>2, <2>1, <2>2, <2>3 DEF Use
  <1>3. CASE SignOut \/ Expire \/ \E u \in User : Issue(u)
    <2>1. OnItsWay' \subseteq OnItsWay
      BY <1>3, SessionQuiet, QuietShows
    <2>2. user' \in {user, NoUser} /\ waiting' \in {waiting, NoUser}
      BY <1>3 DEF SignOut, Expire, Issue, slots
    <2>q. QED BY <2>1, <2>2, LeaveStep
  <1>4. CASE UNCHANGED vars
    BY <1>4 DEF vars, slots, Contract!vars, OnItsWay
  <1>q. QED BY <1>1, <1>2, <1>3, <1>4 DEF Next

\* Whatever tabs, ceremonies and forms share a session, the browser takes on an
\* identity only on what the owner of that account just showed, and once for each
\* prompt and each form in which it was shown.
THEOREM Implements == Spec => SignInHolds
  <1>q. QED BY InitImplements, Invariance, NextImplements, PTL DEF Spec, SignInHolds, Contract!Spec

---------------------------------------------------------------------------
(* Tickets *)

\* A ticket is used up, and gives a passkey, only for the account of the prompt the
\* passkey was created in.
THEOREM OwnTickets == Spec => TicketsEnrolTheirOwn
  <1>1. ASSUME IInv, [Next]_vars
        PROVE  [\A u \in User :
                  (Locked(u) /\ ticket'[u] = "none") \/ ~(keys'[u] \subseteq keys[u])
                    => Locked(u) /\ \E c \in Run : run[c].step = "finish" /\ run[c].who = u]_vars
    <2>1. ASSUME NEW u \in User, keys' = keys, ticket' = ticket
          PROVE  ~(Locked(u) /\ ticket'[u] = "none") /\ keys'[u] \subseteq keys[u]
      BY <2>1 DEF Locked
    <2>2. ASSUME NEW c \in Run, ActivateFinish(c), NEW u \in User,
                 (Locked(u) /\ ticket'[u] = "none") \/ ~(keys'[u] \subseteq keys[u])
          PROVE  Locked(u) /\ run[c].step = "finish" /\ run[c].who = u
      <3>1. PICK k \in context :
              /\ Enrols(c, k) /\ ticket[k.user] = k.purpose
              /\ ticket' = [ticket EXCEPT ![k.user] = "none"]
              /\ \/ keys' = [keys EXCEPT ![k.user] = {"webauthn"}]
                 \/ keys' = [keys EXCEPT ![k.user] = @ \cup {"webauthn"}]
        BY <2>1, <2>2 DEF ActivateFinish, accountVars
      <3>0. /\ keys \in [User -> SUBSET Method] /\ ticket \in [User -> {"none"} \cup Purpose]
            /\ k.user \in User /\ k.purpose \in Purpose
        <4>1. keys \in [User -> SUBSET Method] /\ ticket \in [User -> {"none"} \cup Purpose]
          BY <1>1 DEF IInv, TypeOK
        <4>2. k \in [user: User, purpose: Purpose]
          <5>1. context \subseteq [user: User, purpose: Purpose]
            BY <1>1 DEF IInv, TypeOK
          <5>q. QED BY <3>1, <5>1
        <4>q. QED BY <4>1, <4>2
      <3>2. u = k.user
        <4>1. ASSUME u # k.user PROVE keys'[u] = keys[u] /\ ticket'[u] = ticket[u]
          BY <3>0, <3>1, <4>1
        <4>q. QED BY <2>2, <4>1 DEF Locked
      <3>3. Locked(u)
        BY <3>0, <3>1, <3>2 DEF Purpose, Locked
      <3>4. run[c].step = "finish" /\ run[c].who = k.user
        <4>1. run[c].step = "finish" /\ run[c].button = "activate"
          BY <2>2 DEF ActivateFinish
        <4>2. PICK q \in enrolment : q.run = c /\ q.user = k.user
          BY <3>1 DEF Enrols
        <4>3. CeremoniesBound
          BY <1>1 DEF IInv
        <4>q. QED BY <4>1, <4>2, <4>3 DEF CeremoniesBound
      <3>q. QED BY <3>2, <3>3, <3>4
    <2>3. ASSUME NEW v \in User, Issue(v), NEW u \in User
          PROVE  ~(Locked(u) /\ ticket'[u] = "none") /\ keys'[u] \subseteq keys[u]
      BY <2>3 DEF Issue, IInv, TypeOK, Locked
    <2>4. CASE Next
      <3>1. \/ \E c \in Run : ActivateFinish(c)
            \/ \E v \in User : Issue(v)
            \/ keys' = keys /\ ticket' = ticket
        BY <2>4
        DEF Next, Settle, GiveUp, LoginOptions, ActivateOptions, AnswerPrompt, LoginFinish, Assign,
            Use, Open, Submit, Press, Login, VerifyTotp, VerifyTicket, Refuse, SignOut, Expire, accountVars
      <3>q. QED BY <2>1, <2>2, <2>3, <3>1
    <2>q. QED BY <1>1, <2>4
  <1>q. QED BY <1>1, Invariance, PTL DEF Spec, TicketsEnrolTheirOwn

---------------------------------------------------------------------------
(* The buttons *)

Holds(d, t) == run[d].tab = t

LEMMA BusyMeans ==
  BusyWhileAsking <=>
    \A t \in Tab : IF page[t].busy THEN \E c \in Run : \A d \in Run : Holds(d, t) <=> d = c
                                   ELSE \A d \in Run : ~Holds(d, t)
  BY DEF BusyWhileAsking, Holds

LEMMA BusyMeansAfter ==
  BusyWhileAsking' <=>
    \A t \in Tab : IF page'[t].busy THEN \E c \in Run : \A d \in Run : Holds(d, t)' <=> d = c
                                    ELSE \A d \in Run : ~Holds(d, t)'
  BY DEF BusyWhileAsking, Holds

LEMMA GoingOnKeeps ==
  ASSUME BusyWhileAsking, page' = page, \A d \in Run : run'[d].tab = run[d].tab
  PROVE  BusyWhileAsking'
  BY BusyMeans, BusyMeansAfter DEF Holds

LEMMA FailingKeeps ==
  ASSUME BusyWhileAsking, RunsTyped, PagesTyped, NEW c \in Run, run[c].step # "idle", Fails(c)
  PROVE  BusyWhileAsking'
  <1>1. PICK tab \in Tab : tab = run[c].tab /\ tab # NoTab
    BY UnderWay, NoTabIsNoTab DEF Ceremony
  <1>2. run'[c] = Idle /\ \A d \in Run \ {c} : run'[d] = run[d]
    BY DEF Fails, RunsTyped
  <1>3. \A d \in Run : Holds(d, tab) => d = c
    BY <1>1, BusyMeans DEF Holds
  <1>4. ~page'[tab].busy /\ \A t \in Tab \ {tab} : page'[t] = page[t]
    BY <1>1 DEF Fails, PagesTyped, PageData
  <1>5. \A d \in Run : ~Holds(d, tab)'
    BY <1>1, <1>2, <1>3, NoTabIsNoTab DEF Holds, Idle
  <1>6. \A d \in Run, t \in Tab \ {tab} : Holds(d, t)' <=> Holds(d, t)
    BY <1>1, <1>2, NoTabIsNoTab DEF Holds, Idle
  <1>q. QED BY <1>4, <1>5, <1>6, BusyMeans, BusyMeansAfter

LEMMA RepliesKeep ==
  ASSUME BusyWhileAsking, RunsTyped, PagesTyped, NEW c \in Run, run[c].step # "idle",
         Fails(c) \/ Reply(c, "assign") \/ \E u \in User : Prompt(c, u)
  PROVE  BusyWhileAsking'
  <1>1. CASE Fails(c)
    BY <1>1, FailingKeeps
  <1>2. ASSUME NEW step, NEW who, run' = [run EXCEPT ![c].step = step, ![c].who = who], page' = page
        PROVE  BusyWhileAsking'
    <2>1. \A d \in Run : run'[d].tab = run[d].tab
      BY <1>2, UnderWay DEF RunsTyped, Ceremony
    <2>q. QED BY <1>2, <2>1, GoingOnKeeps
  <1>q. QED BY <1>1, <1>2 DEF Reply, Prompt, Goto

LEMMA ReplacingKeeps ==
  ASSUME BusyWhileAsking, PagesTyped, NEW t \in Tab, NEW s, Replace(t, Shown(s))
  PROVE  BusyWhileAsking'
  <1>1. ~Shown(s).busy
    BY DEF Shown, Blank
  <1>2. \A u \in Tab : page'[u] = IF u = t THEN Shown(s) ELSE page[u]
    BY DEF Replace, PagesTyped
  <1>3. \A d \in Run, u \in Tab : Holds(d, u)' <=> Holds(d, u) /\ u # t
    BY NoTabIsNoTab DEF Replace, Holds, Idle
  <1>q. QED BY <1>1, <1>2, <1>3, BusyMeans, BusyMeansAfter

LEMMA PressingKeeps ==
  ASSUME BusyWhileAsking, RunsTyped, PagesTyped, NEW t \in Tab, NEW c \in Run, Press(c, t)
  PROVE  BusyWhileAsking'
  <1>1. run'[c].tab = t /\ \A d \in Run \ {c} : run'[d] = run[d]
    BY DEF Press, RunsTyped
  <1>2. \A u \in Tab : ~Holds(c, u)
    BY NoTabIsNoTab DEF Press, Holds, Idle
  <1>3. \A d \in Run : ~Holds(d, t)
    BY BusyMeans DEF Press
  <1>4. page'[t].busy /\ \A u \in Tab \ {t} : page'[u] = page[u]
    BY DEF Press, PagesTyped, PageData
  <1>5. \A u \in Tab : Holds(c, u)' <=> u = t
    BY <1>1 DEF Holds
  <1>6. \A d \in Run \ {c}, u \in Tab : Holds(d, u)' <=> Holds(d, u)
    BY <1>1 DEF Holds
  <1>q. QED BY <1>2, <1>3, <1>4, <1>5, <1>6, BusyMeans, BusyMeansAfter

\* The buttons of a page are disabled exactly while one ceremony of its tab is under
\* way, whatever fails, and whatever the other tabs do.
THEOREM BusyExactly == Spec => []BusyWhileAsking
  <1>1. Init => BusyWhileAsking
    BY NoTabIsNoTab DEF Init, BusyWhileAsking, Idle, Blank
  <1>2. TypeOK /\ BusyWhileAsking /\ [Next]_vars => BusyWhileAsking'
    <2> SUFFICES ASSUME TypeOK, BusyWhileAsking, [Next]_vars PROVE BusyWhileAsking'
      OBVIOUS
    <2>0. RunsTyped /\ PagesTyped
      BY TypeParts
    <2>1. ASSUME page' = page, run' = run PROVE BusyWhileAsking'
      BY <2>1 DEF BusyWhileAsking
    <2>2. ASSUME NEW c \in Run, Settle(c) PROVE BusyWhileAsking'
      <3>1. CASE GiveUp(c)
        BY <2>0, <3>1, RepliesKeep DEF GiveUp
      <3>2. CASE \E u \in User : LoginOptions(c, u)
        BY <2>0, <3>2, RepliesKeep DEF LoginOptions
      <3>3. CASE ActivateOptions(c)
        <4>1. \E u \in User : Prompt(c, u)
          BY <3>3 DEF ActivateOptions, TypeOK
        <4>q. QED BY <2>0, <3>3, <4>1, RepliesKeep DEF ActivateOptions
      <3>4. CASE AnswerPrompt(c)
        <4>1. \A d \in Run : run'[d].tab = run[d].tab
          BY <2>0, <3>4, UnderWay DEF AnswerPrompt, RunsTyped, Ceremony
        <4>q. QED BY <3>4, <4>1, GoingOnKeeps DEF AnswerPrompt
      <3>5. CASE LoginFinish(c)
        BY <2>0, <3>5, RepliesKeep DEF LoginFinish
      <3>6. CASE ActivateFinish(c)
        <4>1. run[c].step # "idle" /\ (Reply(c, "assign") \/ Fails(c))
          BY <3>6 DEF ActivateFinish
        <4>q. QED BY <2>0, <4>1, RepliesKeep
      <3>7. CASE Assign(c)
        <4>1. run[c].tab \in Tab
          BY <2>0, <3>7, UnderWay DEF Assign, Ceremony
        <4>2. PICK t \in Tab, s \in {"login", "none"} : Replace(t, Shown(s))
          BY <3>7, <4>1 DEF Assign
        <4>q. QED BY <2>0, <4>2, ReplacingKeeps
      <3>q. QED BY <2>2, <3>1, <3>2, <3>3, <3>4, <3>5, <3>6, <3>7 DEF Settle
    <2>3. ASSUME NEW t \in Tab, Use(t) PROVE BusyWhileAsking'
      <3>1. ASSUME NEW s, Open(t, s) PROVE BusyWhileAsking'
        BY <2>0, <3>1, ReplacingKeeps DEF Open
      <3>2. ASSUME NEW c \in Run, Press(c, t) PROVE BusyWhileAsking'
        BY <2>0, <3>2, PressingKeeps
      <3>3. CASE (\E u \in User : Submit(t, u)) \/ Login(t) \/ VerifyTotp(t) \/ VerifyTicket(t) \/ Refuse(t)
        BY <2>1, <3>3 DEF Submit, Login, VerifyTotp, VerifyTicket, Refuse, Handled
      <3>q. QED BY <2>3, <3>1, <3>2, <3>3 DEF Use
    <2>4. CASE SignOut \/ Expire \/ \E u \in User : Issue(u)
      BY <2>1, <2>4 DEF SignOut, Expire, Issue
    <2>5. CASE UNCHANGED vars
      BY <2>1, <2>5 DEF vars
    <2>q. QED BY <2>2, <2>3, <2>4, <2>5 DEF Next
  <1>q. QED BY <1>1, <1>2, TypeCorrect, PTL DEF Spec
==============================================================================
