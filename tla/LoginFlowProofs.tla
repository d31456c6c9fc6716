---------------------------- MODULE LoginFlowProofs ----------------------------
(***************************************************************************)
(* Proofs about LoginFlow, for every number of accounts and every length   *)
(* of the two time limits.                                                 *)
(***************************************************************************)
EXTENDS LoginFlow, TLAPS

---------------------------------------------------------------------------
(* Ages and session data *)

LEMMA OlderAge ==
  ASSUME NEW a \in Age
  PROVE  /\ Older(a) \in Age /\ (Older(a) = Never <=> a = Never)
         /\ \A b \in Age : b <= a => Older(b) <= Older(a)
  BY TimesAreNatural DEF Age, Never, Older

LEMMA AgeBounds == Old \in Nat /\ Never \in Nat /\ 0 \in Age /\ Never \in Age /\ 0 # Never
  BY TimesAreNatural DEF Age, Never

\* A pending sign-in is for somebody exactly while it has a time.
Paired(b) == b.pending = None <=> b.since = Never

LEMMA WithoutPendingType ==
  ASSUME NEW b \in Browser
  PROVE  /\ WithoutPending(b) \in Browser /\ Paired(WithoutPending(b))
         /\ WithoutPending(b).user = b.user /\ WithoutPending(b).setup = b.setup
         /\ WithoutPending(b).passkey = b.passkey /\ WithoutPending(b).pending = None
  BY AgeBounds DEF Browser, WithoutPending, Paired

LEMMA SpentType ==
  ASSUME browser \in Browser
  PROVE  /\ Spent \in Browser
         /\ Spent.user = browser.user /\ Spent.setup = browser.setup
         /\ Spent.pending = browser.pending /\ Spent.since = browser.since
         /\ Spent.passkey = NoChallenge
  BY AgeBounds DEF Browser, Spent, NoChallenge

\* A request in flight is about an account.
Named == request.op # "idle" => request.user \in User

Typed == TypeOK /\ Named

\* What a request reads of an account when it starts
LEMMA StartType ==
  ASSUME Typed, NEW op \in {"password", "totp", "primary", "mfa"}, NEW u \in User, Start(op, u)
  PROVE  request' \in Request /\ Named' /\ request'.op = op /\ request'.user = u
  BY DEF Typed, TypeOK, Account, Start, Request, Named

\* Nobody's request
LEMMA IdleType == Idle \in Request /\ Idle.op = "idle"
  BY DEF Idle, Request

\* The session data stored when a session is established
LEMMA SessionDataType ==
  ASSUME Typed, request.op \in {"single", "totp"} \/ WithPasskey
  PROVE  /\ SessionData(browser) \in Browser /\ Paired(SessionData(browser))
         /\ SessionData(browser).user = request.user /\ request.user \in User
         /\ SessionData(browser).setup \in BOOLEAN
         /\ request.op = "single" =>
              /\ SessionData(browser).setup = request.setup
              /\ SessionData(browser).pending = browser.pending
              /\ SessionData(browser).since = browser.since
         /\ request.op # "single" => SessionData(browser).pending = None
         /\ SessionData(browser).passkey \in {browser.passkey, NoChallenge}
  <1> DEFINE signedIn == [browser EXCEPT !.user = request.user]
  <1>0. request.user \in User /\ request.setup \in BOOLEAN
    BY DEF Typed, TypeOK, Named, Request, WithPasskey
  <1>1. /\ signedIn \in Browser /\ Paired(signedIn) /\ signedIn.user = request.user
        /\ signedIn.pending = browser.pending /\ signedIn.since = browser.since
        /\ signedIn.passkey = browser.passkey
    BY <1>0 DEF Typed, TypeOK, Browser, Paired
  <1> HIDE DEF signedIn
  <1>2. CASE request.op = "single"
    <2>1. SessionData(browser) = [signedIn EXCEPT !.setup = request.setup]
      BY <1>2 DEF SessionData, signedIn, WithPasskey
    <2>q. QED BY <1>0, <1>1, <1>2, <2>1 DEF Browser, Paired
  <1>3. CASE request.op = "totp"
    <2>1. SessionData(browser) = [WithoutPending(signedIn) EXCEPT !.setup = FALSE]
      BY <1>3 DEF SessionData, signedIn, WithPasskey
    <2>q. QED BY <1>0, <1>1, <1>3, <2>1, WithoutPendingType DEF Browser, Paired
  <1>4. CASE WithPasskey
    <2>1. SessionData(browser) = [WithoutPending(signedIn) EXCEPT !.passkey = NoChallenge]
      BY <1>4 DEF SessionData, signedIn, WithPasskey
    <2>2. NoChallenge \in [user: User \cup {None}, mode: {"primary", "mfa"}, age: Age]
      BY AgeBounds DEF NoChallenge
    <2>q. QED BY <1>0, <1>1, <1>4, <2>1, <2>2, WithoutPendingType DEF Browser, Paired, WithPasskey
  <1>q. QED BY <1>2, <1>3, <1>4

---------------------------------------------------------------------------
(* Types *)

LEMMA TypedInitially == Init => Typed
  <1> SUFFICES ASSUME Init PROVE Typed
    OBVIOUS
  <1>1. {Fresh, WithTotp, WithBoth, PasskeyOnly, Inactive} \subseteq Account
    BY DEF Fresh, WithTotp, WithBoth, PasskeyOnly, Inactive, Account, Kind
  <1>2. Anonymous \in Browser /\ Paired(Anonymous)
    BY AgeBounds DEF Anonymous, NoChallenge, Browser, Paired
  <1>q. QED BY <1>1, <1>2, IdleType, AgeBounds, TimesAreNatural
     DEF Init, Typed, TypeOK, Named, NoRow, Paired, Age, Never

\* The steps that show a page
LEMMA TypedPages ==
  ASSUME Typed, (\E path \in Path : Visit(path)) \/ Answer
  PROVE  Typed'
  <1>1. WithoutPending(browser) \in Browser /\ Paired(WithoutPending(browser))
        /\ WithoutPending(browser).user = browser.user
    BY WithoutPendingType DEF Typed, TypeOK
  <1>q. QED BY <1>1 DEF Typed, TypeOK, Named, Paired, Visit, Answer, AnswerLogin, AnswerVerify,
                        AnswerAdmin, Path

\* The steps of a sign-in
LEMMA TypedSignIn ==
  ASSUME Typed, SignInStep
  PROVE  Typed'
  <1>0. browser \in Browser /\ Paired(browser)
    BY DEF Typed, TypeOK, Paired
  <1>1. CASE \E u \in User : PasswordVerified(u)
    BY <1>1, StartType, AgeBounds DEF PasswordVerified, Typed, TypeOK
  <1>2. CASE TotpVerified
    <2>1. browser.pending \in User
      BY <1>0, <1>2 DEF TotpVerified, PendingInTime, Browser
    <2>q. QED BY <1>2, <2>1, StartType DEF TotpVerified, Typed, TypeOK
  <1>3. ASSUME NEW mode \in {"primary", "mfa"}, NEW u \in User, PasskeyOptions(mode, u)
        PROVE  Typed'
    <2>1. ASSUME ~(mode = "mfa" /\ ~PendingInTime)
          PROVE  ChallengeUser(mode, u) \in User
      BY <1>0, <2>1 DEF ChallengeUser, PendingInTime, Browser
    <2>2. browser' \in Browser /\ Paired(browser') /\ browser'.user = browser.user
      <3>1. CASE mode = "mfa" /\ ~PendingInTime
        BY <1>0, <1>3, <3>1, WithoutPendingType DEF PasskeyOptions
      <3>2. CASE ~(mode = "mfa" /\ ~PendingInTime)
        BY <1>0, <1>3, <2>1, <3>2, AgeBounds DEF PasskeyOptions, Browser, Paired
      <3>q. QED BY <3>1, <3>2
    <2>q. QED BY <1>3, <2>2 DEF PasskeyOptions, Typed, TypeOK, Named, Paired
  <1>4. CASE PasskeyRefused
    <2>1. browser' \in {WithoutPending(Spent), Spent}
      BY <1>4 DEF PasskeyRefused
    <2>2. browser' \in Browser /\ Paired(browser') /\ browser'.user = browser.user
      BY <1>0, <2>1, WithoutPendingType, SpentType DEF Paired
    <2>q. QED BY <1>4, <2>2 DEF PasskeyRefused, Typed, TypeOK, Named, Paired
  <1>5. CASE PasskeyVerified
    <2>1. browser.passkey.user \in User /\ browser.passkey.mode \in {"primary", "mfa"}
      BY <1>0, <1>5 DEF PasskeyVerified, ChallengeInTime, Browser
    <2>q. QED BY <1>5, <2>1, StartType DEF PasskeyVerified, Typed, TypeOK
  <1>6. CASE Logout
    BY <1>6, AgeBounds DEF Logout, Forget, Typed, TypeOK, Named, Anonymous, NoChallenge, NoRow,
                           Browser, Path
  <1>7. ASSUME NEW kind \in Kind, Enroll(kind)
        PROVE  Typed'
    <2>1. browser.user \in User
      BY <1>0, <1>7 DEF Enroll, SignedIn, Browser
    <2>2. account' \in [User -> Account]
      <3> DEFINE withKey == [account EXCEPT ![browser.user].keys = @ \cup {kind}]
      <3>1. withKey \in [User -> Account]
        BY <2>1 DEF Typed, TypeOK, Account
      <3>2. account' = [withKey EXCEPT ![browser.user].mfa = TRUE]
        BY <1>7 DEF Enroll
      <3>3. ASSUME NEW f \in [User -> Account], NEW u \in User
            PROVE  [f EXCEPT ![u].mfa = TRUE] \in [User -> Account]
        BY DEF Account
      <3> HIDE DEF withKey
      <3>q. QED BY <2>1, <3>1, <3>2, <3>3
    <2>3. browser' \in Browser /\ Paired(browser') /\ browser'.user = browser.user
      BY <1>0, <1>7 DEF Enroll, Browser, Paired
    <2>q. QED BY <1>7, <2>2, <2>3 DEF Enroll, Typed, TypeOK, Named, Paired
  <1>q. QED BY <1>1, <1>2, <1>3, <1>4, <1>5, <1>6, <1>7 DEF SignInStep

\* The steps of a request that verified something
LEMMA TypedRequest ==
  ASSUME Typed, RequestStep
  PROVE  Typed'
  <1>0. browser \in Browser /\ Paired(browser)
    BY DEF Typed, TypeOK, Paired
  <1>1. CASE AskSecondFactor
    <2>1. request.user \in User
      BY <1>1 DEF AskSecondFactor, Typed, Named
    <2>2. browser' \in Browser /\ Paired(browser') /\ browser'.user = browser.user
      BY <1>0, <1>1, <2>1, AgeBounds, NoneIsNoUser DEF AskSecondFactor, Browser, Paired
    <2>q. QED BY <1>1, <2>2, IdleType DEF AskSecondFactor, Typed, TypeOK, Named, Paired, Path
  <1>2. CASE NoSecondFactor \/ Crash
    BY <1>2, IdleType DEF NoSecondFactor, Crash, Typed, TypeOK, Named
  <1>3. CASE SingleFactor
    <2>1. request' \in Request /\ Named'
      BY <1>3 DEF SingleFactor, Typed, TypeOK, Named, Request, SetupRequired
    <2>q. QED BY <1>3, <2>1 DEF SingleFactor, Typed, TypeOK
  <1>4. CASE Establish
    <2>1. /\ browser' \in Browser /\ Paired(browser') /\ browser'.user = request.user
          /\ request.user \in User
      BY <1>4, SessionDataType DEF Establish
    <2>2. row' \in [live: BOOLEAN, single: BOOLEAN]
      BY <1>4 DEF Establish
    <2>q. QED BY <1>4, <2>1, <2>2, IdleType, NoneIsNoUser
       DEF Establish, Typed, TypeOK, Named, Paired, Path
  <1>5. CASE EstablishRefused
    <2>1. browser' \in {browser, Spent, WithoutPending(Spent)}
      BY <1>5 DEF EstablishRefused
    <2>2. browser' \in Browser /\ Paired(browser') /\ browser'.user = browser.user
      BY <1>0, <2>1, WithoutPendingType, SpentType DEF Paired
    <2>q. QED BY <1>5, <2>2, IdleType DEF EstablishRefused, Typed, TypeOK, Named, Paired
  <1>q. QED BY <1>1, <1>2, <1>3, <1>4, <1>5 DEF RequestStep

\* A change made elsewhere
LEMMA TypedChange ==
  ASSUME Typed, NEW u \in User, NEW changed \in Account, Change(u, changed)
  PROVE  Typed'
  <1>1. off' \in [User -> Age]
    BY AgeBounds DEF Change, Typed, TypeOK
  <1>2. row' \in [live: BOOLEAN, single: BOOLEAN] /\ (row'.live => browser.user # None)
    BY DEF Change, Typed, TypeOK
  <1>3. changes' \in 0..MaxChange
    BY TimesAreNatural DEF Change, Typed, TypeOK
  <1>q. QED BY <1>1, <1>2, <1>3 DEF Change, Typed, TypeOK, Named

\* What others may make of an account: one that is open keeps a key if it had one.
Changeable(u, changed) ==
  /\ changed \in Account
  /\ changed.state = "open" =>
       changed.keys # {} \/ (account[u].state = "open" /\ account[u].keys = {})

LEMMA ElsewhereChanges ==
  ASSUME Typed, Elsewhere
  PROVE  \E u \in User : \E changed : Changeable(u, changed) /\ Change(u, changed)
  <1> PICK u \in User :
        \/ Lock(u) \/ Complete(u) \/ Delete(u) \/ SwitchPassword(u) \/ ResetTotp(u)
        \/ \E kind \in Kind : EnrollElsewhere(u, kind) \/ RemoveKeys(u, kind)
    BY DEF Elsewhere
  <1>0. account[u] \in Account
    BY DEF Typed, TypeOK
  <1> DEFINE was == account[u]
  <1>1. CASE Lock(u)
    <2>1. Change(u, [was EXCEPT !.state = "locked"])
      BY <1>1 DEF Lock
    <2>2. Changeable(u, [was EXCEPT !.state = "locked"])
      BY <1>0 DEF Changeable, Account
    <2>q. QED BY <2>1, <2>2
  <1>2. CASE Complete(u)
    <2> DEFINE changed == [was EXCEPT !.state = "open", !.mfa = TRUE, !.keys = {"webauthn"}]
    <2>1. Change(u, changed)
      BY <1>2 DEF Complete
    <2>2. Changeable(u, changed)
      BY <1>0 DEF Changeable, Account, Kind
    <2>q. QED BY <2>1, <2>2
  <1>3. CASE Delete(u)
    <2> DEFINE changed == [was EXCEPT !.state = "gone", !.keys = {}]
    <2>1. Change(u, changed)
      BY <1>3 DEF Delete
    <2>2. Changeable(u, changed)
      BY <1>0 DEF Changeable, Account
    <2>q. QED BY <2>1, <2>2
  <1>4. CASE SwitchPassword(u)
    <2> DEFINE changed == [was EXCEPT !.pw = ~@]
    <2>1. Change(u, changed)
      BY <1>4 DEF SwitchPassword
    <2>2. Changeable(u, changed)
      BY <1>0, <1>4 DEF Changeable, Account, SwitchPassword
    <2>q. QED BY <2>1, <2>2
  <1>5. CASE ResetTotp(u)
    <2> DEFINE changed == [was EXCEPT !.state = "locked", !.keys = {}]
    <2>1. Change(u, changed)
      BY <1>5 DEF ResetTotp
    <2>2. Changeable(u, changed)
      BY <1>0 DEF Changeable, Account
    <2>q. QED BY <2>1, <2>2
  <1>6. ASSUME NEW kind \in Kind, EnrollElsewhere(u, kind)
        PROVE  \E changed : Changeable(u, changed) /\ Change(u, changed)
    <2> DEFINE changed == [was EXCEPT !.keys = @ \cup {kind}, !.mfa = TRUE]
    <2>1. Change(u, changed)
      BY <1>6 DEF EnrollElsewhere
    <2>2. Changeable(u, changed)
      BY <1>0 DEF Changeable, Account
    <2>q. QED BY <2>1, <2>2
  <1>7. ASSUME NEW kind \in Kind, RemoveKeys(u, kind)
        PROVE  \E changed : Changeable(u, changed) /\ Change(u, changed)
    <2> DEFINE left == was.keys \ {kind}
               changed == [was EXCEPT !.keys = left]
    <2>1. Change(u, changed)
      BY <1>7 DEF RemoveKeys
    <2>2. left # {}
      BY <1>7 DEF RemoveKeys
    <2>3. Changeable(u, changed)
      BY <1>0, <2>2 DEF Changeable, Account
    <2>q. QED BY <2>1, <2>3
  <1>q. QED BY <1>1, <1>2, <1>3, <1>4, <1>5, <1>6, <1>7

\* Time passes.
LEMMA TypedTick ==
  ASSUME Typed, Tick
  PROVE  Typed'
  <1>1. browser \in Browser /\ Paired(browser)
    BY DEF Typed, TypeOK, Paired
  <1>2. Older(browser.since) \in Age /\ Older(browser.passkey.age) \in Age
        /\ (Older(browser.since) = Never <=> browser.since = Never)
    BY <1>1, OlderAge DEF Browser
  <1>3. browser' \in Browser /\ Paired(browser') /\ browser'.user = browser.user
    BY <1>1, <1>2 DEF Tick, Browser, Paired
  <1>4. verified' \in [User -> Age] /\ off' \in [User -> Age]
    BY OlderAge DEF Tick, Typed, TypeOK
  <1>q. QED BY <1>3, <1>4 DEF Tick, Typed, TypeOK, Named, Paired

LEMMA TypedInductive == Typed /\ [Next]_vars => Typed'
  <1> SUFFICES ASSUME Typed, [Next]_vars PROVE Typed'
    OBVIOUS
  <1>1. CASE Elsewhere
    BY <1>1, ElsewhereChanges, TypedChange DEF Changeable
  <1>2. CASE CloseBrowser
    BY <1>2, AgeBounds DEF CloseBrowser, Forget, Typed, TypeOK, Named, Anonymous, NoChallenge,
                           NoRow, Browser
  <1>3. CASE SessionEnds
    BY <1>3 DEF SessionEnds, Typed, TypeOK, Named
  <1>4. CASE UNCHANGED vars
    BY <1>4 DEF vars, Typed, TypeOK, Named
  <1>q. QED BY <1>1, <1>2, <1>3, <1>4, TypedPages, TypedSignIn, TypedRequest, TypedTick DEF Next

\* The variables keep their types, and a pending second factor has its time.
THEOREM SignInTypeCorrect == Spec => []TypeOK
  <1>1. Typed => TypeOK
    BY DEF Typed
  <1>q. QED BY <1>1, TypedInitially, TypedInductive, PTL DEF Spec

---------------------------------------------------------------------------
(* What the steps leave alone *)

\* The session data keeps the pending sign-in as it is.
Keeps(b, c) == b.pending = c.pending /\ b.since = c.since

LEMMA PendingSteps ==
  ASSUME Typed, [Next]_vars
  PROVE  \/ browser'.pending = None
         \/ Keeps(browser', browser)
         \/ AskSecondFactor
         \/ Tick
  <1>0. browser \in Browser
    BY DEF Typed, TypeOK
  <1>a. \A b \in Browser : WithoutPending(b).pending = None
    BY WithoutPendingType
  <1>b. Spent \in Browser /\ Keeps(Spent, browser) /\ WithoutPending(Spent).pending = None
    BY <1>0, <1>a, SpentType DEF Keeps
  <1>1. CASE UNCHANGED browser
    BY <1>1 DEF Keeps
  <1>2. CASE Answer
    BY <1>0, <1>1, <1>2, <1>a DEF Answer, AnswerLogin, AnswerVerify, AnswerAdmin
  <1>3. CASE SignInStep
    <2>1. ASSUME NEW mode \in {"primary", "mfa"}, NEW u \in User, PasskeyOptions(mode, u)
          PROVE  browser'.pending = None \/ Keeps(browser', browser)
      <3>1. CASE mode = "mfa" /\ ~PendingInTime
        BY <1>0, <1>a, <2>1, <3>1 DEF PasskeyOptions
      <3>2. CASE ~(mode = "mfa" /\ ~PendingInTime)
        BY <1>0, <2>1, <3>2 DEF PasskeyOptions, Browser, Keeps
      <3>q. QED BY <3>1, <3>2
    <2>2. CASE PasskeyRefused
      BY <1>b, <2>2 DEF PasskeyRefused
    <2>3. CASE Logout
      BY <2>3 DEF Logout, Forget, Anonymous
    <2>4. ASSUME NEW kind \in Kind, Enroll(kind)
          PROVE  Keeps(browser', browser)
      BY <1>0, <2>4 DEF Enroll, Browser, Keeps
    <2>q. QED BY <1>1, <1>3, <2>1, <2>2, <2>3, <2>4
       DEF SignInStep, PasswordVerified, TotpVerified, PasskeyVerified
  <1>4. CASE RequestStep
    <2>1. CASE Establish
      <3>1. browser' = SessionData(browser) /\ (request.op \in {"single", "totp"} \/ WithPasskey)
        BY <2>1 DEF Establish
      <3>q. QED BY <3>1, SessionDataType DEF Keeps
    <2>2. CASE EstablishRefused
      BY <1>1, <1>b, <2>2 DEF EstablishRefused
    <2>q. QED BY <1>1, <1>4, <2>1, <2>2 DEF RequestStep, NoSecondFactor, SingleFactor, Crash
  <1>5. CASE Elsewhere
    BY <1>1, <1>5, ElsewhereChanges DEF Change
  <1>6. CASE CloseBrowser
    BY <1>6 DEF CloseBrowser, Forget, Anonymous
  <1>q. QED BY <1>1, <1>2, <1>3, <1>4, <1>5, <1>6 DEF Next, vars, Visit, SessionEnds

\* A request that begins to establish a session, and one that verified a password
LEMMA RequestSteps ==
  ASSUME Typed, [Next]_vars
  PROVE  \/ request' = request
         \/ request'.op = "idle"
         \/ \E u \in User : PasswordVerified(u)
         \/ TotpVerified
         \/ PasskeyVerified
         \/ SingleFactor
  <1>1. CASE Answer
    BY <1>1 DEF Answer, AnswerLogin, AnswerVerify, AnswerAdmin
  <1>2. CASE SignInStep
    BY <1>2 DEF SignInStep, PasskeyOptions, PasskeyRefused, Logout, Enroll
  <1>3. CASE RequestStep
    BY <1>3, IdleType DEF RequestStep, AskSecondFactor, NoSecondFactor, Establish,
                          EstablishRefused, Crash
  <1>4. CASE Elsewhere
    BY <1>4, ElsewhereChanges DEF Change
  <1>q. QED BY <1>1, <1>2, <1>3, <1>4 DEF Next, vars, Visit, CloseBrowser, SessionEnds, Tick

\* Accounts and the time since their password was switched off
LEMMA AccountSteps ==
  ASSUME Typed, [Next]_vars
  PROVE  \/ account' = account /\ off' = off
         \/ Tick
         \/ \E u \in User : \E changed : Changeable(u, changed) /\ Change(u, changed)
         \/ \E kind \in Kind : Enroll(kind)
  <1>1. CASE Answer
    BY <1>1 DEF Answer, AnswerLogin, AnswerVerify, AnswerAdmin
  <1>2. CASE SignInStep
    BY <1>2 DEF SignInStep, PasswordVerified, TotpVerified, PasskeyOptions, PasskeyRefused,
                PasskeyVerified, Logout
  <1>3. CASE RequestStep
    BY <1>3 DEF RequestStep, AskSecondFactor, NoSecondFactor, SingleFactor, Establish,
                EstablishRefused, Crash
  <1>q. QED BY <1>1, <1>2, <1>3, ElsewhereChanges
     DEF Next, vars, Visit, CloseBrowser, SessionEnds

\* The time since the browser's passwords were verified
LEMMA VerifiedSteps ==
  ASSUME Typed, [Next]_vars
  PROVE  \/ verified' = verified
         \/ \E u \in User : PasswordVerified(u)
         \/ request' = Idle /\ browser' = Anonymous
         \/ Tick
  <1>1. CASE Answer
    BY <1>1 DEF Answer, AnswerLogin, AnswerVerify, AnswerAdmin
  <1>2. CASE SignInStep
    BY <1>2 DEF SignInStep, TotpVerified, PasskeyOptions, PasskeyRefused, PasskeyVerified, Logout,
                Forget, Enroll
  <1>3. CASE RequestStep
    BY <1>3 DEF RequestStep, AskSecondFactor, NoSecondFactor, SingleFactor, Establish,
                EstablishRefused, Crash
  <1>4. CASE Elsewhere
    BY <1>4, ElsewhereChanges DEF Change
  <1>q. QED BY <1>1, <1>2, <1>3, <1>4 DEF Next, vars, Visit, CloseBrowser, Forget, SessionEnds

\* The passkey challenge in the session data
LEMMA ChallengeSteps ==
  ASSUME Typed, [Next]_vars
  PROVE  \/ browser'.passkey = browser.passkey
         \/ browser'.passkey = NoChallenge
         \/ /\ ~(browser'.passkey.mode = "mfa" /\ ~PendingInTime)
            /\ browser'.passkey.mode = "mfa" => browser'.passkey.user = browser.pending
            /\ verified' = verified
         \/ Tick
  <1>0. browser \in Browser
    BY DEF Typed, TypeOK
  <1>a. \A b \in Browser : WithoutPending(b).passkey = b.passkey
    BY WithoutPendingType
  <1>b. /\ Spent \in Browser /\ Spent.passkey = NoChallenge
        /\ WithoutPending(Spent).passkey = NoChallenge
    BY <1>0, <1>a, SpentType
  <1>1. CASE Answer
    BY <1>0, <1>1, <1>a DEF Answer, AnswerLogin, AnswerVerify, AnswerAdmin
  <1>2. CASE SignInStep
    <2>1. ASSUME NEW mode \in {"primary", "mfa"}, NEW u \in User, PasskeyOptions(mode, u)
          PROVE  \/ browser'.passkey = browser.passkey
                 \/ /\ ~(browser'.passkey.mode = "mfa" /\ ~PendingInTime)
                    /\ browser'.passkey.mode = "mfa" => browser'.passkey.user = browser.pending
                    /\ verified' = verified
      <3>1. CASE mode = "mfa" /\ ~PendingInTime
        BY <1>0, <1>a, <2>1, <3>1 DEF PasskeyOptions
      <3>2. CASE ~(mode = "mfa" /\ ~PendingInTime)
        <4>1. browser'.passkey = [user |-> ChallengeUser(mode, u), mode |-> mode, age |-> 0]
          BY <1>0, <2>1, <3>2 DEF PasskeyOptions, Browser
        <4>2. verified' = verified
          BY <2>1 DEF PasskeyOptions
        <4>q. QED BY <3>2, <4>1, <4>2 DEF ChallengeUser
      <3>q. QED BY <3>1, <3>2
    <2>2. CASE PasskeyRefused
      BY <1>b, <2>2 DEF PasskeyRefused
    <2>3. CASE Logout
      BY <2>3 DEF Logout, Forget, Anonymous
    <2>4. ASSUME NEW kind \in Kind, Enroll(kind)
          PROVE  browser'.passkey = browser.passkey
      BY <1>0, <2>4 DEF Enroll, Browser
    <2>q. QED BY <1>2, <2>1, <2>2, <2>3, <2>4
       DEF SignInStep, PasswordVerified, TotpVerified, PasskeyVerified
  <1>3. CASE RequestStep
    <2>1. CASE Establish
      <3>1. browser' = SessionData(browser) /\ (request.op \in {"single", "totp"} \/ WithPasskey)
        BY <2>1 DEF Establish
      <3>q. QED BY <3>1, SessionDataType
    <2>2. CASE EstablishRefused
      BY <1>b, <2>2 DEF EstablishRefused
    <2>3. CASE AskSecondFactor
      BY <1>0, <2>3 DEF AskSecondFactor, Browser
    <2>q. QED BY <1>3, <2>1, <2>2, <2>3 DEF RequestStep, NoSecondFactor, SingleFactor, Crash
  <1>4. CASE Elsewhere
    BY <1>4, ElsewhereChanges DEF Change
  <1>5. CASE CloseBrowser
    BY <1>5 DEF CloseBrowser, Forget, Anonymous
  <1>q. QED BY <1>1, <1>2, <1>3, <1>4, <1>5 DEF Next, vars, Visit, SessionEnds

---------------------------------------------------------------------------
(* The password before the second factor *)

\* A request that verified the password did so just now, a pending sign-in is no
\* older than its password, and a challenge for the second factor was issued to
\* somebody whose password was given.
PasswordGiven ==
  /\ request.op = "password" => verified[request.user] = 0
  /\ browser.pending # None => verified[browser.pending] <= browser.since
  /\ browser.passkey.user # None /\ browser.passkey.mode = "mfa" =>
       verified[browser.passkey.user] # Never

LEMMA PasswordGivenInitially == Init => PasswordGiven
  BY DEF Init, PasswordGiven, Idle, Anonymous, NoChallenge

LEMMA PasswordGivenInductive ==
  ASSUME Typed, PasswordGiven, [Next]_vars
  PROVE  PasswordGiven'
  <1>0. /\ browser \in Browser /\ Paired(browser) /\ verified \in [User -> Age]
        /\ browser.since \in Age /\ browser.passkey.user \in User \cup {None}
        /\ browser.pending \in User \cup {None} /\ browser.passkey.age \in Age
    BY DEF Typed, TypeOK, Paired, Browser
  <1>1. \A v \in User : verified[v] \in Age /\ (verified[v] = 0 => verified[v] # Never)
    BY <1>0, AgeBounds
  \* what only grows older, or is given again
  <1>2. CASE Tick
    <2>1. request' = request /\ request.op = "idle"
      BY <1>2, IdleType DEF Tick
    <2>2. /\ browser'.pending = browser.pending /\ browser'.since = Older(browser.since)
          /\ browser'.passkey.user = browser.passkey.user
          /\ browser'.passkey.mode = browser.passkey.mode
      BY <1>0, <1>2 DEF Tick, Browser
    <2>3. \A v \in User : verified'[v] = Older(verified[v])
      BY <1>2 DEF Tick
    <2>q. QED BY <1>0, <1>1, <2>1, <2>2, <2>3, OlderAge DEF PasswordGiven
  <1>3. ASSUME ~Tick
        PROVE  \A v \in User : verified'[v] \in {verified[v], 0} \/ browser' = Anonymous
    BY <1>0, <1>3, VerifiedSteps DEF PasswordVerified
  <1>4. ASSUME ~Tick
        PROVE  request'.op = "password" => verified'[request'.user] = 0
    <2>1. ASSUME NEW u \in User, PasswordVerified(u)
          PROVE  verified'[request'.user] = 0
      BY <1>0, <2>1, StartType DEF PasswordVerified
    <2>2. CASE TotpVerified \/ PasskeyVerified \/ SingleFactor
      <3>1. TotpVerified => request'.op = "totp"
        BY DEF TotpVerified, Start
      <3>2. PasskeyVerified => request'.op \in {"primary", "mfa"}
        BY <1>0 DEF PasskeyVerified, Start, Typed, TypeOK, Browser
      <3>3. SingleFactor => request'.op = "single"
        BY DEF SingleFactor, Typed, TypeOK, Request
      <3>q. QED BY <2>2, <3>1, <3>2, <3>3
    <2>3. CASE request' = request
      BY <1>4, <2>1, <2>3, VerifiedSteps, IdleType DEF PasswordGiven
    <2>q. QED BY <2>1, <2>2, <2>3, RequestSteps
  <1>5. ASSUME ~Tick
        PROVE  browser'.pending # None => verified'[browser'.pending] <= browser'.since
    <2>1. CASE Keeps(browser', browser)
      BY <1>0, <1>1, <1>3, <1>5, <2>1, AgeBounds DEF PasswordGiven, Keeps, Anonymous, Age
    <2>2. CASE AskSecondFactor
      BY <1>0, <2>2, AgeBounds DEF AskSecondFactor, PasswordGiven, Browser
    <2>q. QED BY <1>5, <2>1, <2>2, PendingSteps
  <1>6. ASSUME ~Tick
        PROVE  browser'.passkey.user # None /\ browser'.passkey.mode = "mfa" =>
                 verified'[browser'.passkey.user] # Never
    <2>1. CASE browser'.passkey = browser.passkey
      BY <1>0, <1>1, <1>3, <1>6, <2>1, AgeBounds DEF PasswordGiven, Anonymous, NoChallenge
    <2>2. CASE browser'.passkey = NoChallenge
      BY <2>2 DEF NoChallenge
    <2>3. CASE /\ ~(browser'.passkey.mode = "mfa" /\ ~PendingInTime)
               /\ browser'.passkey.mode = "mfa" => browser'.passkey.user = browser.pending
               /\ verified' = verified
      BY <1>0, <1>1, <2>3, AgeBounds, OldIsTooOld, TimesAreNatural
         DEF PasswordGiven, PendingInTime, Age, Never
    <2>q. QED BY <1>6, <2>1, <2>2, <2>3, ChallengeSteps
  <1>q. QED BY <1>2, <1>4, <1>5, <1>6 DEF PasswordGiven

\* A second factor that was verified is that of the sign-in it belongs to.
LEMMA SecondFactorSteps ==
  ASSUME Typed, [Next]_vars
  PROVE  /\ request'.op = "totp" /\ request.op # "totp" =>
              PendingInTime /\ request'.user = browser.pending
         /\ request'.op = "mfa" /\ request.op # "mfa" =>
              /\ browser.passkey.user # None /\ browser.passkey.mode = "mfa"
              /\ request'.user = browser.passkey.user
  <1>0. browser \in Browser
    BY DEF Typed, TypeOK
  <1>1. ASSUME NEW u \in User, PasswordVerified(u)
        PROVE  request'.op = "password"
    BY <1>1 DEF PasswordVerified, Start
  <1>2. CASE TotpVerified
    BY <1>2 DEF TotpVerified, Start
  <1>3. CASE PasskeyVerified
    BY <1>0, <1>3 DEF PasskeyVerified, ChallengeInTime, Start, Browser
  <1>4. CASE SingleFactor
    BY <1>4 DEF SingleFactor, Typed, TypeOK, Request
  <1>q. QED BY <1>1, <1>2, <1>3, <1>4, RequestSteps

\* The second factor of a password sign-in is accepted only for the account whose
\* password this PHP session has verified, within the time allowed for TOTP.
THEOREM PasswordBeforeFactor == Spec => PasswordCameFirst
  <1> DEFINE Step ==
        /\ request'.op = "totp" /\ request.op # "totp" => verified[request'.user] <= PendingTime
        /\ request'.op = "mfa" /\ request.op # "mfa" => verified[request'.user] # Never
  <1>1. ASSUME Typed, PasswordGiven, [Next]_vars
        PROVE  Step
    <2>1. PendingInTime => verified[browser.pending] <= PendingTime
      BY <1>1, TimesAreNatural, AgeBounds
         DEF PasswordGiven, PendingInTime, Typed, TypeOK, Browser, Age
    <2>q. QED BY <1>1, <2>1, SecondFactorSteps DEF PasswordGiven
  <1>2. Typed /\ PasswordGiven /\ [Next]_vars => [Step]_vars
    BY <1>1
  <1>3. Spec => [][Step]_vars
    BY <1>2, TypedInitially, TypedInductive, PasswordGivenInitially, PasswordGivenInductive,
       PTL DEF Spec
  <1>q. QED BY <1>3 DEF PasswordCameFirst

---------------------------------------------------------------------------
(* Passwords switched off *)

\* A request verified the password while it was on, and so did the one that left
\* the pending sign-in.
WasOn ==
  /\ request.op = "password" => account[request.user].pw \/ off[request.user] = 0
  /\ browser.pending # None =>
       account[browser.pending].pw \/ off[browser.pending] <= browser.since

LEMMA WasOnInitially == Init => WasOn
  BY DEF Init, WasOn, Idle, Anonymous

\* What becomes of the password and its time
LEMMA SwitchSteps ==
  ASSUME Typed, [Next]_vars, ~Tick, NEW v \in User
  PROVE  account'[v].pw \/ off'[v] = 0 \/ (~account[v].pw /\ off'[v] = off[v])
         \/ (account'[v].pw = account[v].pw /\ off'[v] = off[v])
  <1>0. account \in [User -> Account] /\ off \in [User -> Age] /\ browser \in Browser
    BY DEF Typed, TypeOK
  <1>1. ASSUME NEW u \in User, NEW changed, Changeable(u, changed), Change(u, changed)
        PROVE  account'[v].pw \/ off'[v] = 0 \/ (~account[v].pw /\ off'[v] = off[v])
               \/ (account'[v].pw = account[v].pw /\ off'[v] = off[v])
    BY <1>0, <1>1 DEF Change
  <1>2. ASSUME NEW kind \in Kind, Enroll(kind)
        PROVE  account'[v].pw = account[v].pw /\ off'[v] = off[v]
    BY <1>0, <1>2 DEF Enroll, Account
  <1>q. QED BY <1>1, <1>2, AccountSteps

LEMMA WasOnInductive ==
  ASSUME Typed, WasOn, [Next]_vars
  PROVE  WasOn'
  <1>0. /\ browser \in Browser /\ Paired(browser) /\ off \in [User -> Age]
        /\ account \in [User -> Account] /\ browser.since \in Age
        /\ browser.pending \in User \cup {None}
        /\ request.op # "idle" => request.user \in User
    BY DEF Typed, TypeOK, Paired, Browser, Named
  <1>1. CASE Tick
    <2>1. request' = request /\ request.op = "idle" /\ account' = account
      BY <1>1, IdleType DEF Tick
    <2>2. browser'.pending = browser.pending /\ browser'.since = Older(browser.since)
      BY <1>0, <1>1 DEF Tick, Browser
    <2>3. \A v \in User : off'[v] = Older(off[v]) /\ off[v] \in Age
      BY <1>0, <1>1 DEF Tick
    <2>q. QED BY <1>0, <2>1, <2>2, <2>3, OlderAge DEF WasOn
  <1>2. ASSUME ~Tick
        PROVE  request'.op = "password" => account'[request'.user].pw \/ off'[request'.user] = 0
    <2>1. ASSUME NEW u \in User, PasswordVerified(u)
          PROVE  account'[request'.user].pw
      BY <1>0, <2>1 DEF PasswordVerified, MayUsePassword, Start
    <2>2. CASE TotpVerified \/ PasskeyVerified \/ SingleFactor
      <3>1. TotpVerified => request'.op = "totp"
        BY DEF TotpVerified, Start
      <3>2. PasskeyVerified => request'.op \in {"primary", "mfa"}
        BY <1>0 DEF PasskeyVerified, Start, Browser
      <3>3. SingleFactor => request'.op = "single"
        BY DEF SingleFactor, Typed, TypeOK, Request
      <3>q. QED BY <2>2, <3>1, <3>2, <3>3
    <2>3. CASE request' = request
      BY <1>0, <1>2, <2>3, SwitchSteps DEF WasOn
    <2>q. QED BY <2>1, <2>2, <2>3, RequestSteps
  <1>3. ASSUME ~Tick
        PROVE  browser'.pending # None =>
                 account'[browser'.pending].pw \/ off'[browser'.pending] <= browser'.since
    <2>1. CASE Keeps(browser', browser)
      <3> SUFFICES ASSUME browser.pending # None
                   PROVE  account'[browser.pending].pw \/ off'[browser.pending] <= browser.since
        BY <2>1 DEF Keeps
      <3>1. browser.pending \in User /\ 0 <= browser.since
        BY <1>0 DEF Age
      <3>q. QED BY <1>3, <3>1, SwitchSteps DEF WasOn
    <2>2. CASE AskSecondFactor
      BY <1>0, <2>2 DEF AskSecondFactor, WasOn, Browser
    <2>q. QED BY <1>3, <2>1, <2>2, PendingSteps
  <1>q. QED BY <1>1, <1>2, <1>3 DEF WasOn

\* A sign-in with the password and a code outlives the switching-off of the
\* password by no more than the time its second factor may take.
THEOREM SwitchingOffHolds == Spec => OffTakesHold
  <1> DEFINE Step == request'.op = "totp" /\ request.op # "totp" =>
                       account[request'.user].pw \/ off[request'.user] <= PendingTime
  <1>1. ASSUME Typed, WasOn, [Next]_vars
        PROVE  Step
    <2>1. PendingInTime => account[browser.pending].pw \/ off[browser.pending] <= PendingTime
      BY <1>1, TimesAreNatural, AgeBounds DEF WasOn, PendingInTime, Typed, TypeOK, Browser, Age
    <2>q. QED BY <1>1, <2>1, SecondFactorSteps
  <1>2. Typed /\ WasOn /\ [Next]_vars => [Step]_vars
    BY <1>1
  <1>3. Spec => [][Step]_vars
    BY <1>2, TypedInitially, TypedInductive, WasOnInitially, WasOnInductive, PTL DEF Spec
  <1>q. QED BY <1>3 DEF OffTakesHold

---------------------------------------------------------------------------
(* The strong factor before the workspace *)

\* A sign-in with the password alone that is not asked to enroll, and a session
\* that came of one, are those of an account that has a key.
HasKey ==
  /\ request.op = "single" /\ ~request.setup =>
       account[request.user].keys # {} \/ ~Open(request.user)
  /\ row.live /\ row.single /\ ~browser.setup => account[browser.user].keys # {}

LEMMA HasKeyInitially == Init => HasKey
  BY DEF Init, HasKey, Idle, NoRow

\* Nobody's keys go in a step that leaves the account open, if it had any.
LEMMA KeysStay ==
  ASSUME Typed, [Next]_vars, NEW v \in User, account[v].keys # {} \/ ~Open(v)
  PROVE  account'[v].keys # {} \/ account'[v].state # "open"
  <1>0. account \in [User -> Account] /\ browser \in Browser
    BY DEF Typed, TypeOK
  <1>1. ASSUME NEW u \in User, NEW changed, Changeable(u, changed), Change(u, changed)
        PROVE  account'[v].keys # {} \/ account'[v].state # "open"
    BY <1>0, <1>1 DEF Change, Changeable, Open
  <1>2. ASSUME NEW kind \in Kind, Enroll(kind)
        PROVE  account'[v].keys # {} \/ account'[v].state # "open"
    BY <1>0, <1>2 DEF Enroll, Account, Open
  <1>3. CASE Tick
    BY <1>3 DEF Tick, Open
  <1>q. QED BY <1>1, <1>2, <1>3, AccountSteps DEF Open

\* The session row, and whose it is
LEMMA RowSteps ==
  ASSUME Typed, [Next]_vars
  PROVE  \/ ~row'.live
         \/ /\ row' = row /\ browser'.user = browser.user /\ browser'.setup = browser.setup
            /\ account' = account
         \/ \E kind \in Kind : Enroll(kind)
         \/ Establish
         \/ /\ row'.single = row.single /\ (row'.live => row.live) /\ browser' = browser
            /\ row.live => account'[browser.user] = account[browser.user] \/ ~row'.live
  <1>0. browser \in Browser /\ row \in [live: BOOLEAN, single: BOOLEAN]
        /\ account \in [User -> Account]
    BY DEF Typed, TypeOK
  <1> DEFINE Same == /\ row' = row /\ browser'.user = browser.user
                     /\ browser'.setup = browser.setup /\ account' = account
  <1>a. \A b \in Browser : WithoutPending(b).user = b.user /\ WithoutPending(b).setup = b.setup
    BY WithoutPendingType
  <1>b. /\ Spent \in Browser /\ Spent.user = browser.user /\ Spent.setup = browser.setup
        /\ WithoutPending(Spent).user = browser.user /\ WithoutPending(Spent).setup = browser.setup
    BY <1>0, <1>a, SpentType
  <1>1. CASE Answer
    <2>1. Same
      BY <1>0, <1>1, <1>a DEF Answer, AnswerLogin, AnswerVerify, AnswerAdmin
    <2>q. QED BY <2>1
  <1>2. CASE SignInStep
    <2>1. ASSUME NEW mode \in {"primary", "mfa"}, NEW u \in User, PasskeyOptions(mode, u)
          PROVE  Same
      <3>1. CASE mode = "mfa" /\ ~PendingInTime
        BY <1>0, <1>a, <2>1, <3>1 DEF PasskeyOptions
      <3>2. CASE ~(mode = "mfa" /\ ~PendingInTime)
        BY <1>0, <2>1, <3>2 DEF PasskeyOptions, Browser
      <3>q. QED BY <3>1, <3>2
    <2>2. PasskeyRefused => Same
      BY <1>b DEF PasskeyRefused
    <2>3. Logout => ~row'.live
      BY DEF Logout, Forget, NoRow
    <2>4. (\E u \in User : PasswordVerified(u)) \/ TotpVerified \/ PasskeyVerified => Same
      BY DEF PasswordVerified, TotpVerified, PasskeyVerified
    <2> HIDE DEF Same
    <2>5. Same \/ ~row'.live \/ \E kind \in Kind : Enroll(kind)
      BY <1>2, <2>1, <2>2, <2>3, <2>4 DEF SignInStep
    <2>q. QED BY <2>5 DEF Same
  <1>3. CASE RequestStep
    <2>1. AskSecondFactor => Same
      BY <1>0 DEF AskSecondFactor, Browser
    <2>2. NoSecondFactor \/ SingleFactor \/ Crash => Same
      BY DEF NoSecondFactor, SingleFactor, Crash
    <2>3. EstablishRefused => Same
      BY <1>b DEF EstablishRefused
    <2> HIDE DEF Same
    <2>4. Same \/ Establish
      BY <1>3, <2>1, <2>2, <2>3 DEF RequestStep
    <2>q. QED BY <2>4 DEF Same
  <1>4. CASE Elsewhere
    <2> PICK u \in User : \E changed : Change(u, changed)
      BY <1>4, ElsewhereChanges
    <2> PICK changed : Change(u, changed)
      OBVIOUS
    <2>1. /\ row'.single = row.single /\ browser' = browser
          /\ row'.live = (row.live /\ browser.user # u)
      BY <1>0 DEF Change
    <2>2. browser.user # u => account'[browser.user] = account[browser.user]
      BY <1>0 DEF Change
    <2>q. QED BY <2>1, <2>2
  <1>5. CASE CloseBrowser
    BY <1>5 DEF CloseBrowser, Forget, NoRow
  <1>6. CASE SessionEnds
    BY <1>0, <1>6 DEF SessionEnds
  <1>7. CASE Tick
    <2>1. Same
      BY <1>0, <1>7 DEF Tick, Browser
    <2>q. QED BY <2>1
  <1>8. CASE (\E path \in Path : Visit(path)) \/ UNCHANGED vars
    BY <1>8 DEF Visit, vars
  <1>q. QED BY <1>1, <1>2, <1>3, <1>4, <1>5, <1>6, <1>7, <1>8 DEF Next

LEMMA HasKeyInductive ==
  ASSUME Typed, HasKey, [Next]_vars
  PROVE  HasKey'
  <1>0. /\ account \in [User -> Account] /\ browser \in Browser
        /\ row.live => browser.user # None
        /\ request.op # "idle" => request.user \in User
    BY DEF Typed, TypeOK, Named
  <1>1. request'.op = "single" /\ ~request'.setup =>
          account'[request'.user].keys # {} \/ account'[request'.user].state # "open"
    <2>1. CASE request' = request
      <3>1. request.op = "single" /\ ~request.setup =>
              account'[request.user].keys # {} \/ account'[request.user].state # "open"
        BY <1>0, KeysStay DEF HasKey
      <3>q. QED BY <2>1, <3>1
    <2>2. CASE SingleFactor
      BY <1>0, <2>2 DEF SingleFactor, SetupRequired, Typed, TypeOK, Request
    <2>3. (\E u \in User : PasswordVerified(u)) => request'.op = "password"
      BY DEF PasswordVerified, Start
    <2>4. TotpVerified => request'.op = "totp"
      BY DEF TotpVerified, Start
    <2>5. PasskeyVerified => request'.op \in {"primary", "mfa"}
      BY <1>0 DEF PasskeyVerified, Start, Browser
    <2>q. QED BY <2>1, <2>2, <2>3, <2>4, <2>5, RequestSteps
  <1>2. row'.live /\ row'.single /\ ~browser'.setup => account'[browser'.user].keys # {}
    <2>1. ASSUME NEW kind \in Kind, Enroll(kind)
          PROVE  account'[browser'.user].keys # {}
      <3>1. browser.user \in User /\ browser'.user = browser.user
        BY <1>0, <2>1 DEF Enroll, SignedIn, Browser
      <3>q. QED BY <1>0, <2>1, <3>1 DEF Enroll, Account
    <2>2. CASE Establish
      <3>1. /\ browser' = SessionData(browser) /\ account' = account /\ Open(request.user)
            /\ row'.single <=> request.op = "single"
            /\ request.op \in {"single", "totp"} \/ WithPasskey
        BY <2>2 DEF Establish
      <3>q. QED BY <3>1, SessionDataType DEF HasKey
    <2>q. QED BY <1>0, <2>1, <2>2, RowSteps DEF HasKey
  <1>q. QED BY <1>1, <1>2 DEF HasKey, Open

\* A session that rests on the password alone reaches the workspace only when the
\* account has a strong factor.
THEOREM FactorBeforeWorkspace == Spec => EnrolledBeforeWorkspace
  <1> DEFINE Step == at = "workspace" /\ at' = "page" /\ row.single =>
                       account[browser.user].keys # {}
  <1>1. ASSUME Typed, HasKey, [Next]_vars
        PROVE  Step
    <2> SUFFICES ASSUME at = "workspace", at' = "page"
                 PROVE  row.live /\ ~browser.setup
      BY <1>1 DEF HasKey
    <2>1. AnswerAdmin
      <3>1. at' # at /\ at # "page" /\ at # "login" /\ at # "verify" /\ at' # "verify"
            /\ at' # "workspace"
        OBVIOUS
      <3>2. ~RequestStep
        BY <3>1 DEF RequestStep, AskSecondFactor, NoSecondFactor, SingleFactor, Establish,
                    EstablishRefused, Crash
      <3>3. ~SignInStep
        BY <3>1 DEF SignInStep, PasswordVerified, TotpVerified, PasskeyOptions, PasskeyRefused,
                    PasskeyVerified, Logout, Enroll
      <3>4. ~Elsewhere
        BY <1>1, <3>1, ElsewhereChanges DEF Change
      <3>q. QED BY <1>1, <3>1, <3>2, <3>3, <3>4
         DEF Next, Visit, Answer, AnswerLogin, AnswerVerify, CloseBrowser, SessionEnds, Tick, vars
    <2>q. QED BY <2>1 DEF AnswerAdmin, SignedIn, SetupPages
  <1>2. Typed /\ HasKey /\ [Next]_vars => [Step]_vars
    BY <1>1
  <1>3. Spec => [][Step]_vars
    BY <1>2, TypedInitially, TypedInductive, HasKeyInitially, HasKeyInductive, PTL DEF Spec
  <1>q. QED BY <1>3 DEF EnrolledBeforeWorkspace
---------------------------------------------------------------------------
(* Redirects: the part of Settles that is about single steps *)

\* The redirects that a browser on its way to a path may still get: for one that is
\* not signed in the form is the last of them, for one that is the security page is.
Redirects(path) ==
  IF browser.user = None
  THEN CASE path = "page" -> 0 [] path = "login" -> 1 [] path = "verify" -> 2 [] OTHER -> 3
  ELSE CASE path = "page" -> 0 [] path = "security" -> 1 [] path = "workspace" -> 2
         [] path = "login" -> 3 [] OTHER -> 4
RedirectsLeft == Redirects(at)

\* A browser that is being redirected has no other request in flight.
NothingRead == at # "page" => request = Idle

LEMMA RedirectSteps ==
  ASSUME Typed, NothingRead, at # "page", [Next]_vars
  PROVE  \/ Answer
         \/ /\ at' = at /\ request' = request
            /\ browser'.user = browser.user /\ browser'.pending = browser.pending
            /\ row'.live => row.live
  <1>0. browser \in Browser /\ request = Idle /\ request.op = "idle"
    BY DEF Typed, TypeOK, NothingRead, Idle
  <1>1. ~SignInStep /\ ~CloseBrowser /\ \A path \in Path : ~Visit(path)
    BY DEF SignInStep, PasswordVerified, TotpVerified, PasskeyOptions, PasskeyRefused,
           PasskeyVerified, Logout, Enroll, CloseBrowser, Visit
  <1>2. ~RequestStep
    BY <1>0 DEF RequestStep, AskSecondFactor, NoSecondFactor, SingleFactor, Establish,
                EstablishRefused, Crash, WithPasskey
  <1>3. CASE Elsewhere
    <2>1. PICK u \in User : \E changed : Change(u, changed)
      BY <1>3, ElsewhereChanges
    <2>q. QED BY <2>1 DEF Change, Typed, TypeOK
  <1>4. CASE Tick
    BY <1>0, <1>4 DEF Tick, Browser
  <1>5. CASE SessionEnds
    BY <1>5 DEF SessionEnds
  <1>6. CASE UNCHANGED vars
    BY <1>6 DEF vars
  <1>q. QED BY <1>1, <1>2, <1>3, <1>4, <1>5, <1>6 DEF Next

\* An answer to a browser whose session has not ended shows a page or sends the
\* browser to a path with fewer redirects left.
LEMMA AnswersLead ==
  ASSUME Typed, Answer, ~Stale'
  PROVE  RedirectsLeft' < RedirectsLeft /\ (at' # "page" => at' \in Path)
  <1>0. browser \in Browser /\ (row.live => browser.user # None)
    BY DEF Typed, TypeOK
  <1>1. CASE AnswerLogin
    BY <1>1 DEF AnswerLogin, RedirectsLeft, Redirects, Path
  <1>2. CASE AnswerVerify
    <2>1. browser'.user = browser.user
      BY <1>0, <1>2 DEF AnswerVerify, WithoutPending, Browser
    <2>q. QED BY <1>2, <2>1 DEF AnswerVerify, RedirectsLeft, Redirects, Path
  <1>3. CASE AnswerAdmin
    <2>1. browser' = browser /\ row' = row /\ (SignedIn <=> browser.user # None)
      BY <1>0, <1>3 DEF AnswerAdmin, SignedIn, Stale
    <2>2. CASE SignedIn
      BY <1>3, <2>1, <2>2 DEF AnswerAdmin, SetupPages, RedirectsLeft, Redirects, Path
    <2>3. CASE ~SignedIn
      BY <1>3, <2>1, <2>3 DEF AnswerAdmin, RedirectsLeft, Redirects, Path
    <2>q. QED BY <2>2, <2>3
  <1>q. QED BY <1>1, <1>2, <1>3 DEF Answer

LEMMA NothingReadInductive ==
  ASSUME Typed, NothingRead, [Next]_vars
  PROVE  NothingRead'
  <1>1. CASE at # "page"
    <2>1. Answer => request' = request
      BY DEF Answer, AnswerLogin, AnswerVerify, AnswerAdmin
    <2>q. QED BY <1>1, <2>1, RedirectSteps DEF NothingRead
  <1>2. CASE at = "page"
    <2>1. ASSUME at' # "page" PROVE request' = Idle
      <3>1. ~Answer
        BY <1>2 DEF Answer, AnswerLogin, AnswerVerify, AnswerAdmin
      <3>2. SignInStep => request' = Idle
        BY <1>2, <2>1 DEF SignInStep, PasswordVerified, TotpVerified, PasskeyOptions,
                          PasskeyRefused, PasskeyVerified, Logout, Enroll
      <3>3. RequestStep => request' = Idle
        BY <1>2, <2>1 DEF RequestStep, AskSecondFactor, NoSecondFactor, SingleFactor, Establish,
                          EstablishRefused, Crash
      <3>4. ~Elsewhere
        BY <1>2, <2>1, ElsewhereChanges DEF Change
      <3>q. QED BY <1>2, <2>1, <3>1, <3>2, <3>3, <3>4
         DEF Next, Visit, CloseBrowser, SessionEnds, Tick, vars
    <2>q. QED BY <2>1 DEF NothingRead
  <1>q. QED BY <1>1, <1>2

LEMMA NothingReadAlways == Spec => [](Typed /\ NothingRead)
  <1>1. Init => NothingRead
    BY DEF Init, NothingRead
  <1>q. QED BY <1>1, TypedInitially, TypedInductive, NothingReadInductive, PTL DEF Spec

CloserToAPage ==
  [][at # "page" /\ ~Stale' =>
       \/ Answer /\ RedirectsLeft' < RedirectsLeft
       \/ at' = at /\ RedirectsLeft' = RedirectsLeft]_vars

\* As long as the browser does not hold the user_id of a session that has ended, each
\* answer of LoginHandler, TotpVerifyHandler or AdminAuthMiddleware shows a page or
\* brings the browser nearer to one, and nothing that happens to accounts or sessions
\* meanwhile takes it back: four redirects are the most it gets.
THEOREM RedirectsEnd == Spec => CloserToAPage
  <1> DEFINE Step == at # "page" /\ ~Stale' =>
                       \/ Answer /\ RedirectsLeft' < RedirectsLeft
                       \/ at' = at /\ RedirectsLeft' = RedirectsLeft
  <1>1. Typed /\ NothingRead /\ [Next]_vars => [Step]_vars
    BY RedirectSteps, AnswersLead DEF RedirectsLeft, Redirects
  <1>2. Spec => [][Step]_vars
    BY <1>1, NothingReadAlways, PTL DEF Spec
  <1>q. QED BY <1>2 DEF CloserToAPage

\* The session of the browser has ended, the session data still names its user, and
\* no second factor waits.
Looping == Stale /\ browser.pending = None /\ at \in {"login", "workspace", "security"}

\* LoginHandler looks at user_id alone, AdminAuthMiddleware at the session row: the
\* two send such a browser back and forth whatever others do to the account, as long
\* as it follows the redirects and keeps its cookie.
THEOREM LoopIsClosed == Spec => [](Looping => []Looping)
  <1>1. ASSUME Typed, NothingRead, [Next]_vars, Looping
        PROVE  Looping'
    <2>1. CASE Answer
      BY <1>1, <2>1 DEF Answer, AnswerLogin, AnswerVerify, AnswerAdmin, Looping, Stale, SignedIn
    <2>2. CASE ~Answer
      <3>1. at # "page"
        BY <1>1 DEF Looping
      <3>q. QED BY <1>1, <2>2, <3>1, RedirectSteps DEF Looping, Stale
    <2>q. QED BY <2>1, <2>2
  <1>2. Typed /\ NothingRead /\ [Next]_vars /\ Looping => Looping'
    BY <1>1
  <1>q. QED BY <1>2, NothingReadAlways, PTL DEF Spec
=============================================================================
