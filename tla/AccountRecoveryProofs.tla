------------------------ MODULE AccountRecoveryProofs ------------------------
(***************************************************************************)
(* Proofs about AccountRecovery for every number of accounts, browsers,    *)
(* tickets, credentials and sessions.  The last part proves that it        *)
(* implements RecoveryContract: each operation maps to one operation of    *)
(* the contract, or to none.                                               *)
(***************************************************************************)
EXTENDS AccountRecovery, TLAPS

---------------------------------------------------------------------------
(* Typing *)

\* Revoking sessions and replacing a PHP session id keep the table well typed.
LEMMA SessionTables ==
  ASSUME TypeOK
  PROVE  /\ \A S : RevokeSessions(S) \in [SessionId -> SessionRow]
         /\ \A rows \in [SessionId -> SessionRow] :
              \A b : Regenerate(rows, b) \in [SessionId -> SessionRow]
  <1>1. ASSUME NEW S, NEW s \in SessionId
        PROVE  [sessions[s] EXCEPT !.revoked = @ \/ s \in S] \in SessionRow
    <2>1. sessions[s] \in SessionRow
      BY DEF TypeOK
    <2>q. QED BY <2>1 DEF SessionRow
  <1>2. ASSUME NEW rows \in [SessionId -> SessionRow], NEW b, NEW s \in SessionId
        PROVE  [rows[s] EXCEPT !.php = IF @ = b THEN None ELSE @] \in SessionRow
    <2>1. rows[s] \in SessionRow
      OBVIOUS
    <2>q. QED BY <2>1 DEF SessionRow
  <1>3. \A S : RevokeSessions(S) \in [SessionId -> SessionRow]
    BY <1>1 DEF RevokeSessions
  <1>4. \A rows \in [SessionId -> SessionRow] :
          \A b : Regenerate(rows, b) \in [SessionId -> SessionRow]
    BY <1>2 DEF Regenerate
  <1>q. QED BY <1>3, <1>4

\* The rows the code inserts are well typed.
LEMMA InitType == Init => TypeOK
  BY BoundsAreNatural
  DEF Init, TypeOK, Status, TicketRow, CredRow, SessionRow, BrowserData, Request, Op, Purpose,
      Kind, NoTicketRow, NoCredRow, NoSessionRow, Anonymous, Idle, TicketId, CredId, SessionId

\* The transactions shared by several actions keep their tables well typed.
LEMMA IssueType ==
  ASSUME TypeOK, NEW u \in User, NEW recovery \in BOOLEAN, Issue(u, recovery)
  PROVE  /\ account' \in [User -> Status] /\ mfaRequired' \in [User -> BOOLEAN]
         /\ tickets' \in [TicketId -> TicketRow] /\ lastTicket' \in 0..MaxTicket
         /\ creds' \in [CredId -> CredRow] /\ lastCred' \in 0..MaxCred
         /\ sessions' \in [SessionId -> SessionRow] /\ lastSession' \in 0..MaxSession
  <1>1. TicketsRevoked(u) \in [TicketId -> TicketRow]
    <2>1. ASSUME NEW t \in TicketId
          PROVE  [tickets[t] EXCEPT !.revoked = @ \/ (tickets[t].user = u /\ ~tickets[t].consumed)]
                   \in TicketRow
      <3>1. tickets[t] \in TicketRow
        BY DEF TypeOK
      <3>q. QED BY <3>1 DEF TicketRow
    <2>q. QED BY <2>1 DEF TicketsRevoked
  <1>2. [NoTicketRow EXCEPT !.user = u,
                            !.purpose = IF recovery THEN "recovery" ELSE "activation"]
          \in TicketRow
    BY DEF NoTicketRow, TicketRow, Purpose
  <1>3. tickets' \in [TicketId -> TicketRow]
    BY <1>1, <1>2 DEF Issue
  <1>4. sessions' \in [SessionId -> SessionRow]
    BY SessionTables DEF Issue, RevokeUser
  <1>5. account' \in [User -> Status]
    BY DEF Issue, TypeOK, Status
  <1>6. lastTicket' \in 0..MaxTicket
    BY BoundsAreNatural DEF Issue, TypeOK
  <1>q. QED BY <1>3, <1>4, <1>5, <1>6 DEF Issue, TypeOK

LEMMA CompleteType ==
  ASSUME TypeOK, NEW u \in User, NEW t \in TicketId, Complete(u, t)
  PROVE  /\ account' \in [User -> Status] /\ mfaRequired' \in [User -> BOOLEAN]
         /\ tickets' \in [TicketId -> TicketRow] /\ lastTicket' \in 0..MaxTicket
         /\ creds' \in [CredId -> CredRow] /\ lastCred' \in 0..MaxCred
         /\ sessions' \in [SessionId -> SessionRow] /\ lastSession' \in 0..MaxSession
  <1>1. tickets' \in [TicketId -> TicketRow]
    BY DEF Complete, Consume, TypeOK, TicketRow
  <1>2. creds' \in [CredId -> CredRow]
    BY DEF Complete, NoCredRow, CredRow, Kind, TypeOK
  <1>3. account' \in [User -> Status] /\ mfaRequired' \in [User -> BOOLEAN]
    BY DEF Complete, TypeOK, Status
  <1>4. lastCred' \in 0..MaxCred
    BY BoundsAreNatural DEF Complete, TypeOK
  <1>q. QED BY <1>1, <1>2, <1>3, <1>4 DEF Complete, TypeOK

LEMMA EstablishType ==
  ASSUME TypeOK, NEW b \in Browser, NEW u \in User, Establish(b, u)
  PROVE  /\ account' \in [User -> Status] /\ mfaRequired' \in [User -> BOOLEAN]
         /\ tickets' \in [TicketId -> TicketRow] /\ lastTicket' \in 0..MaxTicket
         /\ creds' \in [CredId -> CredRow] /\ lastCred' \in 0..MaxCred
         /\ sessions' \in [SessionId -> SessionRow] /\ lastSession' \in 0..MaxSession
         /\ lastSession + 1 \in 0..MaxSession
  <1>1. [user |-> u, revoked |-> FALSE, expired |-> FALSE, php |-> None] \in SessionRow
    BY DEF SessionRow
  <1>2. sessions' \in [SessionId -> SessionRow]
    BY <1>1 DEF Establish, TypeOK
  <1>3. lastSession' \in 0..MaxSession /\ lastSession + 1 \in 0..MaxSession
    BY BoundsAreNatural DEF Establish, TypeOK
  <1>q. QED BY <1>2, <1>3 DEF Establish, TypeOK

\* A request in flight names an account; one in front of complete() holds the
\* context of a ticket, which stays in place because the session file is locked.
RequestsBound ==
  \A b \in Browser :
    /\ request[b].op # "idle" => request[b].user \in User
    /\ request[b].op = "finish" => browser[b].ticket \in TicketId

\* What requests put into the stored session data of a browser is well typed.
LEMMA BrowserUpdates ==
  /\ Anonymous \in BrowserData
  /\ \A d \in BrowserData : DropChallenge(d) \in BrowserData /\ ClearContext(d) \in BrowserData
  /\ \A d \in BrowserData, t \in TicketId :
       [d EXCEPT !.ticket = t, !.fresh = TRUE] \in BrowserData
  /\ \A d \in BrowserData : [d EXCEPT !.challenge = d.ticket, !.challengeFresh = TRUE] \in BrowserData
  /\ \A d \in BrowserData, u \in User, s \in 0..MaxSession :
       [d EXCEPT !.user = u, !.session = s] \in BrowserData
  <1>1. Anonymous \in BrowserData
    BY BoundsAreNatural DEF Anonymous, BrowserData
  <1>0. 0 \in 0..MaxTicket /\ \A t \in TicketId : t \in 0..MaxTicket
    BY BoundsAreNatural DEF TicketId
  <1>2. \A d \in BrowserData : DropChallenge(d) \in BrowserData
    BY <1>0 DEF DropChallenge, BrowserData
  <1>3. \A d \in BrowserData : ClearContext(d) \in BrowserData
    BY <1>0, <1>2 DEF ClearContext, BrowserData
  <1>4. \A d \in BrowserData, t \in TicketId :
          [d EXCEPT !.ticket = t, !.fresh = TRUE] \in BrowserData
    BY <1>0 DEF BrowserData
  <1>5. \A d \in BrowserData :
          [d EXCEPT !.challenge = d.ticket, !.challengeFresh = TRUE] \in BrowserData
    BY DEF BrowserData
  <1>6. \A d \in BrowserData, u \in User, s \in 0..MaxSession :
          [d EXCEPT !.user = u, !.session = s] \in BrowserData
    BY DEF BrowserData
  <1>q. QED BY <1>1, <1>2, <1>3, <1>4, <1>5, <1>6

LEMMA Responding ==
  ASSUME TypeOK, NEW b \in Browser, Respond(b)
  PROVE  request' \in [Browser -> Request]
  <1>1. Idle \in Request
    BY DEF Idle, Request, Op
  <1>q. QED BY <1>1 DEF Respond, TypeOK

LEMMA AccountStepType ==
  ASSUME TypeOK, NEW u \in User, AccountStep(u)
  PROVE  TypeOK'
  <1>1. CASE CreateAccount(u)
    BY <1>1 DEF CreateAccount, TypeOK, Status
  <1>2. CASE DeleteAccount(u)
    BY <1>2 DEF DeleteAccount, TypeOK, Status, TicketRow, CredRow, SessionRow, Purpose, Kind,
                NoTicketRow, NoCredRow, NoSessionRow
  <1>3. ASSUME NEW recovery \in BOOLEAN, IssueFromCli(u, recovery) PROVE TypeOK'
    BY <1>3, IssueType DEF IssueFromCli, TypeOK
  <1>q. QED BY <1>1, <1>2, <1>3 DEF AccountStep

LEMMA ActivationStepType ==
  ASSUME TypeOK, RequestsBound, NEW b \in Browser, ActivationStep(b)
  PROVE  TypeOK'
  <1>1. ASSUME NEW t \in TicketId, VerifyTicket(b, t) PROVE TypeOK'
    <2>0. /\ [Anonymous EXCEPT !.ticket = t, !.fresh = TRUE] \in BrowserData
          /\ [browser[b] EXCEPT !.ticket = t, !.fresh = TRUE] \in BrowserData
      BY BrowserUpdates DEF TypeOK
    <2>1. browser' \in [Browser -> BrowserData]
      BY <1>1, <2>0 DEF VerifyTicket, TypeOK
    <2>2. sessions' \in [SessionId -> SessionRow]
      BY <1>1, SessionTables DEF VerifyTicket, Revoke, TypeOK
    <2>q. QED BY <1>1, <2>1, <2>2 DEF VerifyTicket, TypeOK
  <1>2. CASE DropContext(b)
    BY <1>2, BrowserUpdates DEF DropContext, TypeOK, tables
  <1>3. CASE RegistrationOptions(b)
    BY <1>3, BrowserUpdates DEF RegistrationOptions, TypeOK, tables
  <1>4. CASE FinishBegin(b)
    <2>1. browser[b].ticket \in TicketId
      BY <1>4 DEF FinishBegin, ContextHolds, TypeOK, BrowserData, TicketId
    <2>2. tickets[browser[b].ticket].user \in User \cup {None}
      BY <2>1 DEF TypeOK, TicketRow
    <2>3. request' \in [Browser -> Request]
      BY <1>4, <2>2 DEF FinishBegin, TypeOK, Request, Op
    <2>q. QED BY <1>4, <2>3 DEF FinishBegin, TypeOK, tables
  <1>5. CASE FinishRejected(b)
    BY <1>5, BrowserUpdates DEF FinishRejected, TypeOK, tables
  <1>6. CASE FinishCommit(b)
    <2>1. request[b].user \in User /\ browser[b].ticket \in TicketId
      BY <1>6 DEF FinishCommit, RequestsBound
    <2>2. request' \in [Browser -> Request]
      BY <1>6 DEF FinishCommit, TypeOK, Request, Op
    <2>q. QED BY <1>6, <2>1, <2>2, CompleteType DEF FinishCommit, TypeOK
  <1>7. CASE FinishFailed(b)
    BY <1>7, BrowserUpdates, Responding DEF FinishFailed, TypeOK, tables
  <1>8. CASE RecoveryReply(b)
    <2>1. browser' \in [Browser -> BrowserData]
      BY <1>8, BrowserUpdates DEF RecoveryReply, TypeOK
    <2>2. sessions' \in [SessionId -> SessionRow]
      BY <1>8, SessionTables DEF RecoveryReply, Revoke
    <2>q. QED BY <1>8, Responding, <2>1, <2>2 DEF RecoveryReply, TypeOK
  <1>9. CASE ActivationReply(b)
    <2>1. request[b].user \in User
      BY <1>9 DEF ActivationReply, RequestsBound
    <2>2. [Anonymous EXCEPT !.user = request[b].user, !.session = lastSession + 1] \in BrowserData
      BY <1>9, <2>1, EstablishType, BrowserUpdates DEF ActivationReply
    <2>q. QED BY <1>9, Responding, <2>1, <2>2, EstablishType DEF ActivationReply, TypeOK
  <1>10. CASE ActivationReplyRefused(b)
    <2>1. browser' \in [Browser -> BrowserData]
      <3>1. /\ browser[b] \in BrowserData /\ ClearContext(browser[b]) \in BrowserData
            /\ DropChallenge(browser[b]) \in BrowserData
        BY BrowserUpdates DEF TypeOK
      <3>2. \/ browser' = [browser EXCEPT ![b] = ClearContext(browser[b])]
            \/ browser' = [browser EXCEPT ![b] = DropChallenge(browser[b])]
        BY <1>10 DEF ActivationReplyRefused
      <3>q. QED BY <3>1, <3>2 DEF TypeOK
    <2>2. sessions' \in [SessionId -> SessionRow]
      BY <1>10, SessionTables DEF ActivationReplyRefused, TypeOK
    <2>q. QED BY <1>10, Responding, <2>1, <2>2 DEF ActivationReplyRefused, TypeOK
  <1>q. QED
    BY <1>1, <1>2, <1>3, <1>4, <1>5, <1>6, <1>7, <1>8, <1>9, <1>10 DEF ActivationStep

LEMMA SessionStepType ==
  ASSUME TypeOK, RequestsBound, NEW b \in Browser, SessionStep(b)
  PROVE  TypeOK'
  <1>1. ASSUME NEW u \in User, NEW op \in {"signin", "signin_webauthn"}, SignInVerified(b, u, op)
        PROVE  TypeOK'
    <2>1. request' \in [Browser -> Request]
      BY <1>1 DEF SignInVerified, TypeOK, Request, Op
    <2>q. QED BY <1>1, <2>1 DEF SignInVerified, TypeOK, tables
  <1>2. CASE SignInEstablish(b)
    <2>1. request[b].user \in User
      BY <1>2 DEF SignInEstablish, RequestsBound
    <2>2. browser' \in [Browser -> BrowserData]
      BY <1>2, <2>1, EstablishType, BrowserUpdates DEF SignInEstablish, TypeOK
    <2>q. QED BY <1>2, Responding, <2>1, <2>2, EstablishType DEF SignInEstablish, TypeOK
  <1>3. CASE SignInRefused(b)
    <2>1. sessions' \in [SessionId -> SessionRow]
      BY <1>3, SessionTables DEF SignInRefused, TypeOK
    <2>q. QED BY <1>3, Responding, <2>1 DEF SignInRefused, TypeOK
  <1>4. CASE EstablishThenCrash(b)
    <2>1. request[b].user \in User
      BY <1>4 DEF EstablishThenCrash, RequestsBound
    <2>2. [user |-> request[b].user, revoked |-> FALSE, expired |-> FALSE, php |-> b] \in SessionRow
      BY <2>1 DEF SessionRow
    <2>3. sessions' \in [SessionId -> SessionRow]
      BY <1>4, <2>2 DEF EstablishThenCrash, TypeOK
    <2>4. lastSession' \in 0..MaxSession
      BY <1>4, BoundsAreNatural DEF EstablishThenCrash, TypeOK
    <2>q. QED BY <1>4, Responding, <2>3, <2>4 DEF EstablishThenCrash, TypeOK
  <1>5. CASE RejectSession(b)
    BY <1>5, SessionTables DEF RejectSession, Revoke, TypeOK
  <1>6. CASE Logout(b)
    <2>1. browser' \in [Browser -> BrowserData]
      BY <1>6, BrowserUpdates DEF Logout, TypeOK
    <2>q. QED BY <1>6, <2>1, SessionTables DEF Logout, Revoke, TypeOK
  <1>q. QED BY <1>1, <1>2, <1>3, <1>4, <1>5, <1>6 DEF SessionStep

LEMMA AdminStepType ==
  ASSUME TypeOK, RequestsBound, NEW b \in Browser, AdminStep(b)
  PROVE  TypeOK'
  <1>1. ASSUME NEW u \in User, IssueBegin(b, u) PROVE TypeOK'
    <2>1. ReissueAsRecovery(u) \in BOOLEAN
      BY DEF ReissueAsRecovery
    <2>2. request' \in [Browser -> Request]
      BY <1>1, <2>1 DEF IssueBegin, TypeOK, Request, Op
    <2>q. QED BY <1>1, <2>2 DEF IssueBegin, TypeOK, tables
  <1>2. CASE IssueCommit(b)
    <2>1. request[b].user \in User /\ request[b].recovery \in BOOLEAN
      BY <1>2 DEF IssueCommit, RequestsBound, TypeOK, Request
    <2>q. QED BY <1>2, Responding, <2>1, IssueType DEF IssueCommit, TypeOK
  <1>3. CASE IssueRefused(b)
    BY <1>3, Responding DEF IssueRefused, TypeOK, tables
  <1>4. CASE EnrollBegin(b)
    BY <1>4 DEF EnrollBegin, TypeOK, Request, Op, BrowserData, tables
  <1>5. CASE EnrollCheck(b)
    BY <1>5 DEF EnrollCheck, TypeOK, Request, Op, tables
  <1>6. ASSUME NEW kind \in Kind, EnrollInsert(b, kind) PROVE TypeOK'
    <2>1. request[b].user \in User
      BY <1>6 DEF EnrollInsert, RequestsBound, Kind
    <2>2. [user |-> request[b].user, kind |-> kind] \in CredRow
      BY <2>1 DEF CredRow
    <2>4. creds' \in [CredId -> CredRow]
      BY <1>6, <2>2 DEF EnrollInsert, TypeOK
    <2>5. lastCred' \in 0..MaxCred
      BY <1>6, BoundsAreNatural DEF EnrollInsert, TypeOK
    <2>3. request' \in [Browser -> Request]
      BY <1>6 DEF EnrollInsert, TypeOK, Request, Op
    <2>q. QED BY <1>6, <2>3, <2>4, <2>5 DEF EnrollInsert, TypeOK
  <1>7. CASE EnrollFlag(b)
    <2>1. mfaRequired' \in [User -> BOOLEAN]
      BY <1>7 DEF EnrollFlag, TypeOK
    <2>2. request' \in [Browser -> Request]
      BY <1>7 DEF EnrollFlag, TypeOK, Request, Op
    <2>q. QED BY <1>7, <2>1, <2>2 DEF EnrollFlag, TypeOK
  <1>8. CASE EnrollRevoke(b)
    BY <1>8, Responding, SessionTables DEF EnrollRevoke, RevokeOtherSessions, TypeOK
  <1>q. QED
    BY <1>1, <1>2, <1>3, <1>4, <1>5, <1>6, <1>7, <1>8 DEF AdminStep

LEMMA EnvironmentType ==
  ASSUME TypeOK, Environment
  PROVE  TypeOK'
  <1>1. ASSUME NEW b \in Browser, Crash(b) PROVE TypeOK'
    BY <1>1, Responding DEF Crash, TypeOK, tables
  <1>2. ASSUME NEW b \in Browser, ContextExpires(b) PROVE TypeOK'
    <2>1. [browser[b] EXCEPT !.fresh = FALSE] \in BrowserData
      <3>1. browser[b] \in BrowserData
        BY DEF TypeOK
      <3>q. QED BY <3>1 DEF BrowserData
    <2>q. QED BY <1>2, <2>1 DEF ContextExpires, TypeOK, tables
  <1>3. ASSUME NEW b \in Browser, ChallengeExpires(b) PROVE TypeOK'
    <2>1. [browser[b] EXCEPT !.challengeFresh = FALSE] \in BrowserData
      <3>1. browser[b] \in BrowserData
        BY DEF TypeOK
      <3>q. QED BY <3>1 DEF BrowserData
    <2>q. QED BY <1>3, <2>1 DEF ChallengeExpires, TypeOK, tables
  <1>4. ASSUME NEW t \in TicketId, TicketExpires(t) PROVE TypeOK'
    BY <1>4 DEF TicketExpires, TypeOK, TicketRow
  <1>5. ASSUME NEW s \in SessionId, SessionExpires(s) PROVE TypeOK'
    BY <1>5 DEF SessionExpires, TypeOK, SessionRow
  <1>q. QED BY <1>1, <1>2, <1>3, <1>4, <1>5 DEF Environment

\* Every step keeps the variables well typed.
LEMMA NextType ==
  ASSUME TypeOK, RequestsBound, [Next]_vars
  PROVE  TypeOK'
  <1>1. CASE UNCHANGED vars
    BY <1>1 DEF TypeOK, vars
  <1>2. CASE Next
    BY <1>2, AccountStepType, ActivationStepType, SessionStepType, AdminStepType, EnvironmentType
    DEF Next
  <1>q. QED BY <1>1, <1>2

---------------------------------------------------------------------------
(* The inductive invariant *)

\* The inductive form of PendingHasNoLiveSession: a live row belongs to an open
\* account, so that an account that is created or locked starts without any.
LiveSessionMeansOpen ==
  \A s \in SessionId :
    sessions[s].user # None /\ ~sessions[s].revoked => account[sessions[s].user] = "active"

\* Ids beyond the counters have never been used.
UnissuedRowsBlank ==
  /\ \A t \in TicketId : t > lastTicket => tickets[t].user = None
  /\ \A c \in CredId : c > lastCred => creds[c].user = None
  /\ \A s \in SessionId : s > lastSession => sessions[s].user = None

TablesSafe ==
  /\ LiveSessionMeansOpen
  /\ OneOpenTicket
  /\ OpenTicketMeansPending
  /\ UnissuedRowsBlank

IInv == TypeOK /\ RequestsBound /\ TablesSafe

\* Statements that only revoke session rows, or change who can match them, do
\* not endanger the tables.
LEMMA OnlySessions ==
  ASSUME TypeOK, TablesSafe,
         UNCHANGED <<account, tickets, lastTicket, creds, lastCred, lastSession>>,
         \A s \in SessionId : /\ sessions'[s].user = sessions[s].user
                              /\ sessions[s].revoked => sessions'[s].revoked
  PROVE  TablesSafe'
  <1>1. LiveSessionMeansOpen'
    BY DEF TablesSafe, LiveSessionMeansOpen
  <1>2. OneOpenTicket' /\ OpenTicketMeansPending'
    BY DEF TablesSafe, OneOpenTicket, OpenTicketMeansPending, Open
  <1>3. UnissuedRowsBlank'
    BY DEF TablesSafe, UnissuedRowsBlank
  <1>q. QED BY <1>1, <1>2, <1>3 DEF TablesSafe

\* Revoking and regenerating are such statements.
LEMMA SessionOwners ==
  ASSUME TypeOK
  PROVE  /\ \A S : \A s \in SessionId :
              /\ RevokeSessions(S)[s].user = sessions[s].user
              /\ sessions[s].revoked => RevokeSessions(S)[s].revoked
         /\ \A rows \in [SessionId -> SessionRow] : \A b : \A s \in SessionId :
              /\ Regenerate(rows, b)[s].user = rows[s].user
              /\ Regenerate(rows, b)[s].revoked = rows[s].revoked
  BY DEF TypeOK, RevokeSessions, Regenerate, SessionRow

LEMMA CreateSafe ==
  ASSUME TypeOK, TablesSafe, NEW u \in User, CreateAccount(u)
  PROVE  TablesSafe'
  <1>1. /\ account[u] = "absent"
        /\ \A v \in User : v # u => account'[v] = account[v]
        /\ UNCHANGED <<tickets, lastTicket, creds, lastCred, sessions, lastSession>>
    BY DEF CreateAccount, TypeOK
  <1>2. LiveSessionMeansOpen'
    BY <1>1 DEF TablesSafe, LiveSessionMeansOpen, TypeOK, SessionRow
  <1>3. OneOpenTicket'
    BY <1>1 DEF TablesSafe, OneOpenTicket, Open
  <1>4. OpenTicketMeansPending'
    BY <1>1 DEF TablesSafe, OpenTicketMeansPending, Open, TypeOK, TicketRow
  <1>5. UnissuedRowsBlank'
    BY <1>1 DEF TablesSafe, UnissuedRowsBlank
  <1>q. QED BY <1>2, <1>3, <1>4, <1>5 DEF TablesSafe

LEMMA DeleteSafe ==
  ASSUME TypeOK, TablesSafe, NEW u \in User, DeleteAccount(u)
  PROVE  TablesSafe'
  <1>1. /\ \A v \in User : v # u => account'[v] = account[v]
        /\ \A t \in TicketId : tickets'[t] = IF tickets[t].user = u THEN NoTicketRow ELSE tickets[t]
        /\ \A c \in CredId : creds'[c] = IF creds[c].user = u THEN NoCredRow ELSE creds[c]
        /\ \A s \in SessionId :
             sessions'[s] = IF sessions[s].user = u THEN NoSessionRow ELSE sessions[s]
        /\ UNCHANGED <<lastTicket, lastCred, lastSession>>
    BY DEF DeleteAccount, TypeOK
  <1>2. NoTicketRow.user = None /\ NoCredRow.user = None /\ NoSessionRow.user = None
    BY DEF NoTicketRow, NoCredRow, NoSessionRow
  <1>3. LiveSessionMeansOpen'
    BY <1>1, <1>2 DEF TablesSafe, LiveSessionMeansOpen, TypeOK, SessionRow
  <1>4. OneOpenTicket'
    BY <1>1, <1>2 DEF TablesSafe, OneOpenTicket, Open
  <1>5. OpenTicketMeansPending'
    BY <1>1, <1>2 DEF TablesSafe, OpenTicketMeansPending, Open, TypeOK, TicketRow
  <1>6. UnissuedRowsBlank'
    BY <1>1, <1>2 DEF TablesSafe, UnissuedRowsBlank
  <1>q. QED BY <1>3, <1>4, <1>5, <1>6 DEF TablesSafe

\* Issuing revokes the older tickets and the sessions in the step that locks.
LEMMA IssueSafe ==
  ASSUME TypeOK, TablesSafe, NEW u \in User, NEW recovery \in BOOLEAN, Issue(u, recovery)
  PROVE  TablesSafe'
  <1>1. /\ lastTicket' = lastTicket + 1 /\ lastTicket < MaxTicket /\ lastTicket \in Nat
        /\ account' = [account EXCEPT ![u] = "pending"]
        /\ UNCHANGED <<creds, lastCred, lastSession>>
    BY BoundsAreNatural DEF Issue, TypeOK
  <1>2. \A t \in TicketId :
          t = lastTicket + 1 => /\ tickets'[t].user = u
                                /\ ~tickets'[t].consumed /\ ~tickets'[t].revoked
    BY DEF Issue, NoTicketRow
  <1>3. \A t \in TicketId :
          t # lastTicket + 1 =>
            /\ tickets'[t].user = tickets[t].user
            /\ tickets'[t].consumed = tickets[t].consumed
            /\ tickets[t].revoked => tickets'[t].revoked
            /\ tickets[t].user = u /\ ~tickets[t].consumed => tickets'[t].revoked
    BY DEF Issue, TicketsRevoked, TypeOK, TicketRow
  <1>4. \A s \in SessionId :
          /\ sessions'[s].user = sessions[s].user
          /\ sessions[s].revoked => sessions'[s].revoked
          /\ sessions[s].user = u => sessions'[s].revoked
    BY DEF Issue, RevokeUser, RevokeSessions, SessionsOf, TypeOK, SessionRow
  <1>5. LiveSessionMeansOpen'
    BY <1>1, <1>4 DEF TablesSafe, LiveSessionMeansOpen, TypeOK, SessionRow
  <1>6. \A t \in TicketId : Open(t)' =>
          \/ t = lastTicket + 1
          \/ Open(t) /\ tickets[t].user # u
    BY <1>3 DEF Open
  <1>7. OneOpenTicket'
    BY <1>2, <1>3, <1>6 DEF TablesSafe, OneOpenTicket
  <1>8. OpenTicketMeansPending'
    BY <1>1, <1>2, <1>3, <1>6 DEF TablesSafe, OpenTicketMeansPending, TypeOK, TicketRow
  <1>9. UnissuedRowsBlank'
    BY <1>1, <1>3, <1>4 DEF TablesSafe, UnissuedRowsBlank, TicketId
  <1>q. QED BY <1>5, <1>7, <1>8, <1>9 DEF TablesSafe

\* Completing consumes the only open ticket in the step that opens the account.
LEMMA CompleteSafe ==
  ASSUME TypeOK, TablesSafe, NEW u \in User, NEW t \in TicketId, Complete(u, t)
  PROVE  TablesSafe'
  <1>1. /\ Open(t) /\ tickets[t].user = u
        /\ account' = [account EXCEPT ![u] = "active"]
        /\ tickets' = [tickets EXCEPT ![t].consumed = TRUE]
        /\ lastCred' = lastCred + 1 /\ lastCred \in Nat
        /\ UNCHANGED <<lastTicket, sessions, lastSession>>
    BY BoundsAreNatural DEF Complete, CompleteAllowed, Consume, TypeOK
  <1>0. \A r \in TicketId : tickets'[r].user = tickets[r].user
    BY <1>1 DEF TypeOK, TicketRow
  <1>2. \A r \in TicketId : Open(r)' => Open(r) /\ r # t
    BY <1>1 DEF Open, TypeOK, TicketRow
  <1>3. LiveSessionMeansOpen'
    BY <1>1 DEF TablesSafe, LiveSessionMeansOpen, TypeOK, SessionRow
  <1>4. OneOpenTicket'
    BY <1>0, <1>2 DEF TablesSafe, OneOpenTicket
  <1>5. OpenTicketMeansPending'
    BY <1>0, <1>1, <1>2
    DEF TablesSafe, OneOpenTicket, OpenTicketMeansPending, TypeOK, TicketRow, Open
  <1>6. \A c \in CredId : c > lastCred + 1 => creds'[c].user = None
    BY <1>1 DEF Complete, NoCredRow, TablesSafe, UnissuedRowsBlank, CredId
  <1>7. UnissuedRowsBlank'
    BY <1>0, <1>1, <1>6 DEF TablesSafe, UnissuedRowsBlank
  <1>q. QED BY <1>3, <1>4, <1>5, <1>7 DEF TablesSafe

\* A session row is inserted only for an open account, whether or not the
\* response reaches the browser.
LEMMA InsertSessionSafe ==
  ASSUME TypeOK, TablesSafe, NEW u \in User, NEW php \in Browser \cup {None},
         account[u] = "active",
         lastSession < MaxSession, lastSession' = lastSession + 1,
         sessions' = [sessions EXCEPT ![lastSession + 1] =
           [user |-> u, revoked |-> FALSE, expired |-> FALSE, php |-> php]],
         UNCHANGED <<account, tickets, lastTicket, creds, lastCred>>
  PROVE  TablesSafe'
  <1>1. lastSession \in Nat
    BY BoundsAreNatural DEF TypeOK
  <1>2. \A s \in SessionId :
          /\ s = lastSession + 1 => sessions'[s].user = u
          /\ s # lastSession + 1 => sessions'[s] = sessions[s]
    BY DEF TypeOK
  <1>3. LiveSessionMeansOpen'
    BY <1>2 DEF TablesSafe, LiveSessionMeansOpen
  <1>4. OneOpenTicket' /\ OpenTicketMeansPending'
    BY DEF TablesSafe, OneOpenTicket, OpenTicketMeansPending, Open
  <1>5. UnissuedRowsBlank'
    BY <1>1, <1>2 DEF TablesSafe, UnissuedRowsBlank, SessionId
  <1>q. QED BY <1>3, <1>4, <1>5 DEF TablesSafe

---------------------------------------------------------------------------
(* Every action preserves the invariant *)

LEMMA ActivationStepSafe ==
  ASSUME TypeOK, RequestsBound, TablesSafe, NEW b \in Browser, ActivationStep(b)
  PROVE  TablesSafe'
  <1>1. ASSUME NEW t \in TicketId, VerifyTicket(b, t) PROVE TablesSafe'
    BY <1>1, OnlySessions, SessionOwners, SessionTables DEF VerifyTicket, Revoke
  <1>2. CASE DropContext(b)
    BY <1>2, OnlySessions DEF DropContext, tables
  <1>3. CASE RegistrationOptions(b)
    BY <1>3, OnlySessions DEF RegistrationOptions, tables
  <1>4. CASE FinishBegin(b)
    BY <1>4, OnlySessions DEF FinishBegin, tables
  <1>5. CASE FinishRejected(b)
    BY <1>5, OnlySessions DEF FinishRejected, tables
  <1>6. CASE FinishCommit(b)
    BY <1>6, CompleteSafe DEF FinishCommit, RequestsBound
  <1>7. CASE FinishFailed(b)
    BY <1>7, OnlySessions DEF FinishFailed, tables
  <1>8. CASE RecoveryReply(b)
    <2> DEFINE ended == RevokeSessions({browser[b].session})
    <2>1. /\ ended \in [SessionId -> SessionRow]
          /\ \A s \in SessionId : /\ ended[s].user = sessions[s].user
                                  /\ sessions[s].revoked => ended[s].revoked
      BY SessionTables, SessionOwners
    <2>3. sessions' = Regenerate(ended, b)
      BY <1>8 DEF RecoveryReply, Revoke
    <2> HIDE DEF ended
    <2>4. \A s \in SessionId : /\ Regenerate(ended, b)[s].user = ended[s].user
                              /\ Regenerate(ended, b)[s].revoked = ended[s].revoked
      BY <2>1, SessionOwners
    <2>2. \A s \in SessionId :
            /\ sessions'[s].user = sessions[s].user
            /\ sessions[s].revoked => sessions'[s].revoked
      BY <2>1, <2>3, <2>4
    <2>q. QED BY <1>8, <2>2, OnlySessions DEF RecoveryReply
  <1>9. CASE ActivationReply(b)
    BY <1>9, InsertSessionSafe
    DEF ActivationReply, Establish, EstablishAllowed, RequestsBound
  <1>10. CASE ActivationReplyRefused(b)
    BY <1>10, OnlySessions, SessionOwners DEF ActivationReplyRefused, TypeOK
  <1>q. QED
    BY <1>1, <1>2, <1>3, <1>4, <1>5, <1>6, <1>7, <1>8, <1>9, <1>10 DEF ActivationStep

LEMMA SessionStepSafe ==
  ASSUME TypeOK, RequestsBound, TablesSafe, NEW b \in Browser, SessionStep(b)
  PROVE  TablesSafe'
  <1>1. ASSUME NEW u \in User, NEW op \in {"signin", "signin_webauthn"}, SignInVerified(b, u, op)
        PROVE  TablesSafe'
    BY <1>1, OnlySessions DEF SignInVerified, tables
  <1>2. CASE SignInEstablish(b)
    BY <1>2, InsertSessionSafe
    DEF SignInEstablish, Establish, EstablishAllowed, RequestsBound
  <1>3. CASE SignInRefused(b)
    BY <1>3, OnlySessions, SessionOwners DEF SignInRefused, TypeOK
  <1>4. CASE EstablishThenCrash(b)
    BY <1>4, InsertSessionSafe DEF EstablishThenCrash, EstablishAllowed, RequestsBound
  <1>5. CASE RejectSession(b)
    BY <1>5, OnlySessions, SessionOwners DEF RejectSession, Revoke
  <1>6. CASE Logout(b)
    BY <1>6, OnlySessions, SessionOwners DEF Logout, Revoke
  <1>q. QED BY <1>1, <1>2, <1>3, <1>4, <1>5, <1>6 DEF SessionStep

LEMMA AdminStepSafe ==
  ASSUME TypeOK, RequestsBound, TablesSafe, NEW b \in Browser, AdminStep(b)
  PROVE  TablesSafe'
  <1>1. ASSUME NEW u \in User, IssueBegin(b, u) PROVE TablesSafe'
    BY <1>1, OnlySessions DEF IssueBegin, tables
  <1>2. CASE IssueCommit(b)
    <2>1. request[b].user \in User /\ request[b].recovery \in BOOLEAN
      BY <1>2 DEF IssueCommit, RequestsBound, TypeOK, Request
    <2>q. QED BY <1>2, <2>1, IssueSafe DEF IssueCommit
  <1>3. CASE IssueRefused(b)
    BY <1>3, OnlySessions DEF IssueRefused, tables
  <1>4. CASE EnrollBegin(b)
    BY <1>4, OnlySessions DEF EnrollBegin, tables
  <1>5. CASE EnrollCheck(b)
    BY <1>5, OnlySessions DEF EnrollCheck, tables
  <1>6. ASSUME NEW kind \in Kind, EnrollInsert(b, kind) PROVE TablesSafe'
    <2>1. /\ lastCred' = lastCred + 1 /\ lastCred \in Nat
          /\ \A c \in CredId : c # lastCred + 1 => creds'[c] = creds[c]
          /\ UNCHANGED <<account, tickets, lastTicket, sessions, lastSession>>
      BY <1>6, BoundsAreNatural DEF EnrollInsert, TypeOK
    <2>2. LiveSessionMeansOpen'
      BY <2>1 DEF TablesSafe, LiveSessionMeansOpen
    <2>3. OneOpenTicket' /\ OpenTicketMeansPending'
      BY <2>1 DEF TablesSafe, OneOpenTicket, OpenTicketMeansPending, Open
    <2>4. UnissuedRowsBlank'
      BY <2>1 DEF TablesSafe, UnissuedRowsBlank, CredId
    <2>q. QED BY <2>2, <2>3, <2>4 DEF TablesSafe
  <1>7. CASE EnrollFlag(b)
    BY <1>7, OnlySessions DEF EnrollFlag
  <1>8. CASE EnrollRevoke(b)
    BY <1>8, OnlySessions, SessionOwners DEF EnrollRevoke, RevokeOtherSessions
  <1>q. QED
    BY <1>1, <1>2, <1>3, <1>4, <1>5, <1>6, <1>7, <1>8 DEF AdminStep

LEMMA EnvironmentSafe ==
  ASSUME TypeOK, TablesSafe, Environment
  PROVE  TablesSafe'
  <1>1. ASSUME NEW b \in Browser, Crash(b) \/ ContextExpires(b) \/ ChallengeExpires(b)
        PROVE  TablesSafe'
    BY <1>1, OnlySessions DEF Crash, ContextExpires, ChallengeExpires, tables
  <1>2. ASSUME NEW t \in TicketId, TicketExpires(t) PROVE TablesSafe'
    <2>1. /\ \A r \in TicketId : /\ tickets'[r].user = tickets[r].user
                                 /\ tickets'[r].consumed = tickets[r].consumed
                                 /\ tickets'[r].revoked = tickets[r].revoked
          /\ UNCHANGED <<account, lastTicket, creds, lastCred, sessions, lastSession>>
      BY <1>2 DEF TicketExpires, TypeOK, TicketRow
    <2>2. LiveSessionMeansOpen'
      BY <2>1 DEF TablesSafe, LiveSessionMeansOpen
    <2>3. OneOpenTicket' /\ OpenTicketMeansPending'
      BY <2>1 DEF TablesSafe, OneOpenTicket, OpenTicketMeansPending, Open
    <2>4. UnissuedRowsBlank'
      BY <2>1 DEF TablesSafe, UnissuedRowsBlank
    <2>q. QED BY <2>2, <2>3, <2>4 DEF TablesSafe
  <1>3. ASSUME NEW s \in SessionId, SessionExpires(s) PROVE TablesSafe'
    BY <1>3, OnlySessions DEF SessionExpires, TypeOK, SessionRow
  <1>q. QED BY <1>1, <1>2, <1>3 DEF Environment

\* A request either ends, or is begun with the account it names, or moves on
\* with that account, while the stored context of its browser stays in place.
LEMMA NextRequestsBound ==
  ASSUME TypeOK, RequestsBound, [Next]_vars
  PROVE  RequestsBound'
  <1>1. CASE UNCHANGED vars
    BY <1>1 DEF RequestsBound, vars
  <1>2. ASSUME NEW u \in User, AccountStep(u) PROVE RequestsBound'
    BY <1>2 DEF AccountStep, CreateAccount, DeleteAccount, IssueFromCli, RequestsBound
  <1>3. ASSUME NEW b \in Browser, ActivationStep(b) PROVE RequestsBound'
    <2>1. CASE FinishBegin(b)
      <3>1. /\ browser[b].ticket \in TicketId
            /\ tickets[browser[b].ticket].user \in User
        BY <2>1 DEF FinishBegin, ContextHolds, Usable, Open, TypeOK, BrowserData, TicketRow,
                    TicketId
      <3>q. QED BY <2>1, <3>1 DEF FinishBegin, RequestsBound, TypeOK
    <2>2. CASE FinishCommit(b)
      BY <2>2 DEF FinishCommit, RequestsBound, TypeOK, Request
    <2>3. ASSUME NEW t \in TicketId, VerifyTicket(b, t) PROVE RequestsBound'
      BY <2>3 DEF VerifyTicket, Idle, RequestsBound, TypeOK
    <2>4. CASE DropContext(b) \/ RegistrationOptions(b) \/ FinishRejected(b)
      BY <2>4 DEF DropContext, RegistrationOptions, FinishRejected, Idle, RequestsBound, TypeOK
    <2>5. CASE FinishFailed(b) \/ RecoveryReply(b) \/ ActivationReply(b)
                 \/ ActivationReplyRefused(b)
      BY <2>5 DEF FinishFailed, RecoveryReply, ActivationReply, ActivationReplyRefused, Respond,
                  Idle, RequestsBound, TypeOK
    <2>q. QED BY <1>3, <2>1, <2>2, <2>3, <2>4, <2>5 DEF ActivationStep
  <1>4. ASSUME NEW b \in Browser, SessionStep(b) PROVE RequestsBound'
    <2>1. ASSUME NEW u \in User, NEW op \in {"signin", "signin_webauthn"},
                 SignInVerified(b, u, op)
          PROVE  RequestsBound'
      BY <2>1 DEF SignInVerified, RequestsBound, TypeOK
    <2>2. CASE SignInEstablish(b) \/ SignInRefused(b) \/ EstablishThenCrash(b)
      BY <2>2 DEF SignInEstablish, SignInRefused, EstablishThenCrash, Respond, Idle,
                  RequestsBound, TypeOK
    <2>3. CASE RejectSession(b) \/ Logout(b)
      BY <2>3 DEF RejectSession, Logout, Idle, RequestsBound, TypeOK
    <2>q. QED BY <1>4, <2>1, <2>2, <2>3 DEF SessionStep
  <1>5. ASSUME NEW b \in Browser, AdminStep(b) PROVE RequestsBound'
    <2>1. ASSUME NEW u \in User, IssueBegin(b, u) PROVE RequestsBound'
      BY <2>1 DEF IssueBegin, RequestsBound, TypeOK
    <2>2. CASE IssueCommit(b) \/ IssueRefused(b) \/ EnrollRevoke(b)
      BY <2>2 DEF IssueCommit, IssueRefused, EnrollRevoke, Respond, Idle, RequestsBound, TypeOK
    <2>3. CASE EnrollBegin(b)
      <3>1. browser[b].user \in User
        BY <2>3 DEF EnrollBegin, IsValid, TypeOK, BrowserData
      <3>q. QED BY <2>3, <3>1 DEF EnrollBegin, RequestsBound, TypeOK
    <2>4. CASE EnrollCheck(b)
      BY <2>4 DEF EnrollCheck, RequestsBound, TypeOK, Request
    <2>5. ASSUME NEW kind \in Kind, EnrollInsert(b, kind) PROVE RequestsBound'
      BY <2>5 DEF EnrollInsert, Kind, RequestsBound, TypeOK, Request
    <2>6. CASE EnrollFlag(b)
      BY <2>6 DEF EnrollFlag, RequestsBound, TypeOK, Request
    <2>q. QED BY <1>5, <2>1, <2>2, <2>3, <2>4, <2>5, <2>6 DEF AdminStep
  <1>6. ASSUME Environment PROVE RequestsBound'
    <2>1. ASSUME NEW b \in Browser, Crash(b) PROVE RequestsBound'
      BY <2>1 DEF Crash, Respond, Idle, RequestsBound, TypeOK
    <2>2. ASSUME NEW b \in Browser, ContextExpires(b) \/ ChallengeExpires(b)
          PROVE  RequestsBound'
      BY <2>2 DEF ContextExpires, ChallengeExpires, Idle, RequestsBound, TypeOK, BrowserData
    <2>3. ASSUME NEW t \in TicketId, TicketExpires(t) PROVE RequestsBound'
      BY <2>3 DEF TicketExpires, RequestsBound
    <2>4. ASSUME NEW s \in SessionId, SessionExpires(s) PROVE RequestsBound'
      BY <2>4 DEF SessionExpires, RequestsBound
    <2>q. QED BY <1>6, <2>1, <2>2, <2>3, <2>4 DEF Environment
  <1>q. QED BY <1>1, <1>2, <1>3, <1>4, <1>5, <1>6 DEF Next

LEMMA InitInv == Init => IInv
  BY InitType
  DEF Init, IInv, RequestsBound, Idle, TablesSafe, LiveSessionMeansOpen, OneOpenTicket,
      OpenTicketMeansPending, UnissuedRowsBlank, Open, NoTicketRow, NoCredRow, NoSessionRow

LEMMA NextInv == IInv /\ [Next]_vars => IInv'
  <1> SUFFICES ASSUME IInv, [Next]_vars PROVE IInv'
    OBVIOUS
  <1>1. TypeOK' /\ RequestsBound'
    BY NextType, NextRequestsBound DEF IInv
  <1>2. TablesSafe'
    <2>1. CASE UNCHANGED vars
      BY <2>1, OnlySessions DEF vars, IInv
    <2>2. ASSUME NEW u \in User, AccountStep(u) PROVE TablesSafe'
      BY <2>2, CreateSafe, DeleteSafe, IssueSafe DEF AccountStep, IssueFromCli, IInv
    <2>3. ASSUME NEW b \in Browser, ActivationStep(b) \/ SessionStep(b) \/ AdminStep(b)
          PROVE  TablesSafe'
      BY <2>3, ActivationStepSafe, SessionStepSafe, AdminStepSafe DEF IInv
    <2>4. CASE Environment
      BY <2>4, EnvironmentSafe DEF IInv
    <2>q. QED BY <2>1, <2>2, <2>3, <2>4 DEF Next
  <1>q. QED BY <1>1, <1>2 DEF IInv

\* The inductive invariant holds in every reachable state.
THEOREM Invariance == Spec => []IInv
  <1>q. QED BY InitInv, NextInv, PTL DEF Spec

\* The tables, the stored session data and the requests are always well typed.
THEOREM TypeCorrect == Spec => []TypeOK
  <1>1. IInv => TypeOK
    BY DEF IInv
  <1>q. QED BY Invariance, <1>1, PTL

\* A locked account never has a live session, for every interleaving of ticket
\* issuing with sign-ins, enrollments, crashes and deletions.
THEOREM LockedOut == Spec => []PendingHasNoLiveSession
  <1>1. IInv => PendingHasNoLiveSession
    BY NoneIsNoValue
    DEF IInv, TablesSafe, LiveSessionMeansOpen, PendingHasNoLiveSession, LiveSessions, SessionsOf
  <1>q. QED BY Invariance, <1>1, PTL

\* At most one ticket of an account is open, however its issuers overlap.
THEOREM OneShotTickets == Spec => []OneOpenTicket
  <1>1. IInv => OneOpenTicket
    BY DEF IInv, TablesSafe
  <1>q. QED BY Invariance, <1>1, PTL

\* An open ticket belongs to an account that is waiting for it: none survives
\* its redemption, whoever redeems it.
THEOREM NoTicketLeft == Spec => []OpenTicketMeansPending
  <1>1. IInv => OpenTicketMeansPending
    BY DEF IInv, TablesSafe
  <1>q. QED BY Invariance, <1>1, PTL

---------------------------------------------------------------------------
(* The offer *)

\* While one ticket at most is open, the offer is what that ticket says.
LEMMA OfferIsTicket ==
  ASSUME OneOpenTicket, NEW u \in User
  PROVE  /\ \A t \in TicketId : Open(t) /\ tickets[t].user = u => OfferTo(u) = tickets[t].purpose
         /\ (\A t \in TicketId : ~(Open(t) /\ tickets[t].user = u)) => OfferTo(u) = None
  BY DEF OneOpenTicket, OfferTo

LEMMA OfferWillBeTicket ==
  ASSUME OneOpenTicket', NEW u \in User
  PROVE  /\ \A t \in TicketId :
              Open(t)' /\ tickets'[t].user = u => OfferTo(u)' = tickets'[t].purpose
         /\ (\A t \in TicketId : ~(Open(t)' /\ tickets'[t].user = u)) => OfferTo(u)' = None
  BY DEF OneOpenTicket, OfferTo

\* The ticket t keeps what the offer depends on.
Stays(t) ==
  /\ tickets'[t].user = tickets[t].user
  /\ tickets'[t].purpose = tickets[t].purpose
  /\ tickets'[t].consumed = tickets[t].consumed
  /\ tickets'[t].revoked = tickets[t].revoked

LEMMA SameOffer ==
  ASSUME OneOpenTicket, OneOpenTicket', NEW u \in User,
         \A t \in TicketId : tickets[t].user = u \/ tickets'[t].user = u => Stays(t)
  PROVE  OfferTo(u)' = OfferTo(u)
  <1>1. CASE \E t \in TicketId : Open(t) /\ tickets[t].user = u
    <2>1. PICK t \in TicketId : Open(t) /\ tickets[t].user = u
      BY <1>1
    <2>2. Stays(t)
      BY <2>1
    <2>3. Open(t)' /\ tickets'[t].user = u /\ tickets'[t].purpose = tickets[t].purpose
      BY <2>1, <2>2 DEF Open, Stays
    <2>q. QED BY <2>1, <2>3, OfferIsTicket, OfferWillBeTicket
  <1>2. CASE \A t \in TicketId : ~(Open(t) /\ tickets[t].user = u)
    <2>1. \A t \in TicketId : ~(Open(t)' /\ tickets'[t].user = u)
      BY <1>2 DEF Stays, Open
    <2>q. QED BY <1>2, <2>1, OfferIsTicket, OfferWillBeTicket
  <1>q. QED BY <1>1, <1>2

\* Each kind of step, told by what it does to the accounts, is a step that the
\* contract allows.
LEMMA MapsToNothing ==
  ASSUME UNCHANGED account,
         \A v \in User : /\ OfferTo(v)' = OfferTo(v)
                         /\ CredsOf(v)' = CredsOf(v)
                         /\ LiveSessions(v)' = LiveSessions(v)
  PROVE  UNCHANGED Contract!vars
  <1>1. /\ [v \in User |-> OfferTo(v)]' = [v \in User |-> OfferTo(v)]
        /\ [v \in User |-> CredsOf(v)]' = [v \in User |-> CredsOf(v)]
        /\ [v \in User |-> LiveSessions(v)]' = [v \in User |-> LiveSessions(v)]
    OBVIOUS
  <1>q. QED BY <1>1 DEF Contract!vars

LEMMA MapsToSignIn ==
  ASSUME NEW u \in User, NEW s \in SessionId, account[u] = "active", UNCHANGED account,
         \A v \in User : /\ OfferTo(v)' = OfferTo(v)
                         /\ CredsOf(v)' = CredsOf(v)
                         /\ s \notin LiveSessions(v)
                         /\ LiveSessions(v)' = IF v = u THEN LiveSessions(u) \cup {s}
                                               ELSE LiveSessions(v)
  PROVE  Contract!Next
  <1>1. /\ [v \in User |-> OfferTo(v)]' = [v \in User |-> OfferTo(v)]
        /\ [v \in User |-> CredsOf(v)]' = [v \in User |-> CredsOf(v)]
    OBVIOUS
  <1>2. [v \in User |-> LiveSessions(v)]'
          = [[v \in User |-> LiveSessions(v)] EXCEPT ![u] = @ \cup {s}]
    OBVIOUS
  <1>3. Contract!SignIn(u, s)
    BY <1>1, <1>2 DEF Contract!SignIn
  <1>q. QED BY <1>3 DEF Contract!Next

LEMMA MapsToEnd ==
  ASSUME NEW u \in User, UNCHANGED account,
         \A v \in User : /\ OfferTo(v)' = OfferTo(v)
                         /\ CredsOf(v)' = CredsOf(v)
                         /\ v # u => LiveSessions(v)' = LiveSessions(v),
         LiveSessions(u)' \subseteq LiveSessions(u)
  PROVE  Contract!Next
  <1> DEFINE ended == LiveSessions(u) \ LiveSessions(u)'
  <1>1. /\ [v \in User |-> OfferTo(v)]' = [v \in User |-> OfferTo(v)]
        /\ [v \in User |-> CredsOf(v)]' = [v \in User |-> CredsOf(v)]
    OBVIOUS
  <1>2. LiveSessions(u)' = LiveSessions(u) \ ended
    OBVIOUS
  <1>3. ended \in SUBSET SessionId
    BY DEF LiveSessions, SessionsOf
  <1> HIDE DEF ended
  <1>4. [v \in User |-> LiveSessions(v)]'
          = [[v \in User |-> LiveSessions(v)] EXCEPT ![u] = @ \ ended]
    BY <1>2
  <1>5. Contract!End(u, ended)
    BY <1>1, <1>4 DEF Contract!End
  <1>q. QED BY <1>3, <1>5 DEF Contract!Next

LEMMA MapsToEnroll ==
  ASSUME NEW u \in User, NEW c \in CredId, account[u] \in {"active", "pending"},
         UNCHANGED account,
         \A v \in User : /\ OfferTo(v)' = OfferTo(v)
                         /\ LiveSessions(v)' = LiveSessions(v)
                         /\ c \notin CredsOf(v)
                         /\ CredsOf(v)' = IF v = u THEN CredsOf(u) \cup {c} ELSE CredsOf(v)
  PROVE  Contract!Next
  <1>1. /\ [v \in User |-> OfferTo(v)]' = [v \in User |-> OfferTo(v)]
        /\ [v \in User |-> LiveSessions(v)]' = [v \in User |-> LiveSessions(v)]
    OBVIOUS
  <1>2. [v \in User |-> CredsOf(v)]' = [[v \in User |-> CredsOf(v)] EXCEPT ![u] = @ \cup {c}]
    OBVIOUS
  <1>3. Contract!Enroll(u, c)
    BY <1>1, <1>2 DEF Contract!Enroll
  <1>q. QED BY <1>3 DEF Contract!Next

LEMMA MapsToRedeem ==
  ASSUME NEW u \in User, NEW c \in CredId, account[u] = "pending", OfferTo(u) # None,
         account' = [account EXCEPT ![u] = "active"],
         \A v \in User :
           /\ OfferTo(v)' = IF v = u THEN None ELSE OfferTo(v)
           /\ LiveSessions(v)' = LiveSessions(v)
           /\ c \notin CredsOf(v)
           /\ v # u => CredsOf(v)' = CredsOf(v),
         CredsOf(u)' = IF OfferTo(u) = "recovery" THEN {c} ELSE CredsOf(u) \cup {c}
  PROVE  Contract!Next
  <1>1. [v \in User |-> OfferTo(v)]' = [[v \in User |-> OfferTo(v)] EXCEPT ![u] = None]
    OBVIOUS
  <1>2. [v \in User |-> LiveSessions(v)]' = [v \in User |-> LiveSessions(v)]
    OBVIOUS
  <1>3. [v \in User |-> CredsOf(v)]'
          = [[v \in User |-> CredsOf(v)] EXCEPT ![u] =
               IF [v \in User |-> OfferTo(v)][u] = "recovery" THEN {c} ELSE @ \cup {c}]
    OBVIOUS
  <1>4. Contract!Redeem(u, c)
    BY <1>1, <1>2, <1>3 DEF Contract!Redeem
  <1>q. QED BY <1>4 DEF Contract!Next

LEMMA MapsToOffer ==
  ASSUME NEW u \in User, NEW purpose \in {"activation", "recovery"},
         account[u] \in {"active", "pending"},
         purpose = "activation" => account[u] = "pending",
         account' = [account EXCEPT ![u] = "pending"],
         \A v \in User : /\ OfferTo(v)' = IF v = u THEN purpose ELSE OfferTo(v)
                         /\ CredsOf(v)' = CredsOf(v)
                         /\ LiveSessions(v)' = IF v = u THEN {} ELSE LiveSessions(v)
  PROVE  Contract!Next
  <1>1. [v \in User |-> OfferTo(v)]' = [[v \in User |-> OfferTo(v)] EXCEPT ![u] = purpose]
    OBVIOUS
  <1>2. [v \in User |-> CredsOf(v)]' = [v \in User |-> CredsOf(v)]
    OBVIOUS
  <1>3. [v \in User |-> LiveSessions(v)]' = [[v \in User |-> LiveSessions(v)] EXCEPT ![u] = {}]
    OBVIOUS
  <1>4. Contract!Offer(u, purpose)
    BY <1>1, <1>2, <1>3 DEF Contract!Offer
  <1>q. QED BY <1>4 DEF Contract!Next

LEMMA MapsToDelete ==
  ASSUME NEW u \in User, account[u] \in {"active", "pending"},
         account' = [account EXCEPT ![u] = "deleted"],
         \A v \in User : /\ OfferTo(v)' = IF v = u THEN None ELSE OfferTo(v)
                         /\ CredsOf(v)' = IF v = u THEN {} ELSE CredsOf(v)
                         /\ LiveSessions(v)' = IF v = u THEN {} ELSE LiveSessions(v)
  PROVE  Contract!Next
  <1>1. [v \in User |-> OfferTo(v)]' = [[v \in User |-> OfferTo(v)] EXCEPT ![u] = None]
    OBVIOUS
  <1>2. [v \in User |-> CredsOf(v)]' = [[v \in User |-> CredsOf(v)] EXCEPT ![u] = {}]
    OBVIOUS
  <1>3. [v \in User |-> LiveSessions(v)]' = [[v \in User |-> LiveSessions(v)] EXCEPT ![u] = {}]
    OBVIOUS
  <1>4. Contract!Delete(u)
    BY <1>1, <1>2, <1>3 DEF Contract!Delete
  <1>q. QED BY <1>4 DEF Contract!Next

---------------------------------------------------------------------------
(* Every step of the tables is a step of the contract *)

\* A step that leaves the accounts, the offers, the keys and the end of every
\* session alone is not seen by the contract.
LEMMA Unseen ==
  ASSUME IInv, IInv', UNCHANGED <<account, creds>>,
         \A t \in TicketId : Stays(t),
         \A s \in SessionId : /\ sessions'[s].user = sessions[s].user
                              /\ (sessions'[s].revoked <=> sessions[s].revoked)
  PROVE  UNCHANGED Contract!vars
  <1>1. \A v \in User : OfferTo(v)' = OfferTo(v)
    BY SameOffer DEF IInv, TablesSafe
  <1>2. \A v \in User : CredsOf(v)' = CredsOf(v)
    BY DEF CredsOf
  <1>3. \A v \in User : LiveSessions(v)' = LiveSessions(v)
    BY DEF LiveSessions, SessionsOf
  <1>q. QED BY <1>1, <1>2, <1>3, MapsToNothing

LEMMA NoTablesUnseen ==
  ASSUME IInv, IInv', UNCHANGED <<account, tickets, creds, sessions>>
  PROVE  UNCHANGED Contract!vars
  BY Unseen DEF Stays

\* Sessions of one account are revoked.
LEMMA RevokedIsEnd ==
  ASSUME IInv, IInv', NEW u \in User, UNCHANGED <<account, tickets, creds>>,
         \A s \in SessionId : /\ sessions'[s].user = sessions[s].user
                              /\ sessions[s].revoked => sessions'[s].revoked
                              /\ sessions[s].user \in User \ {u} =>
                                   (sessions'[s].revoked <=> sessions[s].revoked)
  PROVE  Contract!Next
  <1>1. \A v \in User : OfferTo(v)' = OfferTo(v)
    BY SameOffer DEF IInv, TablesSafe, Stays
  <1>2. \A v \in User : CredsOf(v)' = CredsOf(v)
    BY DEF CredsOf
  <1>3. \A v \in User : v # u => LiveSessions(v)' = LiveSessions(v)
    BY DEF LiveSessions, SessionsOf
  <1>4. LiveSessions(u)' \subseteq LiveSessions(u)
    BY DEF LiveSessions, SessionsOf
  <1>q. QED BY <1>1, <1>2, <1>3, <1>4, MapsToEnd

\* The session of a browser is revoked, if it has one.
LEMMA RevokeIsEnd ==
  ASSUME IInv, IInv', NEW b \in Browser, UNCHANGED <<account, tickets, creds>>,
         \A s \in SessionId :
           /\ sessions'[s].user = sessions[s].user
           /\ sessions'[s].revoked <=> (sessions[s].revoked \/ s = browser[b].session)
  PROVE  [Contract!Next]_(Contract!vars)
  <1>1. CASE /\ browser[b].session \in SessionId
             /\ sessions[browser[b].session].user \in User
    BY <1>1, RevokedIsEnd
  <1>2. CASE ~(/\ browser[b].session \in SessionId
               /\ sessions[browser[b].session].user \in User)
    <2>1. \A v \in User : OfferTo(v)' = OfferTo(v)
      BY SameOffer DEF IInv, TablesSafe, Stays
    <2>2. \A v \in User : CredsOf(v)' = CredsOf(v)
      BY DEF CredsOf
    <2>3. \A v \in User : LiveSessions(v)' = LiveSessions(v)
      BY <1>2 DEF LiveSessions, SessionsOf
    <2>q. QED BY <2>1, <2>2, <2>3, MapsToNothing
  <1>q. QED BY <1>1, <1>2

\* What the statements on user_sessions do to the rows.
LEMMA RevokeRows ==
  ASSUME TypeOK, NEW S
  PROVE  \A s \in SessionId :
           /\ RevokeSessions(S)[s].user = sessions[s].user
           /\ RevokeSessions(S)[s].revoked <=> (sessions[s].revoked \/ s \in S)
  BY DEF RevokeSessions, TypeOK, SessionRow

LEMMA RegenerateRows ==
  ASSUME TypeOK, NEW b, NEW S
  PROVE  \A s \in SessionId :
           /\ Regenerate(RevokeSessions(S), b)[s].user = sessions[s].user
           /\ Regenerate(RevokeSessions(S), b)[s].revoked <=> (sessions[s].revoked \/ s \in S)
  <1> DEFINE rows == RevokeSessions(S)
  <1>1. rows \in [SessionId -> SessionRow]
    BY SessionTables
  <1>2. \A s \in SessionId : /\ rows[s].user = sessions[s].user
                             /\ rows[s].revoked <=> (sessions[s].revoked \/ s \in S)
    BY RevokeRows
  <1> HIDE DEF rows
  <1>3. \A s \in SessionId : /\ Regenerate(rows, b)[s].user = rows[s].user
                             /\ Regenerate(rows, b)[s].revoked = rows[s].revoked
    BY <1>1, SessionOwners
  <1>4. \A s \in SessionId : /\ Regenerate(rows, b)[s].user = sessions[s].user
                             /\ Regenerate(rows, b)[s].revoked <=> (sessions[s].revoked \/ s \in S)
    BY <1>2, <1>3
  <1>q. QED BY <1>4 DEF rows

\* A new session row is the session of an open account.
LEMMA InsertIsSignIn ==
  ASSUME IInv, IInv', NEW u \in User, NEW php \in Browser \cup {None},
         account[u] = "active", lastSession < MaxSession,
         sessions' = [sessions EXCEPT ![lastSession + 1] =
           [user |-> u, revoked |-> FALSE, expired |-> FALSE, php |-> php]],
         UNCHANGED <<account, tickets, creds>>
  PROVE  Contract!Next
  <1> DEFINE n == lastSession + 1
  <1>1. n \in SessionId /\ n > lastSession
    BY BoundsAreNatural DEF IInv, TypeOK, SessionId
  <1>2. sessions[n].user = None
    BY <1>1 DEF IInv, TablesSafe, UnissuedRowsBlank
  <1> HIDE DEF n
  <1>3. /\ sessions'[n].user = u /\ ~sessions'[n].revoked
        /\ \A s \in SessionId : s # n => sessions'[s] = sessions[s]
    BY <1>1 DEF IInv, TypeOK, n
  <1>4. \A v \in User : OfferTo(v)' = OfferTo(v)
    BY SameOffer DEF IInv, TablesSafe, Stays
  <1>5. \A v \in User : CredsOf(v)' = CredsOf(v)
    BY DEF CredsOf
  <1>6. \A v \in User : n \notin LiveSessions(v)
    BY <1>2, NoneIsNoValue DEF LiveSessions, SessionsOf
  <1>7. \A v \in User : LiveSessions(v)' = IF v = u THEN LiveSessions(u) \cup {n}
                                           ELSE LiveSessions(v)
    BY <1>1, <1>2, <1>3, NoneIsNoValue DEF LiveSessions, SessionsOf
  <1>q. QED BY <1>1, <1>4, <1>5, <1>6, <1>7, MapsToSignIn

LEMMA InsertIsEnroll ==
  ASSUME IInv, IInv', NEW b \in Browser, NEW kind \in Kind, EnrollInsert(b, kind)
  PROVE  Contract!Next
  <1> DEFINE u == request[b].user
             n == lastCred + 1
  <1>1. u \in User
    BY DEF EnrollInsert, IInv, RequestsBound, Kind
  <1>2. n \in CredId /\ n > lastCred
    BY BoundsAreNatural DEF EnrollInsert, IInv, TypeOK, CredId
  <1>3. creds[n].user = None
    BY <1>2 DEF IInv, TablesSafe, UnissuedRowsBlank
  <1>4. /\ account[u] \in {"active", "pending"}
        /\ creds' = [creds EXCEPT ![n] = [user |-> u, kind |-> kind]]
        /\ UNCHANGED <<account, tickets, sessions>>
    BY DEF EnrollInsert, Exists
  <1> HIDE DEF u, n
  <1>5. creds'[n].user = u /\ \A c \in CredId : c # n => creds'[c] = creds[c]
    BY <1>2, <1>4 DEF IInv, TypeOK
  <1>6. \A v \in User : OfferTo(v)' = OfferTo(v)
    BY <1>4, SameOffer DEF IInv, TablesSafe, Stays
  <1>7. \A v \in User : LiveSessions(v)' = LiveSessions(v)
    BY <1>4 DEF LiveSessions, SessionsOf
  <1>8. \A v \in User : n \notin CredsOf(v)
    BY <1>3, NoneIsNoValue DEF CredsOf
  <1>9. \A v \in User : CredsOf(v)' = IF v = u THEN CredsOf(u) \cup {n} ELSE CredsOf(v)
    BY <1>2, <1>3, <1>5, NoneIsNoValue DEF CredsOf
  <1>q. QED BY <1>1, <1>2, <1>4, <1>6, <1>7, <1>8, <1>9, MapsToEnroll

LEMMA CreateIsCreate ==
  ASSUME IInv, IInv', NEW u \in User, CreateAccount(u)
  PROVE  Contract!Next
  <1>1. /\ account[u] = "absent"
        /\ \E s \in {"active", "pending"} : account' = [account EXCEPT ![u] = s]
        /\ UNCHANGED <<tickets, creds, sessions>>
    BY DEF CreateAccount
  <1>2. \A v \in User : OfferTo(v)' = OfferTo(v)
    BY <1>1, SameOffer DEF IInv, TablesSafe, Stays
  <1>3. \A v \in User : CredsOf(v)' = CredsOf(v) /\ LiveSessions(v)' = LiveSessions(v)
    BY <1>1 DEF CredsOf, LiveSessions, SessionsOf
  <1>4. /\ [v \in User |-> OfferTo(v)]' = [v \in User |-> OfferTo(v)]
        /\ [v \in User |-> CredsOf(v)]' = [v \in User |-> CredsOf(v)]
        /\ [v \in User |-> LiveSessions(v)]' = [v \in User |-> LiveSessions(v)]
    BY <1>2, <1>3
  <1>5. Contract!Create(u)
    BY <1>1, <1>4 DEF Contract!Create
  <1>q. QED BY <1>5 DEF Contract!Next

LEMMA DeleteIsDelete ==
  ASSUME IInv, IInv', NEW u \in User, DeleteAccount(u)
  PROVE  Contract!Next
  <1>1. /\ account[u] \in {"active", "pending"}
        /\ account' = [account EXCEPT ![u] = "deleted"]
        /\ \A t \in TicketId : tickets'[t] = IF tickets[t].user = u THEN NoTicketRow ELSE tickets[t]
        /\ \A c \in CredId : creds'[c] = IF creds[c].user = u THEN NoCredRow ELSE creds[c]
        /\ \A s \in SessionId :
             sessions'[s] = IF sessions[s].user = u THEN NoSessionRow ELSE sessions[s]
    BY DEF DeleteAccount, Exists
  <1>2. /\ NoTicketRow.user \notin User /\ NoCredRow.user \notin User
        /\ NoSessionRow.user \notin User
    BY NoneIsNoValue DEF NoTicketRow, NoCredRow, NoSessionRow
  <1>3. OfferTo(u)' = None
    <2>1. \A t \in TicketId : tickets'[t].user # u
      BY <1>1, <1>2
    <2>q. QED BY <2>1, OfferWillBeTicket DEF IInv, TablesSafe
  <1>4. \A v \in User \ {u} : OfferTo(v)' = OfferTo(v)
    BY <1>1, <1>2, SameOffer DEF IInv, TablesSafe, Stays
  <1>5. \A v \in User : CredsOf(v)' = IF v = u THEN {} ELSE CredsOf(v)
    BY <1>1, <1>2 DEF CredsOf
  <1>6. \A v \in User : LiveSessions(v)' = IF v = u THEN {} ELSE LiveSessions(v)
    BY <1>1, <1>2 DEF LiveSessions, SessionsOf
  <1>7. \A v \in User : OfferTo(v)' = IF v = u THEN None ELSE OfferTo(v)
    BY <1>3, <1>4
  <1>q. QED BY <1>1, <1>5, <1>6, <1>7, MapsToDelete

LEMMA IssueIsOffer ==
  ASSUME IInv, IInv', NEW u \in User, NEW recovery \in BOOLEAN, Issue(u, recovery)
  PROVE  Contract!Next
  <1> DEFINE purpose == IF recovery THEN "recovery" ELSE "activation"
  <1>1. /\ account[u] \in {"active", "pending"}
        /\ purpose = "activation" => account[u] = "pending"
        /\ account' = [account EXCEPT ![u] = "pending"]
        /\ UNCHANGED creds
    BY DEF Issue, IssueAllowed, Exists
  <1>0. PICK n \in TicketId : n = lastTicket + 1 /\ n > lastTicket
    BY BoundsAreNatural DEF Issue, IInv, TypeOK, TicketId
  <1>2. tickets[n].user = None
    BY <1>0 DEF IInv, TablesSafe, UnissuedRowsBlank
  <1>3. /\ tickets'[n].user = u /\ tickets'[n].purpose = purpose
        /\ ~tickets'[n].consumed /\ ~tickets'[n].revoked
    BY <1>0 DEF Issue, NoTicketRow
  <1>4. \A t \in TicketId : t # n /\ tickets[t].user # u => Stays(t) /\ tickets'[t].user # u
    BY <1>0 DEF Issue, TicketsRevoked, IInv, TypeOK, TicketRow, Stays
  <1>5. \A t \in TicketId : t # n /\ tickets[t].user = u => tickets'[t].user = u
    BY <1>0 DEF Issue, TicketsRevoked, IInv, TypeOK, TicketRow
  <1>6. \A s \in SessionId :
          /\ sessions'[s].user = sessions[s].user
          /\ sessions'[s].revoked <=> (sessions[s].revoked \/ sessions[s].user = u)
    BY RevokeRows DEF Issue, RevokeUser, SessionsOf, IInv
  <1>7. OfferTo(u)' = purpose
    <2>1. Open(n)'
      BY <1>3, NoneIsNoValue DEF Open
    <2>q. QED BY <1>2, <1>3, <2>1, OfferWillBeTicket DEF IInv, TablesSafe
  <1>8. \A v \in User \ {u} : OfferTo(v)' = OfferTo(v)
    <2> SUFFICES ASSUME NEW v \in User \ {u} PROVE OfferTo(v)' = OfferTo(v)
      OBVIOUS
    <2>1. \A t \in TicketId : tickets[t].user = v \/ tickets'[t].user = v => Stays(t)
      BY <1>2, <1>3, <1>4, <1>5, NoneIsNoValue
    <2>q. QED BY <2>1, SameOffer DEF IInv, TablesSafe
  <1>9. \A v \in User : CredsOf(v)' = CredsOf(v)
    BY <1>1 DEF CredsOf
  <1>10. \A v \in User : LiveSessions(v)' = IF v = u THEN {} ELSE LiveSessions(v)
    BY <1>6 DEF LiveSessions, SessionsOf
  <1>q. QED BY <1>1, <1>7, <1>8, <1>9, <1>10, MapsToOffer

LEMMA CompleteIsRedeem ==
  ASSUME IInv, IInv', NEW u \in User, NEW t \in TicketId, Complete(u, t)
  PROVE  Contract!Next
  <1> DEFINE n == lastCred + 1
  <1>1. /\ account[u] = "pending" /\ account' = [account EXCEPT ![u] = "active"]
        /\ Open(t) /\ tickets[t].user = u
        /\ tickets' = [tickets EXCEPT ![t].consumed = TRUE]
        /\ UNCHANGED sessions
    BY DEF Complete, CompleteAllowed, Consume
  <1>2. n \in CredId /\ creds[n].user = None
    <2>1. n \in CredId /\ n > lastCred
      BY BoundsAreNatural DEF Complete, IInv, TypeOK, CredId
    <2>q. QED BY <2>1 DEF IInv, TablesSafe, UnissuedRowsBlank
  <1>3. \A c \in CredId : creds'[c] = IF c = n THEN [user |-> u, kind |-> "webauthn"]
                                      ELSE IF c \in Superseded(u, t) THEN NoCredRow
                                      ELSE creds[c]
    BY DEF Complete
  <1> HIDE DEF n
  <1>4. OfferTo(u) = tickets[t].purpose /\ OfferTo(u) # None
    <2>1. tickets[t].purpose \in {"activation", "recovery"}
      BY DEF IInv, TypeOK, TicketRow, Purpose
    <2>q. QED BY <1>1, <2>1, OfferIsTicket, NoneIsNoValue DEF IInv, TablesSafe
  <1>5. \A r \in TicketId : /\ tickets'[r].user = tickets[r].user
                            /\ r # t => Stays(r)
                            /\ Open(r)' => Open(r) /\ r # t
    BY <1>1 DEF Open, IInv, TypeOK, TicketRow, Stays
  <1>6. OfferTo(u)' = None
    <2>1. \A r \in TicketId : ~(Open(r)' /\ tickets'[r].user = u)
      BY <1>1, <1>5 DEF IInv, TablesSafe, OneOpenTicket
    <2>q. QED BY <2>1, OfferWillBeTicket DEF IInv, TablesSafe
  <1>7. \A v \in User \ {u} : OfferTo(v)' = OfferTo(v)
    BY <1>1, <1>5, SameOffer DEF IInv, TablesSafe
  <1>8. \A v \in User : LiveSessions(v)' = LiveSessions(v)
    BY <1>1 DEF LiveSessions, SessionsOf
  <1>9. \A v \in User : n \notin CredsOf(v)
    BY <1>2, NoneIsNoValue DEF CredsOf
  <1>10. Superseded(u, t) = IF OfferTo(u) = "recovery" THEN CredsOf(u) ELSE {}
    BY <1>4 DEF Superseded
  <1>11. \A v \in User \ {u} : CredsOf(v)' = CredsOf(v)
    BY <1>2, <1>3, <1>10, NoneIsNoValue DEF CredsOf, NoCredRow
  <1>12. CredsOf(u)' = IF OfferTo(u) = "recovery" THEN {n} ELSE CredsOf(u) \cup {n}
    BY <1>2, <1>3, <1>10, NoneIsNoValue DEF CredsOf, NoCredRow
  <1>q. QED
    BY <1>1, <1>2, <1>4, <1>6, <1>7, <1>8, <1>9, <1>11, <1>12, MapsToRedeem

LEMMA ActivationImplements ==
  ASSUME IInv, IInv', NEW b \in Browser, ActivationStep(b)
  PROVE  [Contract!Next]_(Contract!vars)
  <1>0. TypeOK
    BY DEF IInv
  <1>1. ASSUME NEW t \in TicketId, VerifyTicket(b, t)
        PROVE  [Contract!Next]_(Contract!vars)
    <2>1. CASE tickets[t].purpose = "recovery"
      BY <1>0, <1>1, <2>1, RegenerateRows, RevokeIsEnd DEF VerifyTicket, Revoke
    <2>2. CASE tickets[t].purpose # "recovery"
      BY <1>1, <2>2, NoTablesUnseen DEF VerifyTicket
    <2>q. QED BY <2>1, <2>2
  <1>2. CASE \/ DropContext(b) \/ RegistrationOptions(b) \/ FinishBegin(b)
             \/ FinishRejected(b) \/ FinishFailed(b)
    BY <1>2, NoTablesUnseen
    DEF DropContext, RegistrationOptions, FinishBegin, FinishRejected, FinishFailed, tables
  <1>3. CASE FinishCommit(b)
    BY <1>3, CompleteIsRedeem DEF FinishCommit, IInv, RequestsBound
  <1>4. CASE RecoveryReply(b)
    BY <1>0, <1>4, RegenerateRows, RevokeIsEnd DEF RecoveryReply, Revoke
  <1>5. CASE ActivationReply(b)
    BY <1>5, InsertIsSignIn
    DEF ActivationReply, Establish, EstablishAllowed, IInv, RequestsBound
  <1>6. CASE ActivationReplyRefused(b)
    <2>1. \A s \in SessionId : /\ sessions'[s].user = sessions[s].user
                               /\ sessions'[s].revoked <=> sessions[s].revoked
      BY <1>0, <1>6, SessionOwners DEF ActivationReplyRefused, TypeOK
    <2>2. UNCHANGED <<account, tickets, creds>>
      BY <1>6 DEF ActivationReplyRefused
    <2>q. QED BY <2>1, <2>2, Unseen DEF Stays
  <1>q. QED BY <1>1, <1>2, <1>3, <1>4, <1>5, <1>6 DEF ActivationStep

LEMMA SessionImplements ==
  ASSUME IInv, IInv', NEW b \in Browser, SessionStep(b)
  PROVE  [Contract!Next]_(Contract!vars)
  <1>0. TypeOK
    BY DEF IInv
  <1>1. ASSUME NEW u \in User, NEW op \in {"signin", "signin_webauthn"}, SignInVerified(b, u, op)
        PROVE  [Contract!Next]_(Contract!vars)
    BY <1>1, NoTablesUnseen DEF SignInVerified, tables
  <1>2. CASE SignInEstablish(b)
    BY <1>2, InsertIsSignIn
    DEF SignInEstablish, Establish, EstablishAllowed, IInv, RequestsBound
  <1>3. CASE SignInRefused(b)
    <2>1. \A s \in SessionId : /\ sessions'[s].user = sessions[s].user
                               /\ sessions'[s].revoked <=> sessions[s].revoked
      BY <1>0, <1>3, SessionOwners DEF SignInRefused, TypeOK
    <2>2. UNCHANGED <<account, tickets, creds>>
      BY <1>3 DEF SignInRefused
    <2>q. QED BY <2>1, <2>2, Unseen DEF Stays
  <1>4. CASE EstablishThenCrash(b)
    BY <1>4, InsertIsSignIn DEF EstablishThenCrash, EstablishAllowed, IInv, RequestsBound
  <1>5. CASE RejectSession(b)
    BY <1>0, <1>5, RevokeRows, RevokeIsEnd DEF RejectSession, Revoke
  <1>6. CASE Logout(b)
    BY <1>0, <1>6, RevokeRows, RevokeIsEnd DEF Logout, Revoke
  <1>q. QED BY <1>1, <1>2, <1>3, <1>4, <1>5, <1>6 DEF SessionStep

LEMMA AdminImplements ==
  ASSUME IInv, IInv', NEW b \in Browser, AdminStep(b)
  PROVE  [Contract!Next]_(Contract!vars)
  <1>1. ASSUME NEW u \in User, IssueBegin(b, u)
        PROVE  [Contract!Next]_(Contract!vars)
    BY <1>1, NoTablesUnseen DEF IssueBegin, tables
  <1>2. CASE IssueCommit(b)
    <2>1. request[b].user \in User /\ request[b].recovery \in BOOLEAN
      BY <1>2 DEF IssueCommit, IInv, RequestsBound, TypeOK, Request
    <2>q. QED BY <1>2, <2>1, IssueIsOffer DEF IssueCommit
  <1>3. CASE IssueRefused(b) \/ EnrollBegin(b) \/ EnrollCheck(b) \/ EnrollFlag(b)
    BY <1>3, NoTablesUnseen DEF IssueRefused, EnrollBegin, EnrollCheck, EnrollFlag, tables
  <1>4. ASSUME NEW kind \in Kind, EnrollInsert(b, kind)
        PROVE  [Contract!Next]_(Contract!vars)
    BY <1>4, InsertIsEnroll
  <1>5. CASE EnrollRevoke(b)
    <2> DEFINE u == request[b].user
               revoked == SessionsOf(u) \ {browser[b].session}
    <2>1. u \in User
      BY <1>5 DEF EnrollRevoke, IInv, RequestsBound
    <2>2. UNCHANGED <<account, tickets, creds>> /\ sessions' = RevokeSessions(revoked)
      BY <1>5 DEF EnrollRevoke, RevokeOtherSessions
    <2>3. \A s \in SessionId : sessions[s].user # u => s \notin revoked
      BY DEF SessionsOf
    <2> HIDE DEF u, revoked
    <2>4. \A s \in SessionId : /\ sessions'[s].user = sessions[s].user
                               /\ sessions'[s].revoked <=> (sessions[s].revoked \/ s \in revoked)
      BY <2>2, RevokeRows DEF IInv
    <2>q. QED BY <2>1, <2>2, <2>3, <2>4, RevokedIsEnd
  <1>q. QED BY <1>1, <1>2, <1>3, <1>4, <1>5 DEF AdminStep

LEMMA EnvironmentUnseen ==
  ASSUME IInv, IInv', Environment
  PROVE  UNCHANGED Contract!vars
  <1>1. ASSUME NEW b \in Browser, Crash(b) \/ ContextExpires(b) \/ ChallengeExpires(b)
        PROVE  UNCHANGED Contract!vars
    BY <1>1, NoTablesUnseen DEF Crash, ContextExpires, ChallengeExpires, tables
  <1>2. ASSUME NEW t \in TicketId, TicketExpires(t)
        PROVE  UNCHANGED Contract!vars
    <2>1. \A r \in TicketId : Stays(r)
      BY <1>2 DEF TicketExpires, IInv, TypeOK, TicketRow, Stays
    <2>q. QED BY <1>2, <2>1, Unseen DEF TicketExpires
  <1>3. ASSUME NEW s \in SessionId, SessionExpires(s)
        PROVE  UNCHANGED Contract!vars
    <2>1. \A r \in SessionId : /\ sessions'[r].user = sessions[r].user
                               /\ sessions'[r].revoked <=> sessions[r].revoked
      BY <1>3 DEF SessionExpires, IInv, TypeOK, SessionRow
    <2>q. QED BY <1>3, <2>1, Unseen DEF SessionExpires, Stays
  <1>q. QED BY <1>1, <1>2, <1>3 DEF Environment

\* Every step of the requests is a step of the contract or is not seen by it.
LEMMA StepImplements == IInv /\ IInv' /\ [Next]_vars => [Contract!Next]_(Contract!vars)
  <1> SUFFICES ASSUME IInv, IInv', [Next]_vars PROVE [Contract!Next]_(Contract!vars)
    OBVIOUS
  <1>1. CASE UNCHANGED vars
    BY <1>1, NoTablesUnseen DEF vars
  <1>2. ASSUME NEW u \in User, AccountStep(u) PROVE [Contract!Next]_(Contract!vars)
    BY <1>2, CreateIsCreate, DeleteIsDelete, IssueIsOffer DEF AccountStep, IssueFromCli
  <1>3. ASSUME NEW b \in Browser, ActivationStep(b) \/ SessionStep(b) \/ AdminStep(b)
        PROVE  [Contract!Next]_(Contract!vars)
    BY <1>3, ActivationImplements, SessionImplements, AdminImplements
  <1>4. CASE Environment
    BY <1>4, EnvironmentUnseen
  <1>q. QED BY <1>1, <1>2, <1>3, <1>4 DEF Next

LEMMA InitImplements == Init => Contract!Init
  <1> SUFFICES ASSUME Init PROVE Contract!Init
    OBVIOUS
  <1>1. IInv
    BY InitInv
  <1>2. \A u \in User : OfferTo(u) = None
    BY <1>1, OfferIsTicket DEF Init, Open, NoTicketRow, IInv, TablesSafe
  <1>3. \A u \in User : CredsOf(u) = {} /\ LiveSessions(u) = {}
    BY NoneIsNoValue DEF Init, CredsOf, LiveSessions, SessionsOf, NoCredRow, NoSessionRow
  <1>q. QED BY <1>2, <1>3 DEF Contract!Init, Init

\* Activation and recovery keep the contract: accounts change one at a time, a
\* locked account opens only by redeeming its offer with a fresh key, recovery
\* leaves no other key, and only an open account gains sessions.
THEOREM Implements == Spec => ContractHolds
  <1>q. QED
    BY Invariance, InitImplements, StepImplements, PTL DEF Spec, ContractHolds, Contract!Spec
==============================================================================
