-------------------------- MODULE AccountRecovery --------------------------
(***************************************************************************)
(* Activation and recovery of LexNova accounts: the users, tickets,        *)
(* authenticators and sessions tables, the PHP sessions of the browsers,   *)
(* and the requests in flight (ActivationService, ActivationHandler,       *)
(* AuthSessionService, ActivationTicketIssueHandler and the places where   *)
(* the sign-in and enrollment handlers touch the same rows).               *)
(*                                                                         *)
(* A database transaction that starts with the no-op UPDATE of the account *)
(* row is one action: the row lock serialises it with the others.  Whatever*)
(* a request reads before or writes after such a transaction is a separate *)
(* action.  A browser has at most one request in flight, because the PHP   *)
(* session file stays locked for the whole request, and its session data   *)
(* is written back only when the request ends normally.                    *)
(***************************************************************************)
EXTENDS Naturals, FiniteSets

CONSTANTS
  User,         \* account ids that are ever allocated
  Browser,      \* PHP sessions
  None,         \* the SQL NULL / absent value
  Limit,        \* auth.limit.webauthn
  MaxTicket,    \* bound: tickets ever issued
  MaxCred,      \* bound: authenticator rows ever inserted
  MaxSession    \* bound: session rows ever inserted

ASSUME NoneIsNoValue ==
  None \notin User /\ None \notin Browser /\ None \notin {"activation", "recovery"}
ASSUME BoundsAreNatural ==
  Limit \in Nat \ {0} /\ MaxTicket \in Nat /\ MaxCred \in Nat /\ MaxSession \in Nat

VARIABLES
  account,      \* users: existence and activation_required
  mfaRequired,  \* users.mfa_required
  tickets,      \* user_activation_tickets
  lastTicket,   \* its AUTOINCREMENT counter
  creds,        \* user_authenticators
  lastCred,
  sessions,     \* user_sessions
  lastSession,
  browser,      \* stored PHP session data
  request       \* what the request in flight has read so far

tables == <<account, mfaRequired, tickets, lastTicket, creds, lastCred, sessions, lastSession>>
vars == <<account, mfaRequired, tickets, lastTicket, creds, lastCred,
          sessions, lastSession, browser, request>>

---------------------------------------------------------------------------
(* Types *)

Status == {"absent", "active", "pending", "deleted"}
Purpose == {"activation", "recovery"}
Kind == {"webauthn", "totp"}
TicketId == 1..MaxTicket
CredId == 1..MaxCred
SessionId == 1..MaxSession

TicketRow == [user: User \cup {None}, purpose: Purpose,
              consumed: BOOLEAN, revoked: BOOLEAN, expired: BOOLEAN]
CredRow == [user: User \cup {None}, kind: Kind]
\* php: the browser whose current PHP session id is hashed in session_hash
SessionRow == [user: User \cup {None}, revoked: BOOLEAN, expired: BOOLEAN,
               php: Browser \cup {None}]

\* user, session: user_id and auth_session_id.  ticket, fresh: the verified
\* activation context and whether it is younger than 900 s.  challenge,
\* challengeFresh: ticket_hash of activation_registration and its 120 s limit.
BrowserData == [user: User \cup {None}, session: 0..MaxSession,
                ticket: 0..MaxTicket, fresh: BOOLEAN,
                challenge: 0..MaxTicket, challengeFresh: BOOLEAN]

Op == {"idle", "issue", "finish", "enrolled", "signin", "signin_webauthn",
       "enroll", "enroll_passkey", "enroll_flag", "enroll_revoke"}
Request == [op: Op, user: User \cup {None}, recovery: BOOLEAN]

NoTicketRow == [user |-> None, purpose |-> "activation",
                consumed |-> FALSE, revoked |-> FALSE, expired |-> FALSE]
NoCredRow == [user |-> None, kind |-> "webauthn"]
NoSessionRow == [user |-> None, revoked |-> FALSE, expired |-> FALSE, php |-> None]
Anonymous == [user |-> None, session |-> 0, ticket |-> 0, fresh |-> FALSE,
              challenge |-> 0, challengeFresh |-> FALSE]
Idle == [op |-> "idle", user |-> None, recovery |-> FALSE]

TypeOK ==
  /\ account \in [User -> Status]
  /\ mfaRequired \in [User -> BOOLEAN]
  /\ tickets \in [TicketId -> TicketRow]
  /\ lastTicket \in 0..MaxTicket
  /\ creds \in [CredId -> CredRow]
  /\ lastCred \in 0..MaxCred
  /\ sessions \in [SessionId -> SessionRow]
  /\ lastSession \in 0..MaxSession
  /\ browser \in [Browser -> BrowserData]
  /\ request \in [Browser -> Request]

Init ==
  /\ account = [u \in User |-> "absent"]
  /\ mfaRequired = [u \in User |-> FALSE]
  /\ tickets = [t \in TicketId |-> NoTicketRow]
  /\ lastTicket = 0
  /\ creds = [c \in CredId |-> NoCredRow]
  /\ lastCred = 0
  /\ sessions = [s \in SessionId |-> NoSessionRow]
  /\ lastSession = 0
  /\ browser = [b \in Browser |-> Anonymous]
  /\ request = [b \in Browser |-> Idle]

---------------------------------------------------------------------------
(* Queries *)

Exists(u) == account[u] \in {"active", "pending"}

\* consumed_at IS NULL AND revoked_at IS NULL
Open(t) == tickets[t].user # None /\ ~tickets[t].consumed /\ ~tickets[t].revoked

\* ActivationService::userForTicketHash finds the ticket
Usable(t) == Open(t) /\ ~tickets[t].expired /\ account[tickets[t].user] = "pending"

TicketsOf(u) == {t \in TicketId : tickets[t].user = u}

LatestTicketPurpose(u) ==
  LET t == CHOOSE m \in TicketsOf(u) : \A n \in TicketsOf(u) : n <= m
  IN  IF TicketsOf(u) = {} THEN None ELSE tickets[t].purpose

CredsOf(u) == {c \in CredId : creds[c].user = u}
Passkeys(u) == {c \in CredsOf(u) : creds[c].kind = "webauthn"}

\* CredentialLimitService::assertCanAdd('webauthn', count) does not throw
CanAddPasskey(u) == Cardinality(Passkeys(u)) < Limit

\* AuthSessionService::isValid for the identity the browser holds
IsValid(b) ==
  LET s == browser[b].session IN
    /\ browser[b].user # None
    /\ s # 0
    /\ sessions[s].user = browser[b].user
    /\ ~sessions[s].revoked
    /\ ~sessions[s].expired
    /\ account[browser[b].user] = "active"

\* ActivationHandler::resolveActivationContext accepts the context
ContextHolds(b) == browser[b].ticket # 0 /\ Usable(browser[b].ticket) /\ browser[b].fresh

---------------------------------------------------------------------------
(* Mutations: slips in the code that the properties below must notice. *)

\* establish() without its re-read of activation_required
EstablishUnchecked(b, u) == Exists(u) /\ \A s \in SessionId : sessions[s].php # b

\* issue() without the UPDATE that revokes the open tickets
TicketsLeftOpen(u) == tickets

\* complete() without the UPDATE that consumes the ticket
NotConsumed(t) == tickets

\* complete() whose recovery cleanup forgets the TOTP keys
SupersededPasskeys(u, t) == IF tickets[t].purpose = "recovery" THEN Passkeys(u) ELSE {}

---------------------------------------------------------------------------
(* Statements on user_sessions *)

RevokeSessions(S) ==
  [s \in SessionId |-> [sessions[s] EXCEPT !.revoked = @ \/ s \in S]]

SessionsOf(u) == {s \in SessionId : sessions[s].user = u}

\* AuthSessionService::revokeUser, ::revokeOtherSessions, ::revoke
RevokeUser(u) == RevokeSessions(SessionsOf(u))
RevokeOtherSessions(u, current) == RevokeSessions(SessionsOf(u) \ {current})
Revoke(s) == RevokeSessions({s})

\* SessionInterface::regenerate takes effect when the request ends: the rows
\* that hash the old PHP session id can never be matched by this browser again.
Regenerate(rows, b) ==
  [s \in SessionId |-> [rows[s] EXCEPT !.php = IF @ = b THEN None ELSE @]]

Respond(b) == request' = [request EXCEPT ![b] = Idle]

\* session->unset('activation_registration')
DropChallenge(data) == [data EXCEPT !.challenge = 0, !.challengeFresh = FALSE]

\* ActivationHandler::clearActivationContext
ClearContext(data) == [DropChallenge(data) EXCEPT !.ticket = 0, !.fresh = FALSE]

---------------------------------------------------------------------------
(* Accounts *)

\* UserService::create: passkey-only accounts start pending.
CreateAccount(u) ==
  /\ account[u] = "absent"
  /\ \E s \in {"active", "pending"} : account' = [account EXCEPT ![u] = s]
  /\ UNCHANGED <<mfaRequired, tickets, lastTicket, creds, lastCred,
                 sessions, lastSession, browser, request>>

\* UserService::delete with the ON DELETE CASCADE of the three tables.  Its
\* callers have counted the administrators in an earlier statement, so it may
\* meet the last of these accounts; there may also be accounts besides User.
DeleteAccount(u) ==
  /\ Exists(u)
  /\ account' = [account EXCEPT ![u] = "deleted"]
  /\ tickets' = [t \in TicketId |-> IF tickets[t].user = u THEN NoTicketRow ELSE tickets[t]]
  /\ creds' = [c \in CredId |-> IF creds[c].user = u THEN NoCredRow ELSE creds[c]]
  /\ sessions' = [s \in SessionId |->
                    IF sessions[s].user = u THEN NoSessionRow ELSE sessions[s]]
  /\ UNCHANGED <<mfaRequired, lastTicket, lastCred, lastSession, browser, request>>

---------------------------------------------------------------------------
(* Issuing tickets *)

\* The open tickets of the account are revoked.
TicketsRevoked(u) ==
  [t \in TicketId |->
     [tickets[t] EXCEPT !.revoked = @ \/ (tickets[t].user = u /\ ~tickets[t].consumed)]]

\* The transaction of ActivationService::issue commits.
IssueAllowed(u, recovery) == Exists(u) /\ (recovery \/ account[u] = "pending")

Issue(u, recovery) ==
  /\ IssueAllowed(u, recovery)
  /\ lastTicket < MaxTicket
  /\ lastTicket' = lastTicket + 1
  /\ tickets' = [t \in TicketId |->
       IF t = lastTicket + 1
       THEN [NoTicketRow EXCEPT !.user = u,
                                !.purpose = IF recovery THEN "recovery" ELSE "activation"]
       ELSE TicketsRevoked(u)[t]]
  /\ account' = [account EXCEPT ![u] = "pending"]
  /\ sessions' = RevokeUser(u)
  /\ UNCHANGED <<mfaRequired, creds, lastCred, lastSession>>

\* bin/lexnova user:activation-create [--recovery] and user:create --ticket.
IssueFromCli(u, recovery) ==
  /\ Issue(u, recovery)
  /\ UNCHANGED <<browser, request>>

\* The purpose the web handler picks from what it reads.
ReissueAsRecovery(u) == account[u] # "pending" \/ LatestTicketPurpose(u) = "recovery"

\* ActivationTicketIssueHandler reads the account and picks the purpose ...
IssueBegin(b, u) ==
  /\ request[b] = Idle
  /\ IsValid(b)
  /\ browser[b].user # u
  /\ Exists(u)
  /\ request' = [request EXCEPT ![b] =
       [op |-> "issue", user |-> u,
        recovery |-> ReissueAsRecovery(u)]]
  /\ UNCHANGED <<tables, browser>>

\* ... and then calls ActivationService::issue, which may refuse.
IssueCommit(b) ==
  /\ request[b].op = "issue"
  /\ Issue(request[b].user, request[b].recovery)
  /\ Respond(b)
  /\ UNCHANGED browser

IssueRefused(b) ==
  /\ request[b].op = "issue"
  /\ ~IssueAllowed(request[b].user, request[b].recovery)
  /\ Respond(b)
  /\ UNCHANGED <<tables, browser>>

---------------------------------------------------------------------------
(* The activation page *)

\* POST /activate/verify with the token of ticket t.
VerifyTicket(b, t) ==
  /\ request[b] = Idle
  /\ Usable(t)
  /\ IF tickets[t].purpose = "recovery"
     THEN /\ sessions' = Regenerate(Revoke(browser[b].session), b)
          /\ browser' = [browser EXCEPT ![b] =
                           [Anonymous EXCEPT !.ticket = t, !.fresh = TRUE]]
     ELSE /\ browser' = [browser EXCEPT ![b] = [@ EXCEPT !.ticket = t, !.fresh = TRUE]]
          /\ UNCHANGED sessions
  /\ UNCHANGED <<account, mfaRequired, tickets, lastTicket, creds, lastCred,
                 lastSession, request>>

\* Any later activation request with a context that no longer resolves.
DropContext(b) ==
  /\ request[b] = Idle
  /\ browser[b].ticket # 0
  /\ ~ContextHolds(b)
  /\ browser' = [browser EXCEPT ![b] = ClearContext(@)]
  /\ UNCHANGED <<tables, request>>

\* POST /activate/options
RegistrationOptions(b) ==
  /\ request[b] = Idle
  /\ ContextHolds(b)
  /\ CanAddPasskey(tickets[browser[b].ticket].user)
  /\ browser' = [browser EXCEPT ![b] =
                    [@ EXCEPT !.challenge = browser[b].ticket, !.challengeFresh = TRUE]]
  /\ UNCHANGED <<tables, request>>

\* POST /activate/finish: the checks in front of ActivationService::complete.
FinishBegin(b) ==
  /\ request[b] = Idle
  /\ ContextHolds(b)
  /\ browser[b].challenge = browser[b].ticket
  /\ browser[b].challengeFresh
  /\ request' = [request EXCEPT ![b] =
       [op |-> "finish", user |-> tickets[browser[b].ticket].user,
        recovery |-> tickets[browser[b].ticket].purpose = "recovery"]]
  /\ UNCHANGED <<tables, browser>>

\* The challenge is gone, stale or bound to another ticket, or the input is
\* malformed: the pending registration is dropped.
FinishRejected(b) ==
  /\ request[b] = Idle
  /\ ContextHolds(b)
  /\ browser' = [browser EXCEPT ![b] = DropChallenge(@)]
  /\ UNCHANGED <<tables, request>>

\* ActivationService::complete passes its checks under the account row lock.
CompleteAllowed(u, t) ==
  /\ account[u] = "pending"
  /\ tickets[t].user = u
  /\ Open(t)
  /\ ~tickets[t].expired
  /\ CanAddPasskey(u)

\* The authenticators that completing the ticket deletes.
Superseded(u, t) == IF tickets[t].purpose = "recovery" THEN CredsOf(u) ELSE {}

Consume(t) == [tickets EXCEPT ![t].consumed = TRUE]

\* The transaction of ActivationService::complete: the verified passkey is
\* inserted, recovery deletes every older authenticator, the account opens and
\* the ticket is consumed.
Complete(u, t) ==
  /\ CompleteAllowed(u, t)
  /\ lastCred < MaxCred
  /\ lastCred' = lastCred + 1
  /\ creds' = [c \in CredId |->
       IF c = lastCred + 1 THEN [user |-> u, kind |-> "webauthn"]
       ELSE IF c \in Superseded(u, t) THEN NoCredRow ELSE creds[c]]
  /\ account' = [account EXCEPT ![u] = "active"]
  /\ mfaRequired' = [mfaRequired EXCEPT ![u] = TRUE]
  /\ tickets' = Consume(t)
  /\ UNCHANGED <<lastTicket, sessions, lastSession>>

FinishCommit(b) ==
  /\ request[b].op = "finish"
  /\ Complete(request[b].user, browser[b].ticket)
  /\ request' = [request EXCEPT ![b].op = "enrolled"]
  /\ UNCHANGED browser

\* The ceremony fails or the transaction is refused and rolled back.
FinishFailed(b) ==
  /\ request[b].op = "finish"
  /\ browser' = [browser EXCEPT ![b] = DropChallenge(@)]
  /\ Respond(b)
  /\ UNCHANGED tables

\* Recovery ends anonymously: the user signs in again with the new key.
RecoveryReply(b) ==
  /\ request[b].op = "enrolled"
  /\ request[b].recovery
  /\ sessions' = Regenerate(Revoke(browser[b].session), b)
  /\ browser' = [browser EXCEPT ![b] = Anonymous]
  /\ Respond(b)
  /\ UNCHANGED <<account, mfaRequired, tickets, lastTicket, creds, lastCred, lastSession>>

---------------------------------------------------------------------------
(* Sessions *)

\* AuthSessionService::establish passes: the account is open under the row lock
\* and the hash of the current PHP session id is not stored yet (UNIQUE).
EstablishAllowed(b, u) ==
  /\ account[u] = "active"
  /\ \A s \in SessionId : sessions[s].php # b

\* The transaction of AuthSessionService::establish; the row keeps the hash of
\* the id that the response replaces.
Establish(b, u) ==
  /\ EstablishAllowed(b, u)
  /\ lastSession < MaxSession
  /\ lastSession' = lastSession + 1
  /\ sessions' = [sessions EXCEPT ![lastSession + 1] =
       [user |-> u, revoked |-> FALSE, expired |-> FALSE, php |-> None]]
  /\ UNCHANGED <<account, mfaRequired, tickets, lastTicket, creds, lastCred>>

\* The process dies, or the database connection is lost, after the establish
\* transaction: the row exists but the browser keeps its old PHP session id.
EstablishThenCrash(b) ==
  /\ request[b].op \in {"signin", "signin_webauthn"}
       \/ (request[b].op = "enrolled" /\ ~request[b].recovery)
  /\ EstablishAllowed(b, request[b].user)
  /\ lastSession < MaxSession
  /\ lastSession' = lastSession + 1
  /\ sessions' = [sessions EXCEPT ![lastSession + 1] =
       [user |-> request[b].user, revoked |-> FALSE, expired |-> FALSE, php |-> b]]
  /\ Respond(b)
  /\ UNCHANGED <<account, mfaRequired, tickets, lastTicket, creds, lastCred, browser>>

\* First activation signs the browser in with the key just enrolled.
ActivationReply(b) ==
  /\ request[b].op = "enrolled"
  /\ ~request[b].recovery
  /\ Exists(request[b].user)
  /\ Establish(b, request[b].user)
  /\ browser' = [browser EXCEPT ![b] =
       [Anonymous EXCEPT !.user = request[b].user, !.session = lastSession + 1]]
  /\ Respond(b)

\* establish() threw: the context is gone, the identity is what it was.  When
\* findById no longer finds the account not even the context is cleared.
ActivationReplyRefused(b) ==
  /\ request[b].op = "enrolled"
  /\ ~request[b].recovery
  /\ ~EstablishAllowed(b, request[b].user)
  /\ IF Exists(request[b].user)
     THEN /\ browser' = [browser EXCEPT ![b] = ClearContext(@)]
          /\ sessions' = Regenerate(sessions, b)
     ELSE /\ browser' = [browser EXCEPT ![b] = DropChallenge(@)]
          /\ UNCHANGED sessions
  /\ Respond(b)
  /\ UNCHANGED <<account, mfaRequired, tickets, lastTicket, creds, lastCred, lastSession>>

\* LoginHandler and TotpVerifyHandler ("signin") and PasskeyLoginHandler
\* ("signin_webauthn") have verified the factors of an account they read as
\* open.  The password alone is enough when the row they read does not require
\* MFA; only that form turns a browser away that already has a user_id.
SignInVerified(b, u, op) ==
  /\ request[b] = Idle
  /\ account[u] = "active"
  /\ \/ op = "signin_webauthn" /\ Passkeys(u) # {}
     \/ op = "signin" /\ CredsOf(u) \ Passkeys(u) # {}
     \/ op = "signin" /\ ~mfaRequired[u] /\ browser[b].user = None
  /\ request' = [request EXCEPT ![b] = [op |-> op, user |-> u, recovery |-> FALSE]]
  /\ UNCHANGED <<tables, browser>>

SignInEstablish(b) ==
  /\ request[b].op \in {"signin", "signin_webauthn"}
  /\ Establish(b, request[b].user)
  /\ browser' = [browser EXCEPT ![b] =
                    [@ EXCEPT !.user = request[b].user, !.session = lastSession + 1]]
  /\ Respond(b)

\* establish() threw.  PasskeyLoginHandler catches it and its response still
\* regenerates the id; elsewhere the exception discards the session changes.
SignInRefused(b) ==
  /\ request[b].op \in {"signin", "signin_webauthn"}
  /\ ~EstablishAllowed(b, request[b].user)
  /\ sessions' = IF request[b].op = "signin_webauthn" THEN Regenerate(sessions, b) ELSE sessions
  /\ Respond(b)
  /\ UNCHANGED <<account, mfaRequired, tickets, lastTicket, creds, lastCred,
                 lastSession, browser>>

\* AdminAuthMiddleware turns the browser away; isValid revokes the row of a
\* pending account and a row past its idle or absolute deadline.
RejectSession(b) ==
  LET s == browser[b].session IN
    /\ request[b] = Idle
    /\ s # 0
    /\ sessions[s].user = browser[b].user
    /\ browser[b].user # None
    /\ ~sessions[s].revoked
    /\ account[browser[b].user] = "pending" \/ sessions[s].expired
    /\ sessions' = Revoke(s)
    /\ UNCHANGED <<account, mfaRequired, tickets, lastTicket, creds, lastCred,
                   lastSession, browser, request>>

\* LogoutHandler behind AdminAuthMiddleware
Logout(b) ==
  /\ request[b] = Idle
  /\ IsValid(b)
  /\ sessions' = Revoke(browser[b].session)
  /\ browser' = [browser EXCEPT ![b] = Anonymous]
  /\ UNCHANGED <<account, mfaRequired, tickets, lastTicket, creds, lastCred,
                 lastSession, request>>

---------------------------------------------------------------------------
(* Self-service enrollment *)

\* The middleware and the step-up have accepted the request ...
EnrollBegin(b) ==
  /\ request[b] = Idle
  /\ IsValid(b)
  /\ request' = [request EXCEPT ![b] =
       [op |-> "enroll", user |-> browser[b].user, recovery |-> FALSE]]
  /\ UNCHANGED <<tables, browser>>

\* ... finishRegistration counts the passkeys ...
EnrollCheck(b) ==
  /\ request[b].op = "enroll"
  /\ CanAddPasskey(request[b].user)
  /\ request' = [request EXCEPT ![b].op = "enroll_passkey"]
  /\ UNCHANGED <<tables, browser>>

\* ... then inserts the credential with no lock on the account row and no second
\* look at the session (the foreign key needs the account), then flags the
\* account, then the handler revokes its other sessions: no transaction holds
\* these statements together.  TOTP's own limit is not modelled.
EnrollInsert(b, kind) ==
  LET u == request[b].user IN
    /\ request[b].op = IF kind = "webauthn" THEN "enroll_passkey" ELSE "enroll"
    /\ Exists(u)
    /\ lastCred < MaxCred
    /\ lastCred' = lastCred + 1
    /\ creds' = [creds EXCEPT ![lastCred + 1] = [user |-> u, kind |-> kind]]
    /\ request' = [request EXCEPT ![b].op = "enroll_flag"]
    /\ UNCHANGED <<account, mfaRequired, tickets, lastTicket, sessions, lastSession, browser>>

EnrollFlag(b) ==
  LET u == request[b].user IN
    /\ request[b].op = "enroll_flag"
    /\ mfaRequired' = [mfaRequired EXCEPT ![u] = @ \/ Exists(u)]
    /\ request' = [request EXCEPT ![b].op = "enroll_revoke"]
    /\ UNCHANGED <<account, tickets, lastTicket, creds, lastCred, sessions, lastSession, browser>>

EnrollRevoke(b) ==
  /\ request[b].op = "enroll_revoke"
  /\ sessions' = RevokeOtherSessions(request[b].user, browser[b].session)
  /\ Respond(b)
  /\ UNCHANGED <<account, mfaRequired, tickets, lastTicket, creds, lastCred,
                 lastSession, browser>>

---------------------------------------------------------------------------
(* Time and failure *)

\* A worker dies: what it had committed stays, what it had in memory is lost.
Crash(b) ==
  /\ request[b] # Idle
  /\ Respond(b)
  /\ UNCHANGED <<tables, browser>>

\* Deadlines pass; they matter only for what is still open.
TicketExpires(t) ==
  /\ Open(t)
  /\ ~tickets[t].expired
  /\ tickets' = [tickets EXCEPT ![t].expired = TRUE]
  /\ UNCHANGED <<account, mfaRequired, lastTicket, creds, lastCred, sessions,
                 lastSession, browser, request>>

SessionExpires(s) ==
  /\ sessions[s].user # None
  /\ ~sessions[s].revoked
  /\ ~sessions[s].expired
  /\ sessions' = [sessions EXCEPT ![s].expired = TRUE]
  /\ UNCHANGED <<account, mfaRequired, tickets, lastTicket, creds, lastCred,
                 lastSession, browser, request>>

ContextExpires(b) ==
  /\ request[b] = Idle
  /\ browser[b].fresh
  /\ browser' = [browser EXCEPT ![b].fresh = FALSE]
  /\ UNCHANGED <<tables, request>>

ChallengeExpires(b) ==
  /\ request[b] = Idle
  /\ browser[b].challengeFresh
  /\ browser' = [browser EXCEPT ![b].challengeFresh = FALSE]
  /\ UNCHANGED <<tables, request>>

---------------------------------------------------------------------------

AccountStep(u) ==
  \/ CreateAccount(u)
  \/ DeleteAccount(u)
  \/ \E recovery \in BOOLEAN : IssueFromCli(u, recovery)

ActivationStep(b) ==
  \/ \E t \in TicketId : VerifyTicket(b, t)
  \/ DropContext(b)
  \/ RegistrationOptions(b)
  \/ FinishBegin(b)
  \/ FinishRejected(b)
  \/ FinishCommit(b)
  \/ FinishFailed(b)
  \/ RecoveryReply(b)
  \/ ActivationReply(b)
  \/ ActivationReplyRefused(b)

SessionStep(b) ==
  \/ \E u \in User, op \in {"signin", "signin_webauthn"} : SignInVerified(b, u, op)
  \/ SignInEstablish(b)
  \/ SignInRefused(b)
  \/ EstablishThenCrash(b)
  \/ RejectSession(b)
  \/ Logout(b)

AdminStep(b) ==
  \/ \E u \in User : IssueBegin(b, u)
  \/ IssueCommit(b)
  \/ IssueRefused(b)
  \/ EnrollBegin(b)
  \/ EnrollCheck(b)
  \/ \E kind \in Kind : EnrollInsert(b, kind)
  \/ EnrollFlag(b)
  \/ EnrollRevoke(b)

Environment ==
  \/ \E b \in Browser : Crash(b) \/ ContextExpires(b) \/ ChallengeExpires(b)
  \/ \E t \in TicketId : TicketExpires(t)
  \/ \E s \in SessionId : SessionExpires(s)

Next ==
  \/ \E u \in User : AccountStep(u)
  \/ \E b \in Browser : ActivationStep(b) \/ SessionStep(b) \/ AdminStep(b)
  \/ Environment

Spec == Init /\ [][Next]_vars

---------------------------------------------------------------------------
(* Properties *)

LiveSessions(u) == {s \in SessionsOf(u) : ~sessions[s].revoked}

\* An account that waits for activation or recovery has no live session row,
\* whichever sign-in, enrollment or crash was under way when its ticket was
\* issued: AuthSessionService::establish re-reads activation_required under the
\* row lock that ActivationService::issue takes before it revokes.
PendingHasNoLiveSession ==
  \A u \in User : account[u] = "pending" => LiveSessions(u) = {}

\* However tickets are reissued by administrators and by the command line at the
\* same time, at most one ticket of an account is neither consumed nor revoked.
OneOpenTicket ==
  \A s, t \in TicketId :
    Open(s) /\ Open(t) /\ tickets[s].user = tickets[t].user => s = t

\* No open ticket is left behind by an account that has completed: a completed
\* activation consumes the only open ticket there is.
OpenTicketMeansPending ==
  \A t \in TicketId : Open(t) => account[tickets[t].user] = "pending"

\* The purpose of the ticket that can reopen the account
OfferTo(u) ==
  IF \E t \in TicketId : Open(t) /\ tickets[t].user = u
  THEN tickets[CHOOSE t \in TicketId : Open(t) /\ tickets[t].user = u].purpose
  ELSE None

\* What the component promises (module RecoveryContract): one account changes at
\* a time, a locked account opens only by redeeming its offer with a fresh key,
\* recovery leaves no other key, and only an open account gains sessions.
Contract == INSTANCE RecoveryContract WITH
  Cred <- CredId,
  Session <- SessionId,
  status <- account,
  offer <- [u \in User |-> OfferTo(u)],
  keys <- [u \in User |-> CredsOf(u)],
  live <- [u \in User |-> LiveSessions(u)]

ContractHolds == Contract!Spec

\* PasskeyDeleteHandler refuses to remove keys of a locked account: "Issue or
\* complete its recovery ticket instead."  So a usable recovery ticket can be
\* completed.
RecoveryCanEnroll ==
  \A t \in TicketId :
    Usable(t) /\ tickets[t].purpose = "recovery" => CanAddPasskey(tickets[t].user)
============================================================================
