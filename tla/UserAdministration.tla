------------------------- MODULE UserAdministration -------------------------
(***************************************************************************)
(* The accounts of LexNova as administrators and the command line keep     *)
(* them: creation, deletion, new passwords, the switch of password login,  *)
(* and the sign-ins that happen in between and write the password's hash   *)
(* again when its parameters are out of date (UserService, UserCreate-,    *)
(* UserUpdate- and UserDeleteHandler, user:create, user:set-password,      *)
(* user:delete, LoginHandler).                                             *)
(*                                                                         *)
(* None of this is in a transaction: a request reads, then writes, and     *)
(* ends sessions last.  Every account has the one role there is.  The      *)
(* step-up of the administrator is in StepUpPages, activation in           *)
(* AccountRecovery, failed passwords are in RateLimit.                     *)
(***************************************************************************)
EXTENDS Naturals, FiniteSets

CONSTANTS
  User,       \* account ids
  Browser,    \* PHP sessions
  Cli,        \* the bin/lexnova process
  None,       \* the absent value
  Password,   \* passwords people know
  Factor,     \* the accounts that have mfa_required and a factor
  Passkey,    \* those of them that have a passkey, once activated
  MaxChange   \* bound: how many changes begin

ASSUME NoneIsNobody == None \notin User \cup Password
ASSUME CliIsNoBrowser == Cli \notin Browser
ASSUME ChangesAreCounted == MaxChange \in Nat
ASSUME PasskeyIsFactor == Passkey \subseteq Factor

VARIABLES
  overlap,    \* may requests overlap in time?
  account,    \* the users table
  session,    \* by browser: its user_sessions row
  pending,    \* by browser, session data: a sign-in that waits for a factor
  request,    \* the request in flight
  changes,    \* how many changes began
  meant,      \* history: the password last given to an account
  raced,      \* history: accounts given it while a sign-in was to rehash another
  broken      \* history: accounts a change of which broke off, or was overtaken

historyVars == <<meant, raced, broken>>
vars == <<overlap, account, session, pending, request, changes, historyVars>>

---------------------------------------------------------------------------
(* Types *)

Actor == Browser \cup {Cli}

\* pw: what password_hash is the hash of, None for a random one; old: its
\* parameters are out of date; login: password_login_enabled; waits:
\* activation_required
Account == [state: {"new", "here", "gone"}, pw: Password \cup {None}, old: BOOLEAN,
            login: BOOLEAN, waits: BOOLEAN]

\* pw: the password a session or a sign-in rests on, if it is one; late, history:
\* the sign-in was under way when the account's sessions were ended
Claim == [user: User \cup {None}, pw: Password \cup {None}, late: BOOLEAN]
ClaimOf(u, pw, late) == [user |-> u, pw |-> pw, late |-> late]
NoClaim == ClaimOf(None, None, FALSE)

\* was: the login setting the handler read before; late: as in a claim
Idle == [op |-> "idle", user |-> None, pw |-> None, login |-> FALSE, was |-> FALSE, late |-> FALSE]
Request == [op: {"idle", "rehash", "sign in", "password", "login", "revoke", "delete"},
            user: User \cup {None}, pw: Password \cup {None}, login: BOOLEAN, was: BOOLEAN, late: BOOLEAN]

Here == {u \in User : account[u].state = "here"}
SignedIn(b) == session[b].user # None

TypeOK ==
  /\ overlap \in BOOLEAN
  /\ account \in [User -> Account]
  /\ session \in [Browser -> Claim]
  /\ \A b \in Browser : SignedIn(b) => session[b].user \in Here
  /\ pending \in [Browser -> Claim]
  /\ request \in [Actor -> Request]
  /\ changes \in 0..MaxChange
  /\ meant \in [User -> Password \cup {None}]
  /\ raced \subseteq User
  /\ broken \subseteq User

---------------------------------------------------------------------------
(* Initial states: some accounts exist, with hashes of any age. *)

Init ==
  /\ overlap \in BOOLEAN
  /\ account \in [User -> {a \in Account :
       /\ a.state \in {"new", "here"}
       /\ a.login <=> a.pw # None
       /\ ~a.waits
       /\ a.state = "new" => a.pw = None
       /\ a.pw = None => ~a.old}]
  /\ \A u \in Here : account[u].login \/ u \in Passkey
  /\ Here # {}
  /\ session = [b \in Browser |-> NoClaim]
  /\ pending = [b \in Browser |-> NoClaim]
  /\ request = [p \in Actor |-> Idle]
  /\ changes = 0
  /\ meant = [u \in User |-> account[u].pw]
  /\ raced = {} /\ broken = {}

---------------------------------------------------------------------------
(* Mutations: slips in the code that the properties below must notice. *)

AccountsAreLeft == Here # {}
VerifiesOrRehashes(u, p) == account[u].pw = p \/ account[u].old
LoginSwitched(r) == r.was # r.login
NobodysSessions(u, kept) == {}

---------------------------------------------------------------------------
(* Queries *)

Quiet == \A p \in Actor : request[p] = Idle
MayStart(p) == request[p] = Idle /\ (overlap \/ Quiet)
MayChange(p) == MayStart(p) /\ changes < MaxChange /\ changes' = changes + 1

\* countAdministrators() > 1
OthersAreLeft == Cardinality(Here) > 1

SigningIn(p) == request[p].op \in {"rehash", "sign in"}
Rehashing(u) == \E p \in Actor : request[p].op = "rehash" /\ request[p].user = u

\* The setting the handler compares with is not the one it replaces.
Overtaken(p) == account[request[p].user].login # request[p].was

\* PasswordService::verify
Verifies(u, p) == account[u].pw = p

\* UserUpdateHandler ends sessions when something has changed.
EndsSessions(r) == r.pw # None \/ r.was # r.login

\* revokeUser, or revokeOtherSessions to keep one browser's; ON DELETE CASCADE
SessionsOf(u, kept) == {b \in Browser : session[b].user = u} \ kept

Start(p, op, u, pw, login) ==
  request' = [request EXCEPT ![p] =
                [op |-> op, user |-> u, pw |-> pw, login |-> login,
                 was |-> account[u].login, late |-> FALSE]]
Proceed(p, op) == request' = [request EXCEPT ![p].op = op]
Respond(p) == request' = [request EXCEPT ![p] = Idle]

---------------------------------------------------------------------------
(* Sign-in *)

\* verifyCredentials reads the row; the hash may be out of date ...
VerifyPassword(b, u, p) ==
  /\ MayStart(b)
  /\ ~SignedIn(b)
  /\ u \in Here
  /\ account[u].login /\ ~account[u].waits
  /\ Verifies(u, p)
  /\ Start(b, IF account[u].old THEN "rehash" ELSE "sign in", u, p, TRUE)
  /\ UNCHANGED <<overlap, account, session, pending, changes, historyVars>>

\* ... and is written again, of the password given; no row, no write.
Rehash(b) ==
  LET u == request[b].user IN
    /\ request[b].op = "rehash"
    /\ account' = IF u \in Here
                  THEN [account EXCEPT ![u].pw = request[b].pw, ![u].old = FALSE] ELSE account
    /\ Proceed(b, "sign in")
    /\ UNCHANGED <<overlap, session, pending, changes, historyVars>>

\* establish() refuses an account that is not there, or waits for activation.
Establish(b, claim) ==
  session' = IF claim.user \in Here /\ ~account[claim.user].waits
             THEN [session EXCEPT ![b] = claim] ELSE session

\* LoginHandler: the second factor is asked for, or the session begins.
PasswordDone(b) ==
  LET claim == ClaimOf(request[b].user, request[b].pw, request[b].late) IN
    /\ request[b].op = "sign in"
    /\ IF claim.user \in Factor
       THEN pending' = [pending EXCEPT ![b] = claim] /\ UNCHANGED session
       ELSE Establish(b, claim) /\ UNCHANGED pending
    /\ Respond(b)
    /\ UNCHANGED <<overlap, account, changes, historyVars>>

\* TotpVerifyHandler or PasskeyLoginHandler: the factor is right, or too late.
FactorDone(b) ==
  /\ MayStart(b)
  /\ pending[b] # NoClaim
  /\ Establish(b, pending[b])
  /\ pending' = [pending EXCEPT ![b] = NoClaim]
  /\ UNCHANGED <<overlap, account, request, changes, historyVars>>

FactorLate(b) ==
  /\ request[b] = Idle
  /\ pending[b] # NoClaim
  /\ pending' = [pending EXCEPT ![b] = NoClaim]
  /\ UNCHANGED <<overlap, account, session, request, changes, historyVars>>

\* PasskeyLoginHandler without a password
PasskeyDone(b, u) ==
  /\ MayStart(b)
  /\ u \in Here \cap Passkey
  /\ ~account[u].waits
  /\ Establish(b, ClaimOf(u, None, FALSE))
  /\ pending' = [pending EXCEPT ![b] = NoClaim]
  /\ UNCHANGED <<overlap, account, request, changes, historyVars>>

\* a deadline, or Logout, which clears the session's data, too
SessionEnds(b) ==
  /\ request[b] = Idle
  /\ SignedIn(b)
  /\ session' = [session EXCEPT ![b] = NoClaim]
  /\ \E claim \in {pending[b], NoClaim} : pending' = [pending EXCEPT ![b] = claim]
  /\ UNCHANGED <<overlap, account, request, changes, historyVars>>

---------------------------------------------------------------------------
(* Changes *)

\* UserCreateHandler and user:create; without password login the hash is random
\* and the account waits for its passkey.
Create(p, u, pw, login) ==
  /\ MayChange(p)
  /\ p # Cli => SignedIn(p)
  /\ account[u].state = "new"
  /\ account' = [account EXCEPT ![u] =
       [state |-> "here", pw |-> IF login THEN pw ELSE None, old |-> FALSE,
        login |-> login, waits |-> ~login]]
  /\ meant' = [meant EXCEPT ![u] = account'[u].pw]
  /\ UNCHANGED <<overlap, session, pending, request, raced, broken>>

\* ActivationService::complete, in AccountRecovery
Activate(u) ==
  /\ u \in Here \cap Passkey
  /\ account[u].waits
  /\ account' = [account EXCEPT ![u].waits = FALSE]
  /\ UNCHANGED <<overlap, session, pending, request, changes, historyVars>>

\* UserUpdateHandler with its checks passed and its grant consumed; pw = None
\* leaves the password as it is.
Update(b, u, pw, login) ==
  /\ MayChange(b)
  /\ SignedIn(b)
  /\ u \in Here
  /\ login \/ (u \in Passkey /\ ~account[u].waits)
  /\ Start(b, IF pw = None THEN "login" ELSE "password", u, pw, login)
  /\ UNCHANGED <<overlap, account, session, pending, historyVars>>

\* user:set-password
CliSetPassword(u, pw) ==
  /\ MayChange(Cli)
  /\ u \in Here
  /\ Start(Cli, "password", u, pw, FALSE)
  /\ UNCHANGED <<overlap, account, session, pending, historyVars>>

WritePassword(p) ==
  LET u == request[p].user IN
    /\ request[p].op = "password"
    /\ IF u \in Here
       THEN /\ account' = [account EXCEPT ![u].pw = request[p].pw, ![u].old = FALSE]
            /\ meant' = [meant EXCEPT ![u] = request[p].pw]
            /\ raced' = IF Rehashing(u) THEN raced \cup {u} ELSE raced \ {u}
       ELSE UNCHANGED <<account, meant, raced>>
    /\ Proceed(p, IF p = Cli THEN "revoke" ELSE "login")
    /\ UNCHANGED <<overlap, session, pending, changes, broken>>

WriteLogin(b) ==
  LET u == request[b].user IN
    /\ request[b].op = "login"
    /\ account' = IF u \in Here THEN [account EXCEPT ![u].login = request[b].login] ELSE account
    /\ IF EndsSessions(request[b])
       THEN Proceed(b, "revoke") /\ UNCHANGED broken
       ELSE Respond(b) /\ broken' = IF Overtaken(b) THEN broken \cup {u} ELSE broken
    /\ UNCHANGED <<overlap, session, pending, changes, meant, raced>>

\* The session of whoever changes the own account goes on; it rests on the
\* step-up that confirmed the change.
EndSessions(p) ==
  LET u == request[p].user
      own == {b \in Browser : b = p /\ session[b].user = u}
  IN  /\ request[p].op = "revoke"
      /\ session' = [b \in Browser |->
           IF b \in SessionsOf(u, own) THEN NoClaim
           ELSE IF b \in own THEN ClaimOf(u, None, FALSE)
           ELSE session[b]]
      /\ pending' = [b \in Browser |->
           [pending[b] EXCEPT !.late = @ \/ pending[b].user = u]]
      /\ broken' = broken \ {u}
      /\ request' = [q \in Actor |->
           IF q = p THEN Idle
           ELSE [request[q] EXCEPT !.late = @ \/ (SigningIn(q) /\ request[q].user = u)]]
      /\ UNCHANGED <<overlap, account, changes, meant, raced>>

\* UserDeleteHandler and user:delete, up to the DELETE ...
DeleteBegin(p, u) ==
  /\ MayChange(p)
  /\ p # Cli => SignedIn(p) /\ session[p].user # u
  /\ u \in Here
  /\ OthersAreLeft
  /\ Start(p, "delete", u, None, FALSE)
  /\ UNCHANGED <<overlap, account, session, pending, historyVars>>

\* ... with the rows that refer to the account.
DeleteCommit(p) ==
  LET u == request[p].user IN
    /\ request[p].op = "delete"
    /\ account' = [account EXCEPT ![u].state = "gone"]
    /\ session' = [b \in Browser |-> IF b \in SessionsOf(u, {}) THEN NoClaim ELSE session[b]]
    /\ Respond(p)
    /\ UNCHANGED <<overlap, pending, changes, historyVars>>

\* A process dies; sessions may be left that it was about to end.
Crash(p) ==
  LET r == request[p] IN
    /\ r # Idle
    /\ broken' = IF r.op = "revoke" \/ (r.op = "login" /\ r.pw # None)
                 THEN broken \cup {r.user} ELSE broken
    /\ Respond(p)
    /\ UNCHANGED <<overlap, account, session, pending, changes, meant, raced>>

---------------------------------------------------------------------------

SignInStep(b) ==
  \/ \E u \in User, p \in Password : VerifyPassword(b, u, p)
  \/ Rehash(b)
  \/ PasswordDone(b)
  \/ FactorDone(b)
  \/ FactorLate(b)
  \/ \E u \in User : PasskeyDone(b, u)
  \/ SessionEnds(b)

ChangeStep(p) ==
  \/ \E u \in User, pw \in Password, login \in BOOLEAN : Create(p, u, pw, login)
  \/ WritePassword(p)
  \/ EndSessions(p)
  \/ \E u \in User : DeleteBegin(p, u)
  \/ DeleteCommit(p)
  \/ Crash(p)

Next ==
  \/ \E b \in Browser :
       \/ SignInStep(b)
       \/ \E u \in User, pw \in Password \cup {None}, login \in BOOLEAN : Update(b, u, pw, login)
       \/ WriteLogin(b)
  \/ \E p \in Actor : ChangeStep(p)
  \/ \E u \in User, pw \in Password : CliSetPassword(u, pw)
  \/ \E u \in User : Activate(u)

Spec == Init /\ [][Next]_vars

---------------------------------------------------------------------------
(* Properties *)

\* There is an administrator's account.  UserDeleteCommand: "The last
\* administrator account cannot be deleted."  Nobody deletes the own account, but
\* others may delete each other, and from the command line.  The count and the
\* DELETE are separate statements, so this is promised for requests one by one.
AdministratorRemains == ~overlap => Here # {}

\* The password last given to an account is its password: signing in, which may
\* write the hash again, changes nothing about it.  UserSetPasswordCommand
\* reports "Password for '{$username}' has been updated."  The one way to lose it
\* is a sign-in that had verified another password and had yet to rehash it.
ChangeSticks == \A u \in Here : account[u].pw = meant[u] \/ (overlap /\ u \in raced)

\* A change of account u is about to end its sessions.
Ending(u) ==
  \E p \in Actor :
    /\ request[p].user = u
    /\ request[p].op = "revoke" \/ (request[p].op = "login" /\ request[p].pw # None)

\* What a sign-in to u with password pw rests on: the password the account has and
\* may use, unless it was under way when sessions were ended - between its two
\* factors, where requests do not overlap - or a change broke off before it ended
\* them, or raced with another.
RestsOn(u, pw, late) ==
  \/ account[u].login /\ account[u].pw = pw
  \/ late /\ (overlap \/ u \in Factor)
  \/ u \in broken
  \/ overlap /\ u \in raced
  \/ Ending(u)

\* docs/SECURITY_BASELINE.md: a new password ends the sessions there are, and so
\* does switching off password login.  No session rests on anything else.
OldPasswordEnds ==
  \A b \in Browser :
    SignedIn(b) /\ session[b].pw # None =>
      RestsOn(session[b].user, session[b].pw, session[b].late)
=============================================================================
