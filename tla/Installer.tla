----------------------------- MODULE Installer -----------------------------
(* The web installer: InstallHandler, the three step classes behind it,     *)
(* InstallService and the files it keeps, and the database it fills.        *)
(*                                                                          *)
(* Nothing here is one transaction.  The schema is created statement by     *)
(* statement, every row is committed as it is inserted, config.toml is      *)
(* written after them and install.lock last; a request can throw or die     *)
(* between any two of these.  What keeps the result whole is their order,   *)
(* a non-blocking flock on data/install.run.lock, and a schema that refuses *)
(* to be created twice.  The failure limiter in front of the installer's    *)
(* password is in RateLimit.                                                *)
EXTENDS Naturals

CONSTANTS Requests,     \* POST /install requests in flight
          Databases,    \* databases a form may name
          EnvPassword,  \* LEXNOVA_INSTALL_PASSWORD is set on the server
          MaxRuns,      \* bound: submissions of the form in a behaviour
          NoRequest,    \* nobody holds the run lock
          NoConfig      \* config/config.toml does not exist

ASSUME InstallerAssumption ==
  /\ EnvPassword \in BOOLEAN
  /\ MaxRuns \in Nat
  /\ NoRequest \notin Requests
  /\ NoConfig \notin [db : Databases, run : 1..MaxRuns, whole : BOOLEAN]

VARIABLES installPw,  \* data/install.pw holds a hash
          runLock,    \* holder of the flock on data/install.run.lock
          database,   \* per database: its schema and the rows of the setup
          config,     \* config/config.toml
          locked,     \* data/install.lock exists
          request,    \* per request: how far its handler has come
          runs,       \* submissions so far; each is a run with this number
          shown       \* tickets the installer displayed, by run

vars == <<installPw, runLock, database, config, locked, request, runs, shown>>

Nobody == 0          \* a row that does not exist; runs are numbered from 1

EmptyDatabase ==
  [schema |-> "none", admin |-> Nobody, ticket |-> Nobody, operator |-> Nobody]

(* A form that passed validate: which database, and whether the first       *)
(* administrator starts with a password or with an enrollment ticket.       *)
Forms == [db : Databases, auth : {"passkey", "password"}]

Outside == [at |-> "outside"]

(* Mutant of ConfigOf: a file without a note of its completeness.           *)
ConfigOfUnmarked(run, form) == [db |-> form.db, run |-> run]

(* What the config file written by a run says, once all of it is written.   *)
ConfigOf(run, form) == [db |-> form.db, run |-> run, whole |-> TRUE]

IsLocked == locked
ConfigExists == config # NoConfig
IsInstalled == IsLocked /\ ConfigExists

(* InstalledCheckMiddleware: only then is anything but /install answered.   *)
Serving == IsInstalled

Init ==
  /\ installPw \in BOOLEAN
  /\ runLock = NoRequest
  /\ database = [d \in Databases |-> EmptyDatabase]
  /\ config = NoConfig
  /\ locked = FALSE
  /\ request = [r \in Requests |-> Outside]
  /\ runs = 0
  /\ shown = {}

(* ------------------------------------------------------------------------ *)
(* Moving a request along                                                   *)
(* ------------------------------------------------------------------------ *)
IsAt(r, place) == request[r].at = place
Goes(r, place) == request' = [request EXCEPT ![r].at = place]
Leaves(r) == request' = [request EXCEPT ![r] = Outside]
Form(r) == request[r].form
Run(r) == request[r].run
Rows(r) == database[Form(r).db]
Sets(r, rows) == database' = [database EXCEPT ![Form(r).db] = rows]

(* The finally block, or the kernel when the process dies.                  *)
Releases(r) == runLock' = IF runLock = r THEN NoRequest ELSE runLock

(* ------------------------------------------------------------------------ *)
(* InstallHandler and its steps                                             *)
(* ------------------------------------------------------------------------ *)
(* isLocked, then InitStep: a missing install.pw is made from the server's  *)
(* environment, or the request gets no further.                             *)
Enter(r) ==
  /\ request[r] = Outside
  /\ ~IsLocked
  /\ installPw \/ EnvPassword
  /\ runs < MaxRuns
  /\ runs' = runs + 1
  /\ installPw' = TRUE
  /\ \E form \in Forms :
       request' = [request EXCEPT
         ![r] = [at |-> "unlocking", form |-> form, run |-> runs + 1]]
  /\ UNCHANGED <<runLock, database, config, locked, shown>>

(* UnlockStep with the right password, then the checks before the run lock. *)
Unlock(r) ==
  /\ IsAt(r, "unlocking")
  /\ installPw
  /\ ~ConfigExists
  /\ Goes(r, "validated")
  /\ UNCHANGED <<installPw, runLock, database, config, locked, runs, shown>>

(* Mutant of TakeRunLock: goes on although the lock is held.                *)
TakeRunLockAnyway(r) ==
  /\ IsAt(r, "validated")
  /\ runLock' = r
  /\ Goes(r, "locked")
  /\ UNCHANGED <<installPw, database, config, locked, runs, shown>>

(* LOCK_EX | LOCK_NB                                                        *)
TakeRunLock(r) ==
  /\ IsAt(r, "validated")
  /\ runLock = NoRequest
  /\ runLock' = r
  /\ Goes(r, "locked")
  /\ UNCHANGED <<installPw, database, config, locked, runs, shown>>

(* Mutant of Recheck: trusts the look taken before the run lock.            *)
RecheckNothing(r) ==
  /\ IsAt(r, "locked")
  /\ Goes(r, "schema")
  /\ UNCHANGED <<installPw, runLock, database, config, locked, runs, shown>>

(* The second look at the config file, now under the run lock.              *)
Recheck(r) ==
  /\ IsAt(r, "locked")
  /\ ~ConfigExists
  /\ Goes(r, "schema")
  /\ UNCHANGED <<installPw, runLock, database, config, locked, runs, shown>>

(* A wrong or vanished password, a config file at either look, a run lock   *)
(* that is held: the answer is an error and nothing has changed.            *)
Refused(r) ==
  /\ \/ IsAt(r, "unlocking")
     \/ IsAt(r, "validated") /\ runLock # NoRequest
     \/ IsAt(r, "locked") /\ ConfigExists
  /\ Leaves(r)
  /\ Releases(r)
  /\ UNCHANGED <<installPw, database, config, locked, runs, shown>>

(* Mutant of CreateTables: CREATE TABLE IF NOT EXISTS.                      *)
CreateTablesIfMissing(r) ==
  /\ IsAt(r, "schema")
  /\ Sets(r, [Rows(r) EXCEPT !.schema = IF @ = "none" THEN "some" ELSE @])
  /\ Goes(r, "tables")
  /\ UNCHANGED <<installPw, runLock, config, locked, runs, shown>>

(* runSchema: plain CREATE TABLE statements, each its own transaction; the  *)
(* first one throws when the tables are there.                              *)
CreateTables(r) ==
  /\ IsAt(r, "schema")
  /\ Rows(r).schema = "none"
  /\ Sets(r, [Rows(r) EXCEPT !.schema = "some"])
  /\ Goes(r, "tables")
  /\ UNCHANGED <<installPw, runLock, config, locked, runs, shown>>

FinishSchema(r) ==
  /\ IsAt(r, "tables")
  /\ Sets(r, [Rows(r) EXCEPT !.schema = "all"])
  /\ Goes(r, "admin")
  /\ UNCHANGED <<installPw, runLock, config, locked, runs, shown>>

(* Mutant of InsertAdmin: a password administrator gets no operator rows.   *)
InsertAdminOnly(r) ==
  /\ IsAt(r, "admin")
  /\ Sets(r, [Rows(r) EXCEPT !.admin = Run(r)])
  /\ Goes(r, IF Form(r).auth = "passkey" THEN "ticket" ELSE "config")
  /\ UNCHANGED <<installPw, runLock, config, locked, runs, shown>>

InsertAdmin(r) ==
  /\ IsAt(r, "admin")
  /\ Sets(r, [Rows(r) EXCEPT !.admin = Run(r)])
  /\ Goes(r, IF Form(r).auth = "passkey" THEN "ticket" ELSE "operator")
  /\ UNCHANGED <<installPw, runLock, config, locked, runs, shown>>

IssueTicket(r) ==
  /\ IsAt(r, "ticket")
  /\ Sets(r, [Rows(r) EXCEPT !.ticket = Run(r)])
  /\ Goes(r, "operator")
  /\ UNCHANGED <<installPw, runLock, config, locked, runs, shown>>

(* The relying-party settings and the operator's legal entity.              *)
InsertOperator(r) ==
  /\ IsAt(r, "operator")
  /\ Sets(r, [Rows(r) EXCEPT !.operator = Run(r)])
  /\ Goes(r, "config")
  /\ UNCHANGED <<installPw, runLock, config, locked, runs, shown>>

(* Mutant of OpenConfig: the installer is locked before the file is full.   *)
OpenConfigLocked(r) ==
  /\ IsAt(r, "config")
  /\ config' = [ConfigOf(Run(r), Form(r)) EXCEPT !.whole = FALSE]
  /\ locked' = TRUE
  /\ Goes(r, "writing")
  /\ UNCHANGED <<installPw, runLock, database, runs, shown>>

(* writeConfig: the file is there, empty, before its content is.            *)
OpenConfig(r) ==
  /\ IsAt(r, "config")
  /\ config' = [ConfigOf(Run(r), Form(r)) EXCEPT !.whole = FALSE]
  /\ Goes(r, "writing")
  /\ UNCHANGED <<installPw, runLock, database, locked, runs, shown>>

FillConfig(r) ==
  /\ IsAt(r, "writing")
  /\ config' = ConfigOf(Run(r), Form(r))
  /\ Goes(r, "lock")
  /\ UNCHANGED <<installPw, runLock, database, locked, runs, shown>>

LockInstaller(r) ==
  /\ IsAt(r, "lock")
  /\ locked' = TRUE
  /\ Goes(r, "answer")
  /\ UNCHANGED <<installPw, runLock, database, config, runs, shown>>

(* The done page, with the ticket of a passkey administrator on it.         *)
Answer(r) ==
  /\ IsAt(r, "answer")
  /\ shown' = shown \cup (IF Form(r).auth = "passkey" THEN {Run(r)} ELSE {})
  /\ Leaves(r)
  /\ Releases(r)
  /\ UNCHANGED <<installPw, database, config, locked, runs>>

(* An exception out of any step, caught or not, or the end of the process:  *)
(* the run lock is released and everything written so far stays.            *)
Abort(r) ==
  /\ request[r] # Outside
  /\ Leaves(r)
  /\ Releases(r)
  /\ UNCHANGED <<installPw, database, config, locked, runs, shown>>

(* ------------------------------------------------------------------------ *)
(* The operator of the server                                               *)
(* ------------------------------------------------------------------------ *)
(* bin/lexnova install:prepare                                              *)
Prepare ==
  /\ ~IsInstalled
  /\ ~installPw
  /\ installPw' = TRUE
  /\ UNCHANGED <<runLock, database, config, locked, request, runs, shown>>

(* "Remove data/install.pw after verifying access."                         *)
RemovePassword ==
  /\ locked
  /\ installPw
  /\ installPw' = FALSE
  /\ UNCHANGED <<runLock, database, config, locked, request, runs, shown>>

(* "Remove config/config.toml to reinstall."  Read on a page of an installer*)
(* that is not locked, and done when no run is under way.                   *)
RemoveConfig ==
  /\ ConfigExists
  /\ ~locked
  /\ runLock = NoRequest
  /\ config' = NoConfig
  /\ UNCHANGED <<installPw, runLock, database, locked, request, runs, shown>>

Next ==
  \/ \E r \in Requests :
       \/ Enter(r) \/ Unlock(r) \/ TakeRunLock(r) \/ Recheck(r) \/ Refused(r)
       \/ CreateTables(r) \/ FinishSchema(r)
       \/ InsertAdmin(r) \/ IssueTicket(r) \/ InsertOperator(r)
       \/ OpenConfig(r) \/ FillConfig(r) \/ LockInstaller(r)
       \/ Answer(r) \/ Abort(r)
  \/ Prepare \/ RemovePassword \/ RemoveConfig

Spec == Init /\ [][Next]_vars

(* ------------------------------------------------------------------------ *)
(* Properties                                                               *)
(* ------------------------------------------------------------------------ *)
Runs == 1..MaxRuns
Author == Runs \cup {Nobody}
Places == {"unlocking", "validated", "locked", "schema", "tables", "admin",
           "ticket", "operator", "config", "writing", "lock", "answer"}

TypeOK ==
  /\ installPw \in BOOLEAN
  /\ runLock \in Requests \cup {NoRequest}
  /\ database \in [Databases ->
       [schema : {"none", "some", "all"},
        admin : Author, ticket : Author, operator : Author]]
  /\ config \in {NoConfig} \cup [db : Databases, run : Runs, whole : BOOLEAN]
  /\ locked \in BOOLEAN
  /\ request \in [Requests ->
       {Outside} \cup [at : Places, form : Forms, run : Runs]]
  /\ runs \in 0..MaxRuns
  /\ shown \subseteq Runs

(* Every row of the setup is in database d, written by that run.            *)
SetUpBy(d, run) ==
  /\ database[d].schema = "all"
  /\ database[d].admin = run
  /\ database[d].ticket \in {run, Nobody}
  /\ database[d].operator = run

(* A config file, torn or whole, names a database the same run filled       *)
(* completely before: whatever request died and whichever requests ran      *)
(* beside it, no configuration points at a half-made database or at another *)
(* run's administrator.                                                     *)
ConfigAfterRows == ConfigExists => SetUpBy(config.db, config.run)

(* install.lock, which closes the installer for good, is set only over a    *)
(* configuration that is completely written: no crash leaves an installer   *)
(* that is closed and an application that cannot be configured.             *)
LockedComplete == locked => ConfigExists /\ config.whole

(* The rows of the setup in one database come from one run, also when a run *)
(* that died is followed by others: an abandoned database is not completed  *)
(* by somebody else's administrator or ticket.                              *)
NeverMixed ==
  \A d \in Databases :
    LET row == database[d]
    IN  /\ row.admin # Nobody => row.schema = "all"
        /\ row.ticket \in {row.admin, Nobody}
        /\ row.operator \in {row.admin, Nobody}

(* A ticket the installer displayed belongs to the administrator of the     *)
(* installation that is now serving: nobody is sent to /activate with the   *)
(* ticket of a run that lost to another.                                    *)
ShownTicketWorks ==
  \A run \in shown :
    /\ Serving
    /\ config.run = run
    /\ database[config.db].ticket = run

Completed(file) == [db |-> file.db, run |-> file.run, whole |-> TRUE]

(* No run replaces the configuration of another, and nothing replaces the   *)
(* configuration of an installation that is serving, however many           *)
(* submissions of the form overlap.                                         *)
ConfigKept ==
  [][ConfigExists =>
       \/ config' = config
       \/ ~locked /\ config' = NoConfig
       \/ ~locked /\ config' = Completed(config)]_vars
=============================================================================
