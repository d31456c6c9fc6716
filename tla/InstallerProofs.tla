---------------------------- MODULE InstallerProofs ----------------------------
(***************************************************************************)
(* Proofs about Installer, for every number of requests, databases and     *)
(* submissions.                                                            *)
(***************************************************************************)
EXTENDS Installer, TLAPS

---------------------------------------------------------------------------
(* The inductive invariant *)

(* The places of a handler between acquireRunLock and its finally block.   *)
Filling == {"schema", "tables", "admin", "ticket", "operator", "config"}
Working == Filling \cup {"locked", "writing", "lock", "answer"}

AtWork(r) == request[r].at \in Working

(* Only the holder of the run lock is at work.                             *)
LockHeld == \A r \in Requests : AtWork(r) => runLock = r

RowsOf(a, t, o) == [schema |-> "all", admin |-> a, ticket |-> t, operator |-> o]
TicketOf(r) == IF Form(r).auth = "passkey" THEN Run(r) ELSE Nobody

(* How far a request at work has filled its database.                      *)
RowsSoFar(r) ==
  /\ IsAt(r, "tables") => Rows(r) = [EmptyDatabase EXCEPT !.schema = "some"]
  /\ IsAt(r, "admin") => Rows(r) = RowsOf(Nobody, Nobody, Nobody)
  /\ IsAt(r, "ticket") => /\ Form(r).auth = "passkey"
                          /\ Rows(r) = RowsOf(Run(r), Nobody, Nobody)
  /\ IsAt(r, "operator") => Rows(r) = RowsOf(Run(r), TicketOf(r), Nobody)
  /\ request[r].at \in {"config", "writing", "lock", "answer"}
       => Rows(r) = RowsOf(Run(r), TicketOf(r), Run(r))

(* What is in config.toml meanwhile.                                       *)
ConfigSoFar(r) ==
  /\ request[r].at \in Filling => config = NoConfig
  /\ IsAt(r, "writing") => config = [ConfigOf(Run(r), Form(r)) EXCEPT !.whole = FALSE]
  /\ request[r].at \in {"lock", "answer"} => config = ConfigOf(Run(r), Form(r))
  /\ IsAt(r, "answer") => locked

Progress == \A r \in Requests : RowsSoFar(r) /\ ConfigSoFar(r)

(* Rows are inserted only under a complete schema.                         *)
SchemaFirst ==
  \A d \in Databases :
    database[d].schema # "all" =>
      database[d] = [EmptyDatabase EXCEPT !.schema = database[d].schema]

(* The part that speaks of what is kept, whoever is at work.               *)
Kept == SchemaFirst /\ NeverMixed /\ ConfigAfterRows /\ LockedComplete /\ ShownTicketWorks

IInv == TypeOK /\ LockHeld /\ Progress /\ Kept

---------------------------------------------------------------------------
(* How requests move *)

\* A request that goes on keeps its form and its run, and no other request
\* moves with it.
LEMMA GoesOn ==
  ASSUME TypeOK, NEW r \in Requests, request[r] # Outside,
         NEW p \in Places, Goes(r, p)
  PROVE  /\ request' \in [Requests ->
              {Outside} \cup [at : Places, form : Forms, run : Runs]]
         /\ IsAt(r, p)' /\ Form(r)' = Form(r) /\ Run(r)' = Run(r)
         /\ \A s \in Requests : s # r => request'[s] = request[s]
  <1>1. request[r] \in [at : Places, form : Forms, run : Runs]
    BY DEF TypeOK
  <1>2. request'[r] = [request[r] EXCEPT !.at = p]
    BY DEF TypeOK, Goes
  <1>3. request'[r] \in [at : Places, form : Forms, run : Runs]
    BY <1>1, <1>2
  <1>q. QED BY <1>1, <1>2, <1>3 DEF TypeOK, Goes, IsAt, Form, Run

\* A request that leaves is at no place any more.
LEMMA LeavesAlone ==
  ASSUME TypeOK, NEW r \in Requests, Leaves(r)
  PROVE  /\ request' \in [Requests ->
              {Outside} \cup [at : Places, form : Forms, run : Runs]]
         /\ request'[r] = Outside
         /\ \A s \in Requests : s # r => request'[s] = request[s]
  BY DEF TypeOK, Leaves

\* The run lock excludes: nobody else works beside its holder, and nobody at
\* all when it is free.
LEMMA Alone ==
  ASSUME LockHeld, NEW s \in Requests, runLock # s
  PROVE  ~AtWork(s)
  BY DEF LockHeld

\* What is kept does not depend on where requests are.
LEMMA KeptAlone ==
  ASSUME Kept, UNCHANGED <<database, config, locked, shown>>
  PROVE  Kept'
  BY DEF Kept, SchemaFirst, NeverMixed, ConfigAfterRows, LockedComplete,
         ShownTicketWorks, SetUpBy, ConfigExists, Serving, IsInstalled, IsLocked

\* A request that is not at work has no progress to keep.
LEMMA IdleAfter ==
  ASSUME NEW s, ~AtWork(s)'
  PROVE  RowsSoFar(s)' /\ ConfigSoFar(s)'
  BY DEF AtWork, Working, Filling, RowsSoFar, ConfigSoFar, IsAt

\* A request beside which nothing of its own changes keeps its progress.
LEMMA Beside ==
  ASSUME NEW s, RowsSoFar(s), ConfigSoFar(s), request'[s] = request[s],
         UNCHANGED <<database, config, locked>>
  PROVE  RowsSoFar(s)' /\ ConfigSoFar(s)'
  BY DEF RowsSoFar, ConfigSoFar, IsAt, Rows, Form, Run, TicketOf

\* The holder of the run lock goes on, and nobody else is at work: what it
\* has to show for its new place is all there is to show.
LEMMA HolderGoesOn ==
  ASSUME TypeOK, LockHeld, NEW r \in Requests, AtWork(r),
         NEW p \in Working, Goes(r, p), UNCHANGED runLock,
         RowsSoFar(r)', ConfigSoFar(r)'
  PROVE  LockHeld' /\ Progress'
  <1>1. runLock = r
    BY DEF LockHeld
  <1>2. request[r] # Outside /\ p \in Places
    BY DEF AtWork, Working, Filling, Outside, Places
  <1>3. /\ request'[r].at = p
        /\ \A s \in Requests : s # r => request'[s] = request[s]
    BY <1>2, GoesOn DEF IsAt
  <1>4. ASSUME NEW s \in Requests, s # r
        PROVE  ~AtWork(s)'
    BY <1>1, <1>3, <1>4, Alone DEF AtWork
  <1>5. LockHeld'
    BY <1>1, <1>4 DEF LockHeld
  <1>6. Progress'
    BY <1>4, IdleAfter DEF Progress
  <1>q. QED BY <1>5, <1>6

\* A request that leaves, whatever it had reached, holds no lock and shows no
\* progress; the others are where they were.
LEMMA LeavesInOrder ==
  ASSUME TypeOK, LockHeld, Progress, NEW r \in Requests, Leaves(r), Releases(r),
         UNCHANGED <<database, config, locked>>
  PROVE  LockHeld' /\ Progress' /\ runLock' \in Requests \cup {NoRequest}
  <1>1. /\ request'[r] = Outside
        /\ \A s \in Requests : s # r => request'[s] = request[s]
    BY LeavesAlone
  <1>2. ~AtWork(r)'
    BY <1>1 DEF AtWork, Working, Filling, Outside
  <1>3. LockHeld'
    BY <1>1, <1>2 DEF LockHeld, AtWork, Releases
  <1>4. Progress'
    BY <1>1, <1>2, IdleAfter, Beside DEF Progress
  <1>q. QED BY <1>3, <1>4 DEF Releases, TypeOK

\* As long as there is no config.toml, the rows of one database may become
\* any that one run leaves behind.
LEMMA KeptWhileFilling ==
  ASSUME TypeOK, Kept, config = NoConfig, UNCHANGED <<config, locked, shown>>,
         NEW r \in Requests, Form(r).db \in Databases,
         NEW row, Sets(r, row),
         row.schema # "all" => row = [EmptyDatabase EXCEPT !.schema = row.schema],
         row.ticket \in {row.admin, Nobody}, row.operator \in {row.admin, Nobody},
         row.admin # Nobody => row.schema = "all"
  PROVE  Kept'
  <1>1. \A d \in Databases : database'[d] = IF d = Form(r).db THEN row ELSE database[d]
    BY DEF TypeOK, Sets
  <1>2. SchemaFirst'
    BY <1>1 DEF Kept, SchemaFirst
  <1>3. NeverMixed'
    BY <1>1 DEF Kept, NeverMixed
  <1>4. ConfigAfterRows' /\ LockedComplete' /\ ShownTicketWorks'
    BY DEF Kept, ConfigAfterRows, LockedComplete, ShownTicketWorks, ConfigExists,
           Serving, IsInstalled, IsLocked
  <1>q. QED BY <1>2, <1>3, <1>4 DEF Kept

\* One insert (or the schema before it) of the holder of the run lock.
LEMMA Fills ==
  ASSUME IInv, NEW r \in Requests, request[r].at \in Filling,
         NEW p \in Working, Goes(r, p), RowsSoFar(r)', ConfigSoFar(r)',
         NEW row \in [schema : {"none", "some", "all"},
                      admin : Author, ticket : Author, operator : Author],
         Sets(r, row),
         row.schema # "all" => row = [EmptyDatabase EXCEPT !.schema = row.schema],
         row.ticket \in {row.admin, Nobody}, row.operator \in {row.admin, Nobody},
         row.admin # Nobody => row.schema = "all",
         UNCHANGED <<installPw, runLock, config, locked, runs, shown>>
  PROVE  IInv'
  <1>1. AtWork(r) /\ request[r] # Outside /\ p \in Places
    BY DEF AtWork, Working, Filling, Outside, Places
  <1>2. LockHeld' /\ Progress'
    BY <1>1, HolderGoesOn DEF IInv
  <1>3. Form(r).db \in Databases
    BY <1>1 DEF IInv, TypeOK, Form, Forms
  <1>4. Kept'
    <2>1. config = NoConfig
      BY DEF IInv, Progress, ConfigSoFar
    <2>q. QED BY <1>3, <2>1, KeptWhileFilling DEF IInv
  <1>5. TypeOK'
    <2>1. database' \in [Databases ->
            [schema : {"none", "some", "all"},
             admin : Author, ticket : Author, operator : Author]]
      BY <1>3 DEF IInv, TypeOK, Sets
    <2>q. QED BY <1>1, <2>1, GoesOn DEF IInv, TypeOK
  <1>q. QED BY <1>2, <1>4, <1>5 DEF IInv

\* The form and the run of a request that is somewhere.
LEMMA RequestType ==
  ASSUME TypeOK, NEW r \in Requests, request[r] # Outside
  PROVE  /\ Run(r) \in Runs /\ Run(r) # Nobody /\ Run(r) \in Author
         /\ Form(r) \in Forms /\ Form(r).db \in Databases
         /\ Rows(r) \in [schema : {"none", "some", "all"},
              admin : Author, ticket : Author, operator : Author]
  <1>1. request[r] \in [at : Places, form : Forms, run : Runs]
    BY DEF TypeOK
  <1>2. Form(r) \in Forms /\ Run(r) \in Runs /\ Form(r).db \in Databases
    BY <1>1 DEF Form, Run, Forms
  <1>3. Run(r) # Nobody /\ Run(r) \in Author
    BY <1>2 DEF Runs, Author, Nobody
  <1>q. QED BY <1>2, <1>3 DEF TypeOK, Rows

---------------------------------------------------------------------------
(* The invariant is inductive *)

LEMMA Initially == Init => IInv
  <1> SUFFICES ASSUME Init PROVE IInv
    OBVIOUS
  <1>1. TypeOK
    <2>1. EmptyDatabase \in [schema : {"none", "some", "all"},
                             admin : Author, ticket : Author, operator : Author]
      BY DEF EmptyDatabase, Author
    <2>2. runs \in 0..MaxRuns
      BY InstallerAssumption DEF Init
    <2>q. QED BY <2>1, <2>2 DEF Init, TypeOK
  <1>2. \A r \in Requests : ~AtWork(r)
    BY DEF Init, AtWork, Working, Filling, Outside
  <1>3. LockHeld
    BY <1>2 DEF LockHeld
  <1>4. Progress
    BY <1>2 DEF Progress, AtWork, Working, Filling, RowsSoFar, ConfigSoFar, IsAt
  <1>5. Kept
    BY DEF Init, Kept, SchemaFirst, NeverMixed, ConfigAfterRows, LockedComplete,
           ShownTicketWorks, ConfigExists, EmptyDatabase, Nobody
  <1>q. QED BY <1>1, <1>3, <1>4, <1>5 DEF IInv

\* A request that arrives brings a new run and touches nothing else.
LEMMA EnterInductive ==
  ASSUME IInv, NEW r \in Requests, Enter(r)
  PROVE  IInv'
  <1>1. PICK form \in Forms : request' = [request EXCEPT
          ![r] = [at |-> "unlocking", form |-> form, run |-> runs + 1]]
    BY DEF Enter
  <1>2. runs + 1 \in Runs
    BY InstallerAssumption DEF Enter, IInv, TypeOK, Runs
  <1>3. /\ request'[r] = [at |-> "unlocking", form |-> form, run |-> runs + 1]
        /\ \A s \in Requests : s # r => request'[s] = request[s]
    BY <1>1 DEF IInv, TypeOK
  <1>4. TypeOK'
    <2>1. [at |-> "unlocking", form |-> form, run |-> runs + 1]
            \in [at : Places, form : Forms, run : Runs]
      BY <1>2 DEF Places
    <2>2. runs' \in 0..MaxRuns
      BY <1>2 DEF Enter, Runs
    <2>q. QED BY <1>1, <2>1, <2>2 DEF IInv, TypeOK, Enter
  <1>5. ~AtWork(r)'
    BY <1>3 DEF AtWork, Working, Filling
  <1>6. LockHeld'
    BY <1>3, <1>5 DEF IInv, LockHeld, AtWork, Enter
  <1>7. Progress'
    BY <1>3, <1>5, IdleAfter, Beside DEF IInv, Progress, Enter
  <1>8. Kept'
    BY KeptAlone DEF IInv, Enter
  <1>q. QED BY <1>4, <1>6, <1>7, <1>8 DEF IInv

\* The password is checked before the run lock is asked for.
LEMMA UnlockInductive ==
  ASSUME IInv, NEW r \in Requests, Unlock(r)
  PROVE  IInv'
  <1>1. request[r] # Outside /\ "validated" \in Places
    BY DEF Unlock, IsAt, Outside, Places
  <1>2. /\ IsAt(r, "validated")'
        /\ \A s \in Requests : s # r => request'[s] = request[s]
    BY <1>1, GoesOn DEF IInv, Unlock
  <1>3. TypeOK'
    BY <1>1, GoesOn DEF IInv, TypeOK, Unlock
  <1>4. ~AtWork(r)'
    BY <1>2 DEF AtWork, Working, Filling, IsAt
  <1>5. LockHeld'
    BY <1>2, <1>4 DEF IInv, LockHeld, AtWork, Unlock
  <1>6. Progress'
    BY <1>2, <1>4, IdleAfter, Beside DEF IInv, Progress, Unlock
  <1>7. Kept'
    BY KeptAlone DEF IInv, Unlock
  <1>q. QED BY <1>3, <1>5, <1>6, <1>7 DEF IInv

\* The run lock is free, so nobody is at work but its new holder.
LEMMA TakeRunLockInductive ==
  ASSUME IInv, NEW r \in Requests, TakeRunLock(r)
  PROVE  IInv'
  <1>1. request[r] # Outside /\ "locked" \in Places
    BY DEF TakeRunLock, IsAt, Outside, Places
  <1>2. /\ IsAt(r, "locked")'
        /\ \A s \in Requests : s # r => request'[s] = request[s]
    BY <1>1, GoesOn DEF IInv, TakeRunLock
  <1>3. TypeOK'
    BY <1>1, GoesOn DEF IInv, TypeOK, TakeRunLock
  <1>4. ASSUME NEW s \in Requests, s # r PROVE ~AtWork(s)'
    <2>1. runLock # s
      BY InstallerAssumption DEF TakeRunLock
    <2>q. QED BY <1>2, <1>4, <2>1, Alone DEF IInv, AtWork
  <1>5. LockHeld'
    BY <1>4 DEF LockHeld, TakeRunLock
  <1>6. RowsSoFar(r)' /\ ConfigSoFar(r)'
    BY <1>2 DEF RowsSoFar, ConfigSoFar, IsAt, Filling
  <1>7. Progress'
    BY <1>4, <1>6, IdleAfter DEF Progress
  <1>8. Kept'
    BY KeptAlone DEF IInv, TakeRunLock
  <1>q. QED BY <1>3, <1>5, <1>7, <1>8 DEF IInv

\* The second look finds no config.toml.
LEMMA RecheckInductive ==
  ASSUME IInv, NEW r \in Requests, Recheck(r)
  PROVE  IInv'
  <1>1. /\ AtWork(r) /\ request[r] # Outside
        /\ "schema" \in Working /\ "schema" \in Places
    BY DEF Recheck, IsAt, AtWork, Working, Filling, Outside, Places
  <1>2. IsAt(r, "schema")'
    BY <1>1, GoesOn DEF IInv, Recheck
  <1>3. RowsSoFar(r)' /\ ConfigSoFar(r)'
    BY <1>2 DEF Recheck, RowsSoFar, ConfigSoFar, IsAt, ConfigExists
  <1>4. LockHeld' /\ Progress'
    BY <1>1, <1>3, HolderGoesOn DEF IInv, Recheck
  <1>5. TypeOK'
    BY <1>1, GoesOn DEF IInv, TypeOK, Recheck
  <1>6. Kept'
    BY KeptAlone DEF IInv, Recheck
  <1>q. QED BY <1>4, <1>5, <1>6 DEF IInv

\* A request that is turned away, or that an exception or the end of its
\* process stops, leaves what is kept alone.
LEMMA GoneInductive ==
  ASSUME IInv, NEW r \in Requests, Leaves(r), Releases(r),
         UNCHANGED <<installPw, database, config, locked, runs, shown>>
  PROVE  IInv'
  <1>1. LockHeld' /\ Progress' /\ runLock' \in Requests \cup {NoRequest}
    BY LeavesInOrder DEF IInv
  <1>2. TypeOK'
    BY <1>1, LeavesAlone DEF IInv, TypeOK
  <1>3. Kept'
    BY KeptAlone DEF IInv
  <1>q. QED BY <1>1, <1>2, <1>3 DEF IInv

\* The first CREATE TABLE succeeds only in a database without the schema.
LEMMA CreateTablesInductive ==
  ASSUME IInv, NEW r \in Requests, CreateTables(r)
  PROVE  IInv'
  <1> DEFINE row == [Rows(r) EXCEPT !.schema = "some"]
  <1>1. /\ request[r].at \in Filling /\ request[r] # Outside
        /\ config = NoConfig
    BY DEF CreateTables, IsAt, Filling, Outside, IInv, Progress, ConfigSoFar
  <1>2. /\ Run(r) \in Author /\ Run(r) # Nobody /\ Form(r) \in Forms
        /\ Form(r).db \in Databases
        /\ Rows(r) \in [schema : {"none", "some", "all"},
             admin : Author, ticket : Author, operator : Author]
    BY <1>1, RequestType DEF IInv
  <1>3. Sets(r, row) /\ row = [EmptyDatabase EXCEPT !.schema = "some"]
    <2>1. Rows(r) = [EmptyDatabase EXCEPT !.schema = "none"]
      BY <1>2 DEF CreateTables, IInv, Kept, SchemaFirst, Rows
    <2>q. QED BY <2>1 DEF CreateTables, EmptyDatabase
  <1>4. PICK p \in Working \cap Places : Goes(r, p) /\ p = "tables"
    BY DEF CreateTables, Working, Filling, Places
  <1>5. IsAt(r, p)' /\ Form(r)' = Form(r) /\ Run(r)' = Run(r)
    BY <1>1, <1>4, GoesOn DEF IInv
  <1>6. Rows(r)' = row
    BY <1>2, <1>3, <1>5 DEF IInv, TypeOK, Sets, Rows
  <1>7. RowsSoFar(r)' /\ ConfigSoFar(r)'
    BY <1>1, <1>3, <1>4, <1>5, <1>6
       DEF CreateTables, RowsSoFar, ConfigSoFar, IsAt, Filling, RowsOf, TicketOf
  <1>8. Nobody \in Author
    BY DEF Author
  <1>9. /\ row \in [schema : {"none", "some", "all"},
             admin : Author, ticket : Author, operator : Author]
        /\ row.schema # "all" => row = [EmptyDatabase EXCEPT !.schema = row.schema]
        /\ row.ticket \in {row.admin, Nobody} /\ row.operator \in {row.admin, Nobody}
        /\ row.admin # Nobody => row.schema = "all"
    BY <1>2, <1>3, <1>8 DEF RowsOf, EmptyDatabase, TicketOf
  <1>10. UNCHANGED <<installPw, runLock, config, locked, runs, shown>>
    BY DEF CreateTables
  <1> HIDE DEF row
  <1>q. QED BY <1>1, <1>3, <1>4, <1>7, <1>9, <1>10, Fills

\* The remaining tables.
LEMMA FinishSchemaInductive ==
  ASSUME IInv, NEW r \in Requests, FinishSchema(r)
  PROVE  IInv'
  <1> DEFINE row == [Rows(r) EXCEPT !.schema = "all"]
  <1>1. /\ request[r].at \in Filling /\ request[r] # Outside
        /\ config = NoConfig
    BY DEF FinishSchema, IsAt, Filling, Outside, IInv, Progress, ConfigSoFar
  <1>2. /\ Run(r) \in Author /\ Run(r) # Nobody /\ Form(r) \in Forms
        /\ Form(r).db \in Databases
        /\ Rows(r) \in [schema : {"none", "some", "all"},
             admin : Author, ticket : Author, operator : Author]
    BY <1>1, RequestType DEF IInv
  <1>3. Sets(r, row) /\ row = RowsOf(Nobody, Nobody, Nobody)
    <2>1. Rows(r) = [EmptyDatabase EXCEPT !.schema = "some"]
      BY DEF FinishSchema, IsAt, IInv, Progress, RowsSoFar
    <2>2. Rows(r) = [schema |-> "some", admin |-> Nobody, ticket |-> Nobody,
                     operator |-> Nobody]
      BY <2>1 DEF EmptyDatabase
    <2>q. QED BY <2>2 DEF FinishSchema, RowsOf
  <1>4. PICK p \in Working \cap Places : Goes(r, p) /\ p = "admin"
    BY DEF FinishSchema, Working, Filling, Places
  <1>5. IsAt(r, p)' /\ Form(r)' = Form(r) /\ Run(r)' = Run(r)
    BY <1>1, <1>4, GoesOn DEF IInv
  <1>6. Rows(r)' = row
    BY <1>2, <1>3, <1>5 DEF IInv, TypeOK, Sets, Rows
  <1>7. RowsSoFar(r)' /\ ConfigSoFar(r)'
    BY <1>1, <1>3, <1>4, <1>5, <1>6
       DEF FinishSchema, RowsSoFar, ConfigSoFar, IsAt, Filling, RowsOf, TicketOf
  <1>8. Nobody \in Author
    BY DEF Author
  <1>9. /\ row \in [schema : {"none", "some", "all"},
             admin : Author, ticket : Author, operator : Author]
        /\ row.schema # "all" => row = [EmptyDatabase EXCEPT !.schema = row.schema]
        /\ row.ticket \in {row.admin, Nobody} /\ row.operator \in {row.admin, Nobody}
        /\ row.admin # Nobody => row.schema = "all"
    BY <1>2, <1>3, <1>8 DEF RowsOf, EmptyDatabase, TicketOf
  <1>10. UNCHANGED <<installPw, runLock, config, locked, runs, shown>>
    BY DEF FinishSchema
  <1> HIDE DEF row
  <1>q. QED BY <1>1, <1>3, <1>4, <1>7, <1>9, <1>10, Fills

\* The administrator, under a complete schema.
LEMMA InsertAdminInductive ==
  ASSUME IInv, NEW r \in Requests, InsertAdmin(r)
  PROVE  IInv'
  <1> DEFINE row == [Rows(r) EXCEPT !.admin = Run(r)]
  <1>1. /\ request[r].at \in Filling /\ request[r] # Outside
        /\ config = NoConfig
    BY DEF InsertAdmin, IsAt, Filling, Outside, IInv, Progress, ConfigSoFar
  <1>2. /\ Run(r) \in Author /\ Run(r) # Nobody /\ Form(r) \in Forms
        /\ Form(r).db \in Databases
        /\ Rows(r) \in [schema : {"none", "some", "all"},
             admin : Author, ticket : Author, operator : Author]
    BY <1>1, RequestType DEF IInv
  <1>3. Sets(r, row) /\ row = RowsOf(Run(r), Nobody, Nobody)
    <2>1. Rows(r) = RowsOf(Nobody, Nobody, Nobody)
      BY DEF InsertAdmin, IsAt, IInv, Progress, RowsSoFar
    <2>q. QED BY <2>1 DEF InsertAdmin, RowsOf
  <1>4. PICK p \in Working \cap Places : Goes(r, p) /\ p = (IF Form(r).auth = "passkey" THEN "ticket" ELSE "operator")
    BY DEF InsertAdmin, Working, Filling, Places
  <1>5. IsAt(r, p)' /\ Form(r)' = Form(r) /\ Run(r)' = Run(r)
    BY <1>1, <1>4, GoesOn DEF IInv
  <1>6. Rows(r)' = row
    BY <1>2, <1>3, <1>5 DEF IInv, TypeOK, Sets, Rows
  <1>7. RowsSoFar(r)' /\ ConfigSoFar(r)'
    BY <1>1, <1>3, <1>4, <1>5, <1>6
       DEF InsertAdmin, RowsSoFar, ConfigSoFar, IsAt, Filling, RowsOf, TicketOf
  <1>8. Nobody \in Author
    BY DEF Author
  <1>9. /\ row \in [schema : {"none", "some", "all"},
             admin : Author, ticket : Author, operator : Author]
        /\ row.schema # "all" => row = [EmptyDatabase EXCEPT !.schema = row.schema]
        /\ row.ticket \in {row.admin, Nobody} /\ row.operator \in {row.admin, Nobody}
        /\ row.admin # Nobody => row.schema = "all"
    BY <1>2, <1>3, <1>8 DEF RowsOf, EmptyDatabase, TicketOf
  <1>10. UNCHANGED <<installPw, runLock, config, locked, runs, shown>>
    BY DEF InsertAdmin
  <1> HIDE DEF row
  <1>q. QED BY <1>1, <1>3, <1>4, <1>7, <1>9, <1>10, Fills

\* The enrollment ticket of a passkey administrator.
LEMMA IssueTicketInductive ==
  ASSUME IInv, NEW r \in Requests, IssueTicket(r)
  PROVE  IInv'
  <1> DEFINE row == [Rows(r) EXCEPT !.ticket = Run(r)]
  <1>1. /\ request[r].at \in Filling /\ request[r] # Outside
        /\ config = NoConfig
    BY DEF IssueTicket, IsAt, Filling, Outside, IInv, Progress, ConfigSoFar
  <1>2. /\ Run(r) \in Author /\ Run(r) # Nobody /\ Form(r) \in Forms
        /\ Form(r).db \in Databases
        /\ Rows(r) \in [schema : {"none", "some", "all"},
             admin : Author, ticket : Author, operator : Author]
    BY <1>1, RequestType DEF IInv
  <1>3. Sets(r, row) /\ row = RowsOf(Run(r), TicketOf(r), Nobody)
    <2>1. Rows(r) = RowsOf(Run(r), Nobody, Nobody) /\ TicketOf(r) = Run(r)
      BY DEF IssueTicket, IsAt, IInv, Progress, RowsSoFar, TicketOf
    <2>q. QED BY <2>1 DEF IssueTicket, RowsOf
  <1>4. PICK p \in Working \cap Places : Goes(r, p) /\ p = "operator"
    BY DEF IssueTicket, Working, Filling, Places
  <1>5. IsAt(r, p)' /\ Form(r)' = Form(r) /\ Run(r)' = Run(r)
    BY <1>1, <1>4, GoesOn DEF IInv
  <1>6. Rows(r)' = row
    BY <1>2, <1>3, <1>5 DEF IInv, TypeOK, Sets, Rows
  <1>7. RowsSoFar(r)' /\ ConfigSoFar(r)'
    BY <1>1, <1>3, <1>4, <1>5, <1>6
       DEF IssueTicket, RowsSoFar, ConfigSoFar, IsAt, Filling, RowsOf, TicketOf
  <1>8. Nobody \in Author
    BY DEF Author
  <1>9. /\ row \in [schema : {"none", "some", "all"},
             admin : Author, ticket : Author, operator : Author]
        /\ row.schema # "all" => row = [EmptyDatabase EXCEPT !.schema = row.schema]
        /\ row.ticket \in {row.admin, Nobody} /\ row.operator \in {row.admin, Nobody}
        /\ row.admin # Nobody => row.schema = "all"
    BY <1>2, <1>3, <1>8 DEF RowsOf, EmptyDatabase, TicketOf
  <1>10. UNCHANGED <<installPw, runLock, config, locked, runs, shown>>
    BY DEF IssueTicket
  <1> HIDE DEF row
  <1>q. QED BY <1>1, <1>3, <1>4, <1>7, <1>9, <1>10, Fills

\* The operator's rows, the last of the setup.
LEMMA InsertOperatorInductive ==
  ASSUME IInv, NEW r \in Requests, InsertOperator(r)
  PROVE  IInv'
  <1> DEFINE row == [Rows(r) EXCEPT !.operator = Run(r)]
  <1>1. /\ request[r].at \in Filling /\ request[r] # Outside
        /\ config = NoConfig
    BY DEF InsertOperator, IsAt, Filling, Outside, IInv, Progress, ConfigSoFar
  <1>2. /\ Run(r) \in Author /\ Run(r) # Nobody /\ Form(r) \in Forms
        /\ Form(r).db \in Databases
        /\ Rows(r) \in [schema : {"none", "some", "all"},
             admin : Author, ticket : Author, operator : Author]
    BY <1>1, RequestType DEF IInv
  <1>3. Sets(r, row) /\ row = RowsOf(Run(r), TicketOf(r), Run(r))
    <2>1. Rows(r) = RowsOf(Run(r), TicketOf(r), Nobody)
      BY DEF InsertOperator, IsAt, IInv, Progress, RowsSoFar
    <2>q. QED BY <2>1 DEF InsertOperator, RowsOf
  <1>4. PICK p \in Working \cap Places : Goes(r, p) /\ p = "config"
    BY DEF InsertOperator, Working, Filling, Places
  <1>5. IsAt(r, p)' /\ Form(r)' = Form(r) /\ Run(r)' = Run(r)
    BY <1>1, <1>4, GoesOn DEF IInv
  <1>6. Rows(r)' = row
    BY <1>2, <1>3, <1>5 DEF IInv, TypeOK, Sets, Rows
  <1>7. RowsSoFar(r)' /\ ConfigSoFar(r)'
    BY <1>1, <1>3, <1>4, <1>5, <1>6
       DEF InsertOperator, RowsSoFar, ConfigSoFar, IsAt, Filling, RowsOf, TicketOf
  <1>8. Nobody \in Author
    BY DEF Author
  <1>9. /\ row \in [schema : {"none", "some", "all"},
             admin : Author, ticket : Author, operator : Author]
        /\ row.schema # "all" => row = [EmptyDatabase EXCEPT !.schema = row.schema]
        /\ row.ticket \in {row.admin, Nobody} /\ row.operator \in {row.admin, Nobody}
        /\ row.admin # Nobody => row.schema = "all"
    BY <1>2, <1>3, <1>8 DEF RowsOf, EmptyDatabase, TicketOf
  <1>10. UNCHANGED <<installPw, runLock, config, locked, runs, shown>>
    BY DEF InsertOperator
  <1> HIDE DEF row
  <1>q. QED BY <1>1, <1>3, <1>4, <1>7, <1>9, <1>10, Fills

\* config.toml appears, still empty, when every row of its run is there.
LEMMA OpenConfigInductive ==
  ASSUME IInv, NEW r \in Requests, OpenConfig(r)
  PROVE  IInv'
  <1>1. /\ AtWork(r) /\ request[r] # Outside
        /\ "writing" \in Working /\ "writing" \in Places
        /\ config = NoConfig /\ Rows(r) = RowsOf(Run(r), TicketOf(r), Run(r))
    BY DEF OpenConfig, IsAt, AtWork, Working, Filling, Outside, Places,
           IInv, Progress, RowsSoFar, ConfigSoFar
  <1>2. Run(r) \in Runs /\ Form(r).db \in Databases
    BY <1>1, RequestType DEF IInv
  <1>3. IsAt(r, "writing")' /\ Form(r)' = Form(r) /\ Run(r)' = Run(r)
    BY <1>1, GoesOn DEF IInv, OpenConfig
  <1>4. config' = [db |-> Form(r).db, run |-> Run(r), whole |-> FALSE]
    BY DEF OpenConfig, ConfigOf
  <1>5. RowsSoFar(r)' /\ ConfigSoFar(r)'
    BY <1>1, <1>3 DEF OpenConfig, RowsSoFar, ConfigSoFar, IsAt, Filling, Rows, TicketOf
  <1>6. LockHeld' /\ Progress'
    BY <1>1, <1>5, HolderGoesOn DEF IInv, OpenConfig
  <1>7. TypeOK'
    <2>1. config' \in [db : Databases, run : Runs, whole : BOOLEAN]
      BY <1>2, <1>4
    <2>2. request' \in [Requests ->
            {Outside} \cup [at : Places, form : Forms, run : Runs]]
      BY <1>1, GoesOn DEF IInv, OpenConfig
    <2>q. QED BY <2>1, <2>2 DEF IInv, TypeOK, OpenConfig
  <1>8. Kept'
    <2>1. ~locked /\ shown = {}
      BY <1>1 DEF IInv, Kept, LockedComplete, ShownTicketWorks, ConfigExists,
                  Serving, IsInstalled
    <2>2. SetUpBy(Form(r).db, Run(r))'
      BY <1>1, <1>3 DEF SetUpBy, OpenConfig, Rows, RowsOf, TicketOf
    <2>3. ConfigAfterRows'
      BY <1>3, <1>4, <2>2 DEF ConfigAfterRows, SetUpBy
    <2>4. LockedComplete' /\ ShownTicketWorks'
      BY <2>1 DEF OpenConfig, LockedComplete, ShownTicketWorks
    <2>5. SchemaFirst' /\ NeverMixed'
      BY DEF OpenConfig, IInv, Kept, SchemaFirst, NeverMixed
    <2>q. QED BY <2>3, <2>4, <2>5 DEF Kept
  <1>q. QED BY <1>6, <1>7, <1>8 DEF IInv

\* The content of config.toml, written before install.lock.
LEMMA FillConfigInductive ==
  ASSUME IInv, NEW r \in Requests, FillConfig(r)
  PROVE  IInv'
  <1>1. /\ AtWork(r) /\ request[r] # Outside
        /\ "lock" \in Working /\ "lock" \in Places
        /\ config = [db |-> Form(r).db, run |-> Run(r), whole |-> FALSE]
        /\ Rows(r) = RowsOf(Run(r), TicketOf(r), Run(r))
    BY DEF FillConfig, IsAt, AtWork, Working, Outside, Places,
           IInv, Progress, RowsSoFar, ConfigSoFar, ConfigOf
  <1>2. Run(r) \in Runs /\ Form(r).db \in Databases
    BY <1>1, RequestType DEF IInv
  <1>3. IsAt(r, "lock")' /\ Form(r)' = Form(r) /\ Run(r)' = Run(r)
    BY <1>1, GoesOn DEF IInv, FillConfig
  <1>4. config' = [db |-> Form(r).db, run |-> Run(r), whole |-> TRUE]
    BY DEF FillConfig, ConfigOf
  <1>5. RowsSoFar(r)' /\ ConfigSoFar(r)'
    BY <1>1, <1>3 DEF FillConfig, RowsSoFar, ConfigSoFar, IsAt, Filling, Rows, TicketOf, ConfigOf
  <1>6. LockHeld' /\ Progress'
    BY <1>1, <1>5, HolderGoesOn DEF IInv, FillConfig
  <1>7. TypeOK'
    <2>1. config' \in [db : Databases, run : Runs, whole : BOOLEAN]
      BY <1>2, <1>4
    <2>2. request' \in [Requests ->
            {Outside} \cup [at : Places, form : Forms, run : Runs]]
      BY <1>1, GoesOn DEF IInv, FillConfig
    <2>q. QED BY <2>1, <2>2 DEF IInv, TypeOK, FillConfig
  <1>8. Kept'
    <2>1. ~locked /\ shown = {}
      BY <1>1 DEF IInv, Kept, LockedComplete, ShownTicketWorks, Serving, IsInstalled, IsLocked
    <2>2. SetUpBy(Form(r).db, Run(r))'
      BY <1>1, <1>3 DEF SetUpBy, FillConfig, Rows, RowsOf, TicketOf
    <2>3. ConfigAfterRows'
      BY <1>3, <1>4, <2>2 DEF ConfigAfterRows, SetUpBy
    <2>4. LockedComplete' /\ ShownTicketWorks'
      BY <2>1 DEF FillConfig, LockedComplete, ShownTicketWorks
    <2>5. SchemaFirst' /\ NeverMixed'
      BY DEF FillConfig, IInv, Kept, SchemaFirst, NeverMixed
    <2>q. QED BY <2>3, <2>4, <2>5 DEF Kept
  <1>q. QED BY <1>6, <1>7, <1>8 DEF IInv

\* install.lock closes the installer over a complete configuration.
LEMMA LockInstallerInductive ==
  ASSUME IInv, NEW r \in Requests, LockInstaller(r)
  PROVE  IInv'
  <1>1. /\ AtWork(r) /\ request[r] # Outside
        /\ "answer" \in Working /\ "answer" \in Places
        /\ config = [db |-> Form(r).db, run |-> Run(r), whole |-> TRUE]
        /\ Rows(r) = RowsOf(Run(r), TicketOf(r), Run(r))
    <2>1. request[r].at = "lock"
      BY DEF LockInstaller, IsAt
    <2>2. config = ConfigOf(Run(r), Form(r)) /\ Rows(r) = RowsOf(Run(r), TicketOf(r), Run(r))
      BY <2>1 DEF IInv, Progress, RowsSoFar, ConfigSoFar
    <2>q. QED BY <2>1, <2>2 DEF AtWork, Working, Outside, Places, ConfigOf
  <1>2. IsAt(r, "answer")' /\ Form(r)' = Form(r) /\ Run(r)' = Run(r)
    BY <1>1, GoesOn DEF IInv, LockInstaller
  <1>3. RowsSoFar(r)' /\ ConfigSoFar(r)'
    BY <1>1, <1>2 DEF LockInstaller, RowsSoFar, ConfigSoFar, IsAt, Filling, Rows, TicketOf, ConfigOf
  <1>4. LockHeld' /\ Progress'
    BY <1>1, <1>3, HolderGoesOn DEF IInv, LockInstaller
  <1>5. TypeOK'
    BY <1>1, GoesOn DEF IInv, TypeOK, LockInstaller
  <1>6. Kept'
    <2>1. config # NoConfig
      <3>1. Run(r) \in Runs /\ Form(r).db \in Databases
        BY <1>1, RequestType DEF IInv
      <3>2. config \in [db : Databases, run : Runs, whole : BOOLEAN]
        BY <1>1, <3>1
      <3>q. QED BY <3>2, InstallerAssumption DEF Runs
    <2>2. LockedComplete'
      BY <1>1, <2>1 DEF LockInstaller, LockedComplete, ConfigExists
    <2>3. ShownTicketWorks'
      BY <2>1 DEF LockInstaller, IInv, Kept, ShownTicketWorks, Serving, IsInstalled,
                  IsLocked, ConfigExists
    <2>4. SchemaFirst' /\ NeverMixed' /\ ConfigAfterRows'
      BY DEF LockInstaller, IInv, Kept, SchemaFirst, NeverMixed, ConfigAfterRows,
             ConfigExists, SetUpBy
    <2>q. QED BY <2>2, <2>3, <2>4 DEF Kept
  <1>q. QED BY <1>4, <1>5, <1>6 DEF IInv

\* The ticket on the done page is the one this run issued, and its
\* configuration is the one in place.
LEMMA AnswerInductive ==
  ASSUME IInv, NEW r \in Requests, Answer(r)
  PROVE  IInv'
  <1>1. /\ request[r] # Outside /\ locked
        /\ config = [db |-> Form(r).db, run |-> Run(r), whole |-> TRUE]
        /\ Rows(r) = RowsOf(Run(r), TicketOf(r), Run(r))
    <2>1. request[r].at = "answer"
      BY DEF Answer, IsAt
    <2>2. /\ config = ConfigOf(Run(r), Form(r)) /\ locked
          /\ Rows(r) = RowsOf(Run(r), TicketOf(r), Run(r))
      BY <2>1 DEF IInv, Progress, RowsSoFar, ConfigSoFar, IsAt
    <2>q. QED BY <2>1, <2>2 DEF Outside, ConfigOf
  <1>2. Run(r) \in Runs /\ Form(r).db \in Databases /\ config # NoConfig
    <2>1. Run(r) \in Runs /\ Form(r).db \in Databases
      BY <1>1, RequestType DEF IInv
    <2>2. config \in [db : Databases, run : Runs, whole : BOOLEAN]
      BY <1>1, <2>1
    <2>q. QED BY <2>1, <2>2, InstallerAssumption DEF Runs
  <1>3. LockHeld' /\ Progress' /\ runLock' \in Requests \cup {NoRequest}
    BY LeavesInOrder DEF IInv, Answer
  <1>4. TypeOK'
    BY <1>2, <1>3, LeavesAlone DEF IInv, TypeOK, Answer
  <1>5. Kept'
    <2>1. ShownTicketWorks'
      <3>1. Serving'
        BY <1>1, <1>2 DEF Answer, Serving, IsInstalled, IsLocked, ConfigExists
      <3>2. Form(r).auth = "passkey" => database[config.db].ticket = Run(r)
        BY <1>1 DEF Rows, RowsOf, TicketOf
      <3>3. ASSUME NEW run \in shown'
            PROVE  config.run = run /\ database[config.db].ticket = run
        BY <1>1, <3>2, <3>3 DEF Answer, IInv, Kept, ShownTicketWorks
      <3>q. QED BY <3>1, <3>3 DEF Answer, ShownTicketWorks
    <2>2. SchemaFirst' /\ NeverMixed' /\ ConfigAfterRows' /\ LockedComplete'
      BY DEF Answer, IInv, Kept, SchemaFirst, NeverMixed, ConfigAfterRows,
             LockedComplete, ConfigExists, SetUpBy
    <2>q. QED BY <2>1, <2>2 DEF Kept
  <1>q. QED BY <1>3, <1>4, <1>5 DEF IInv

\* The operator moves the password file and removes the configuration of an
\* installation that never was locked, when nobody is at work.
LEMMA OperatorInductive ==
  ASSUME IInv, Prepare \/ RemovePassword \/ RemoveConfig
  PROVE  IInv'
  <1>1. CASE Prepare \/ RemovePassword
    <2>1. UNCHANGED <<runLock, database, config, locked, request, runs, shown>>
          /\ installPw' \in BOOLEAN
      BY <1>1 DEF Prepare, RemovePassword
    <2>2. TypeOK' /\ LockHeld'
      BY <2>1 DEF IInv, TypeOK, LockHeld, AtWork
    <2>3. Progress'
      BY <2>1, Beside DEF IInv, Progress
    <2>4. Kept'
      BY <2>1, KeptAlone DEF IInv
    <2>q. QED BY <2>2, <2>3, <2>4 DEF IInv
  <1>2. CASE RemoveConfig
    <2>1. TypeOK' /\ LockHeld'
      BY <1>2 DEF RemoveConfig, IInv, TypeOK, LockHeld, AtWork
    <2>2. \A s \in Requests : ~AtWork(s)'
      BY <1>2, Alone, InstallerAssumption DEF RemoveConfig, IInv, AtWork
    <2>3. Progress'
      BY <2>2, IdleAfter DEF Progress
    <2>4. ~locked /\ shown = {}
      BY <1>2 DEF RemoveConfig, IInv, Kept, ShownTicketWorks, Serving, IsInstalled, IsLocked
    <2>5. Kept'
      BY <1>2, <2>4 DEF RemoveConfig, IInv, Kept, SchemaFirst, NeverMixed, ConfigAfterRows,
                        LockedComplete, ShownTicketWorks, ConfigExists
    <2>q. QED BY <2>1, <2>3, <2>5 DEF IInv
  <1>q. QED BY <1>1, <1>2

LEMMA Inductive == IInv /\ [Next]_vars => IInv'
  <1> SUFFICES ASSUME IInv, [Next]_vars PROVE IInv'
    OBVIOUS
  <1>1. ASSUME NEW r \in Requests,
               \/ Enter(r) \/ Unlock(r) \/ TakeRunLock(r) \/ Recheck(r)
        PROVE  IInv'
    BY <1>1, EnterInductive, UnlockInductive, TakeRunLockInductive, RecheckInductive
  <1>2. ASSUME NEW r \in Requests, Refused(r) \/ Abort(r)
        PROVE  IInv'
    BY <1>2, GoneInductive DEF Refused, Abort
  <1>3. ASSUME NEW r \in Requests,
               \/ CreateTables(r) \/ FinishSchema(r)
               \/ InsertAdmin(r) \/ IssueTicket(r) \/ InsertOperator(r)
        PROVE  IInv'
    BY <1>3, CreateTablesInductive, FinishSchemaInductive, InsertAdminInductive,
       IssueTicketInductive, InsertOperatorInductive
  <1>4. ASSUME NEW r \in Requests,
               OpenConfig(r) \/ FillConfig(r) \/ LockInstaller(r) \/ Answer(r)
        PROVE  IInv'
    BY <1>4, OpenConfigInductive, FillConfigInductive, LockInstallerInductive,
       AnswerInductive
  <1>5. CASE UNCHANGED vars
    <2>1. TypeOK' /\ LockHeld' /\ Kept'
      BY <1>5, KeptAlone DEF vars, IInv, TypeOK, LockHeld, AtWork
    <2>2. Progress'
      BY <1>5, Beside DEF vars, IInv, Progress
    <2>q. QED BY <2>1, <2>2 DEF IInv
  <1>q. QED BY <1>1, <1>2, <1>3, <1>4, <1>5, OperatorInductive DEF Next

---------------------------------------------------------------------------
(* What follows for every behaviour *)

\* The invariant holds in every reachable state.
THEOREM InstallerInvariance == Spec => []IInv
  <1>q. QED BY Initially, Inductive, PTL DEF Spec

\* The installer's state stays within its types.
THEOREM InstallerTypeCorrect == Spec => []TypeOK
  <1>1. IInv => TypeOK
    BY DEF IInv
  <1>q. QED BY <1>1, InstallerInvariance, PTL

\* Whatever request dies where, and whichever run beside it: a configuration
\* names a database its own run filled completely.
THEOREM WholeInstallation == Spec => []ConfigAfterRows
  <1>1. IInv => ConfigAfterRows
    BY DEF IInv, Kept
  <1>q. QED BY <1>1, InstallerInvariance, PTL

\* install.lock is set over a complete configuration only.
THEOREM LockedOverWhole == Spec => []LockedComplete
  <1>1. IInv => LockedComplete
    BY DEF IInv, Kept
  <1>q. QED BY <1>1, InstallerInvariance, PTL

\* The rows of a database come from one run.
THEOREM RowsOfOneRun == Spec => []NeverMixed
  <1>1. IInv => NeverMixed
    BY DEF IInv, Kept
  <1>q. QED BY <1>1, InstallerInvariance, PTL

\* A ticket the installer displayed opens the administrator account of the
\* installation that serves.
THEOREM TicketOfTheServing == Spec => []ShownTicketWorks
  <1>1. IInv => ShownTicketWorks
    BY DEF IInv, Kept
  <1>q. QED BY <1>1, InstallerInvariance, PTL

\* No submission of the form replaces the configuration of another, and
\* nothing replaces one that serves.
THEOREM ConfigurationKept == Spec => ConfigKept
  <1>1. IInv /\ [Next]_vars =>
          [ConfigExists =>
             \/ config' = config
             \/ ~locked /\ config' = NoConfig
             \/ ~locked /\ config' = Completed(config)]_vars
    <2> SUFFICES ASSUME IInv, Next, ConfigExists, config' # config
                 PROVE  \/ ~locked /\ config' = NoConfig
                        \/ ~locked /\ config' = Completed(config)
      BY DEF vars
    <2>1. ASSUME NEW r \in Requests, OpenConfig(r) PROVE FALSE
      BY <2>1 DEF OpenConfig, IsAt, Filling, IInv, Progress, ConfigSoFar, ConfigExists
    <2>2. ASSUME NEW r \in Requests, FillConfig(r)
          PROVE  ~locked /\ config' = Completed(config)
      <3>1. config = [db |-> Form(r).db, run |-> Run(r), whole |-> FALSE]
        BY <2>2 DEF FillConfig, IsAt, IInv, Progress, ConfigSoFar, ConfigOf
      <3>2. ~locked
        BY <3>1 DEF IInv, Kept, LockedComplete
      <3>3. config' = [db |-> Form(r).db, run |-> Run(r), whole |-> TRUE]
        BY <2>2 DEF FillConfig, ConfigOf
      <3>4. config' = Completed(config)
        BY <3>1, <3>3 DEF Completed
      <3>q. QED BY <3>2, <3>4
    <2>3. CASE RemoveConfig
      BY <2>3 DEF RemoveConfig
    <2>q. QED BY <2>1, <2>2, <2>3
       DEF Next, Enter, Unlock, TakeRunLock, Recheck, Refused, CreateTables, FinishSchema,
           InsertAdmin, IssueTicket, InsertOperator, LockInstaller, Answer, Abort,
           Prepare, RemovePassword
  <1>q. QED BY <1>1, InstallerInvariance, PTL DEF Spec, ConfigKept

=============================================================================
