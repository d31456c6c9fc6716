----------------------------- MODULE RateLimit -----------------------------
(* The two brute-force limiters and the requests that consult them.         *)
(*                                                                          *)
(* RateLimitService keeps one row of rate_limit_buckets per address and     *)
(* endpoint, read and written by two statements; InstallRateLimitService    *)
(* keeps one file per address, read and written under one flock.  Both      *)
(* count by the same rule.  This module follows one address at one endpoint:*)
(* a handler asks isBlocked, verifies the credential, and only then records *)
(* the outcome, and other requests run between any two of these steps.  A   *)
(* blocked request is answered at once and records nothing.                 *)
EXTENDS FailureWindow, FiniteSets

CONSTANTS Requests,    \* PHP requests that can be in flight from the address
          MaxTime,     \* bound: the clock stops here
          MaxFailures  \* bound: failures since a success, and the count of a row

ASSUME LimiterAssumption ==
  /\ MaxAttempts \in Nat \ {0}
  /\ BlockSeconds \in Nat \ {0}
  /\ MaxTime \in Nat
  /\ MaxFailures \in Nat
  /\ IsFiniteSet(Requests)

VARIABLES store,    \* "db" or "file": which limiter serves the endpoint
          mixed,    \* whether requests from the address may interleave
          clock,    \* Psr\Clock, in the whole seconds both stores keep
          bucket,   \* the row, or the content of the file; NoBucket if none
          attempt,  \* per request: how far its handler has come
          failures, \* history: instants of the failures since a success
          outdated, \* history: requests that read their row before a success
          revived   \* history: the row counts failures from before a success

limiterVars == <<store, mixed, clock, bucket, attempt, failures, outdated, revived>>
histories == <<failures, outdated, revived>>

Never == -1          \* blocked_until NULL
NoBucket == [attempts |-> 0, blockedUntil |-> Never, lastAt |-> Never]

NoAttempt == [at |-> "idle"]
Verifying == [at |-> "verifying"]

(* ------------------------------------------------------------------------ *)
(* The counting rule of both recordFailure methods                          *)
(* ------------------------------------------------------------------------ *)
BlockExpired(b, t) == b.blockedUntil # Never /\ b.blockedUntil <= t
WindowExpired(b, t) == b.lastAt # Never /\ b.lastAt <= t - BlockSeconds

(* Mutant of Attempts: the window is not looked at.                         *)
AttemptsForEver(b, t) == IF BlockExpired(b, t) THEN 1 ELSE b.attempts + 1

Attempts(b, t) ==
  IF BlockExpired(b, t) \/ WindowExpired(b, t) THEN 1 ELSE b.attempts + 1

(* Mutant of Counted: = for >=, so that a failure past the limit unblocks.  *)
CountedToLimit(b, t) ==
  [attempts |-> Attempts(b, t),
   blockedUntil |-> IF Attempts(b, t) = MaxAttempts
                    THEN t + BlockSeconds ELSE Never,
   lastAt |-> t]

Counted(b, t) ==
  [attempts |-> Attempts(b, t),
   blockedUntil |-> IF Attempts(b, t) >= MaxAttempts
                    THEN t + BlockSeconds ELSE Never,
   lastAt |-> t]

(* Mutant of FirstFailure: last_at is not set.                              *)
FirstFailureUndated(t) == [attempts |-> 1, blockedUntil |-> Never]

(* The row INSERTed for the first failure: the limit is not consulted.      *)
FirstFailure(t) == [attempts |-> 1, blockedUntil |-> Never, lastAt |-> t]

IsBlocked(b, t) == b.blockedUntil # Never /\ b.blockedUntil > t

(* ------------------------------------------------------------------------ *)
(* A request                                                                *)
(* ------------------------------------------------------------------------ *)
LimiterInit ==
  /\ store \in {"db", "file"}
  /\ mixed \in BOOLEAN
  /\ clock = 0
  /\ bucket = NoBucket
  /\ attempt = [r \in Requests |-> NoAttempt]
  /\ failures = <<>>
  /\ outdated = {}
  /\ revived = FALSE

Moves(r, next) == attempt' = [attempt EXCEPT ![r] = next]

Admit(r) ==
  /\ attempt[r] = NoAttempt
  /\ mixed \/ \A q \in Requests : attempt[q] = NoAttempt
  /\ ~IsBlocked(bucket, clock)
  /\ Moves(r, Verifying)
  /\ UNCHANGED <<store, mixed, clock, bucket, histories>>

(* The request ends before the credential is judged (no CSRF token).        *)
GiveUp(r) ==
  /\ attempt[r] = Verifying
  /\ Moves(r, NoAttempt)
  /\ UNCHANGED <<store, mixed, clock, bucket, histories>>

(* Mutant of Cleared: recordSuccess forgets to delete.                      *)
NotCleared == bucket

(* What recordSuccess leaves of the row or the file.                        *)
Cleared == NoBucket

(* recordSuccess: DELETE the row, or unlink the file.  A handle opened on   *)
(* the file before it was unlinked now writes to no file at all.            *)
Succeed(r) ==
  /\ attempt[r] = Verifying
  /\ bucket' = Cleared
  /\ attempt' = [q \in Requests |->
                   IF q = r THEN NoAttempt
                   ELSE IF attempt[q].at = "opened"
                        THEN [attempt[q] EXCEPT !.linked = FALSE]
                        ELSE attempt[q]]
  /\ failures' = <<>>
  /\ outdated' = {q \in Requests : attempt[q].at = "fetched" /\ attempt[q].row # NoBucket}
  /\ revived' = FALSE
  /\ UNCHANGED <<store, mixed, clock>>

(* The bound on failures: on those since a success, and, since an UPDATE    *)
(* may carry an older count past a success, on the count read as well.      *)
MayFail(read) == Len(failures) < MaxFailures /\ read.attempts < MaxFailures

(* recordFailure of the database limiter, first half: the instant is taken  *)
(* and the row read.                                                        *)
FetchFailed(r) ==
  /\ store = "db"
  /\ attempt[r] = Verifying
  /\ Moves(r, [at |-> "fetched", now |-> clock, row |-> bucket])
  /\ outdated' = IF revived THEN outdated \cup {r} ELSE outdated
  /\ UNCHANGED <<store, mixed, clock, bucket, failures, revived>>

(* The second half.  An INSERT that finds a row by now breaks the unique    *)
(* index, and the request ends in an error; an UPDATE that finds no row by  *)
(* now changes none.                                                        *)
TakesEffect(row) == row = NoBucket <=> bucket = NoBucket

Written(row, now) == IF row = NoBucket THEN FirstFailure(now) ELSE Counted(row, now)

WriteFailed(r) ==
  /\ attempt[r].at = "fetched"
  /\ MayFail(attempt[r].row)
  /\ failures' = Append(failures, attempt[r].now)
  /\ IF TakesEffect(attempt[r].row)
     THEN /\ bucket' = Written(attempt[r].row, attempt[r].now)
          /\ revived' = (r \in outdated)
     ELSE UNCHANGED <<bucket, revived>>
  /\ outdated' = outdated \ {r}
  /\ Moves(r, NoAttempt)
  /\ UNCHANGED <<store, mixed, clock>>

(* recordFailure of the file limiter: fopen, then read, count and write     *)
(* under LOCK_EX.                                                           *)
OpenFailed(r) ==
  /\ store = "file"
  /\ attempt[r] = Verifying
  /\ Moves(r, [at |-> "opened", linked |-> TRUE])
  /\ UNCHANGED <<store, mixed, clock, bucket, histories>>

MutateFailed(r) ==
  /\ attempt[r].at = "opened"
  /\ MayFail(bucket)
  /\ IF attempt[r].linked
     THEN /\ bucket' = Counted(bucket, clock)
          /\ failures' = Append(failures, clock)
     ELSE UNCHANGED <<bucket, failures>>
  /\ Moves(r, NoAttempt)
  /\ UNCHANGED <<store, mixed, clock, outdated, revived>>

Tick ==
  /\ clock < MaxTime
  /\ clock' = clock + 1
  /\ UNCHANGED <<store, mixed, bucket, attempt, histories>>

LimiterNext ==
  \/ \E r \in Requests :
       \/ Admit(r) \/ GiveUp(r) \/ Succeed(r)
       \/ FetchFailed(r) \/ WriteFailed(r)
       \/ OpenFailed(r) \/ MutateFailed(r)
  \/ Tick

LimiterSpec == LimiterInit /\ [][LimiterNext]_limiterVars

(* ------------------------------------------------------------------------ *)
(* Properties                                                               *)
(* ------------------------------------------------------------------------ *)
Instant == Nat \cup {Never}
Bucket == [attempts : Nat, blockedUntil : Instant, lastAt : Instant]

LimiterTypeOK ==
  /\ store \in {"db", "file"}
  /\ mixed \in BOOLEAN
  /\ clock \in Nat
  /\ bucket \in Bucket
  /\ attempt \in [Requests ->
       {NoAttempt, Verifying}
         \cup [at : {"fetched"}, now : Nat, row : Bucket]
         \cup [at : {"opened"}, linked : BOOLEAN]]
  /\ failures \in Seq(Nat)
  /\ outdated \subseteq Requests
  /\ revived \in BOOLEAN

(* Where a failure is counted without interference: the file limiter always,*)
(* the database limiter when no two requests of the address overlap.        *)
Isolated == store = "file" \/ ~mixed

(* The three numbers of a bucket answer isBlocked exactly as the list of    *)
(* failures would: at every instant the address is blocked when, and only   *)
(* when, MaxAttempts failures came in a streak and the last of them is less *)
(* than BlockSeconds old.  For the file limiter this holds through every    *)
(* interleaving, unlink under an open handle included.                      *)
BlockedExactly ==
  Isolated => (IsBlocked(bucket, clock) <=> MustBlock(failures, clock))

(* isBlocked is asked before the credential is verified and the failure     *)
(* recorded after it, so requests already under way go past a new block.    *)
(* They are at most the others in flight: no streak is longer than the limit*)
(* plus those, and when requests do not overlap, none is longer than the    *)
(* limit.                                                                   *)
OverrunBounded ==
  Isolated =>
    bucket.attempts <= MaxAttempts + (IF mixed THEN Cardinality(Requests) - 1 ELSE 0)

(* However reads and writes interleave, and whatever they lose, an address  *)
(* is blocked only on MaxAttempts failures since the last success, each     *)
(* read by the next and less than BlockSeconds before it, the last of them  *)
(* less than BlockSeconds old - unless a success came between the two       *)
(* statements of a failure: RateLimitService.php:15, "A successful login/   *)
(* verification clears the counter", is then undone by the UPDATE.          *)
NeverEarly ==
  IsBlocked(bucket, clock) /\ ~revived => MayBlock(failures, clock)
=============================================================================
