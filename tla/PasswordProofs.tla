--------------------------- MODULE PasswordProofs ---------------------------
(***************************************************************************)
(* Proofs about what stands between a password and a session: LoginHandler *)
(* asks a failure limiter whether it may look at the password (RateLimit), *)
(* and then the accounts whether it is the one (UserAdministration).       *)
(*                                                                         *)
(* The first part is for every number of requests, every limit and every   *)
(* length of the block, the second for every number of accounts, browsers, *)
(* passwords and changes.                                                  *)
(***************************************************************************)
EXTENDS RateLimit, UserAdministration, FiniteSetTheorems, TLAPS

---------------------------------------------------------------------------
(* The limiters: types *)

\* What a failure leaves in the bucket is a bucket again.
LEMMA CountedType ==
  ASSUME NEW b \in Bucket, NEW t \in Nat
  PROVE  /\ Counted(b, t) \in Bucket /\ FirstFailure(t) \in Bucket
         /\ Attempts(b, t) \in Nat /\ Attempts(b, t) > 0
         /\ Attempts(b, t) <= b.attempts + 1
  <1>1. /\ Attempts(b, t) \in Nat /\ Attempts(b, t) > 0
        /\ Attempts(b, t) <= b.attempts + 1
    BY DEF Attempts, Bucket
  <1>2. t + BlockSeconds \in Nat
    BY LimiterAssumption
  <1>q. QED BY <1>1, <1>2 DEF Counted, FirstFailure, Bucket, Instant

\* The two records a request carries while it records a failure.
LEMMA RequestType ==
  ASSUME LimiterTypeOK, NEW r \in Requests
  PROVE  /\ attempt[r].at = "fetched" =>
              attempt[r].now \in Nat /\ attempt[r].row \in Bucket
         /\ attempt[r].at = "opened" => attempt[r].linked \in BOOLEAN
  BY DEF LimiterTypeOK, NoAttempt, Verifying

LEMMA TypeInductive == LimiterTypeOK /\ [LimiterNext]_limiterVars => LimiterTypeOK'
  <1> SUFFICES ASSUME LimiterTypeOK, [LimiterNext]_limiterVars PROVE LimiterTypeOK'
    OBVIOUS
  <1>1. NoBucket \in Bucket
    BY DEF NoBucket, Bucket, Instant
  <1>2. ASSUME NEW r \in Requests, Admit(r) \/ GiveUp(r)
        PROVE  LimiterTypeOK'
    BY <1>2 DEF LimiterTypeOK, Admit, GiveUp, Moves, histories
  <1>3. ASSUME NEW r \in Requests, Succeed(r)
        PROVE  LimiterTypeOK'
    <2>1. ASSUME NEW q \in Requests, attempt[q].at = "opened"
          PROVE  [attempt[q] EXCEPT !.linked = FALSE] \in [at : {"opened"}, linked : BOOLEAN]
      <3>1. attempt[q] \in [at : {"opened"}, linked : BOOLEAN]
        BY <2>1 DEF LimiterTypeOK, NoAttempt, Verifying
      <3>q. QED BY <3>1
    <2>2. attempt' \in [Requests ->
            {NoAttempt, Verifying}
              \cup [at : {"fetched"}, now : Nat, row : Bucket]
              \cup [at : {"opened"}, linked : BOOLEAN]]
      BY <1>3, <2>1 DEF Succeed, LimiterTypeOK
    <2>3. failures' \in Seq(Nat) /\ outdated' \subseteq Requests
      BY <1>3 DEF Succeed
    <2>4. revived' \in BOOLEAN
      BY <1>3, Zenon DEF Succeed
    <2>q. QED BY <1>1, <1>3, <2>2, <2>3, <2>4 DEF Succeed, Cleared, LimiterTypeOK
  <1>4. ASSUME NEW r \in Requests, FetchFailed(r) \/ OpenFailed(r)
        PROVE  LimiterTypeOK'
    <2>1. CASE FetchFailed(r)
      <3>1. [at |-> "fetched", now |-> clock, row |-> bucket]
              \in [at : {"fetched"}, now : Nat, row : Bucket]
        BY DEF LimiterTypeOK
      <3>q. QED BY <2>1, <3>1 DEF LimiterTypeOK, FetchFailed, Moves
    <2>2. CASE OpenFailed(r)
      BY <2>2 DEF LimiterTypeOK, OpenFailed, Moves, histories
    <2>q. QED BY <1>4, <2>1, <2>2
  <1>5. ASSUME NEW r \in Requests, WriteFailed(r)
        PROVE  LimiterTypeOK'
    <2>1. attempt[r].now \in Nat /\ attempt[r].row \in Bucket
      BY <1>5, RequestType DEF WriteFailed
    <2>2. Written(attempt[r].row, attempt[r].now) \in Bucket
      BY <2>1, CountedType DEF Written
    <2>3. bucket' \in Bucket /\ outdated' \subseteq Requests
      BY <1>5, <2>2 DEF WriteFailed, LimiterTypeOK
    <2>4. failures' \in Seq(Nat)
      BY <1>5, <2>1 DEF WriteFailed, LimiterTypeOK
    <2>5. revived' \in BOOLEAN
      <3>1. CASE TakesEffect(attempt[r].row)
        <4>1. revived' = (r \in outdated)
          BY <1>5, <3>1 DEF WriteFailed
        <4>2. \A S : (r \in S) = TRUE \/ (r \in S) = FALSE
          BY SMT
        <4>3. revived' = TRUE \/ revived' = FALSE
          BY <4>1, <4>2, Zenon
        <4>q. QED BY <4>3, Zenon
      <3>2. CASE ~TakesEffect(attempt[r].row)
        <4>1. revived' = revived
          BY <1>5, <3>2 DEF WriteFailed
        <4>q. QED BY <4>1, Zenon DEF LimiterTypeOK
      <3>q. QED BY <3>1, <3>2
    <2>q. QED BY <1>5, <2>3, <2>4, <2>5 DEF WriteFailed, LimiterTypeOK, Moves
  <1>6. ASSUME NEW r \in Requests, MutateFailed(r)
        PROVE  LimiterTypeOK'
    <2>1. bucket' \in Bucket /\ failures' \in Seq(Nat)
      <3>1. CASE bucket' = Counted(bucket, clock) /\ failures' = Append(failures, clock)
        BY <3>1, CountedType DEF LimiterTypeOK
      <3>2. CASE UNCHANGED <<bucket, failures>>
        BY <3>2 DEF LimiterTypeOK
      <3>q. QED BY <1>6, <3>1, <3>2 DEF MutateFailed
    <2>q. QED BY <1>6, <2>1 DEF MutateFailed, LimiterTypeOK, Moves
  <1>7. CASE Tick
    BY <1>7 DEF Tick, LimiterTypeOK, histories
  <1>8. CASE UNCHANGED limiterVars
    BY <1>8 DEF limiterVars, LimiterTypeOK, histories
  <1>q. QED BY <1>2, <1>3, <1>4, <1>5, <1>6, <1>7, <1>8 DEF LimiterNext

LEMMA TypeInitially == LimiterInit => LimiterTypeOK
  <1> SUFFICES ASSUME LimiterInit PROVE LimiterTypeOK
    OBVIOUS
  <1>1. NoBucket \in Bucket /\ 0 \in Nat
    BY DEF NoBucket, Bucket, Instant
  <1>2. failures \in Seq(Nat) /\ outdated \subseteq Requests
    BY DEF LimiterInit
  <1>3. revived \in BOOLEAN
    BY Zenon DEF LimiterInit
  <1>q. QED BY <1>1, <1>2, <1>3 DEF LimiterInit, LimiterTypeOK

\* The limiter's state stays within its types.
THEOREM LimiterTypeCorrect == LimiterSpec => []LimiterTypeOK
  <1>q. QED BY TypeInitially, TypeInductive, PTL DEF LimiterSpec

---------------------------------------------------------------------------
(* A block is never early *)

(* What a bucket counts really failed, each failure read by the next one in *)
(* time; only a count at the limit blocks.                                  *)
Founded(b, f) ==
  /\ b.attempts > 0 =>
       \E i \in [1..b.attempts -> 1..Len(f)] :
         Chain(f, i, b.attempts) /\ f[i[b.attempts]] = b.lastAt
  /\ b.blockedUntil # Never =>
       b.attempts >= MaxAttempts /\ b.blockedUntil = b.lastAt + BlockSeconds

(* The row is founded on the failures since the last success, unless an     *)
(* older one was written back over it; so is every row a request has read   *)
(* since.                                                                   *)
AllFounded ==
  /\ ~revived => Founded(bucket, failures)
  /\ \A r \in Requests :
       attempt[r].at = "fetched" /\ r \notin outdated => Founded(attempt[r].row, failures)

\* A new failure leaves the older ones where they are.
LEMMA FoundedKept ==
  ASSUME NEW b \in Bucket, NEW f \in Seq(Nat), NEW t \in Nat, Founded(b, f)
  PROVE  Founded(b, Append(f, t))
  <1> DEFINE n == b.attempts
             g == Append(f, t)
  <1>1. /\ Len(f) \in Nat /\ Len(g) = Len(f) + 1 /\ n \in Nat
        /\ \A k \in 1..Len(f) : g[k] = f[k] /\ k \in 1..Len(g)
    BY DEF Bucket
  <1> HIDE DEF g
  <1>2. ASSUME n > 0
        PROVE  \E i \in [1..n -> 1..Len(g)] : Chain(g, i, n) /\ g[i[n]] = b.lastAt
    <2>1. PICK i \in [1..n -> 1..Len(f)] : Chain(f, i, n) /\ f[i[n]] = b.lastAt
      BY <1>2 DEF Founded
    <2>2. i \in [1..n -> 1..Len(g)]
      BY <1>1, <2>1
    <2>3. Chain(g, i, n)
      <3>1. ASSUME NEW j \in 1..(n - 1)
            PROVE  i[j] < i[j + 1] /\ g[i[j + 1]] - g[i[j]] < BlockSeconds
        <4>1. j \in 1..n /\ j + 1 \in 1..n
          BY <1>1
        <4>2. i[j] \in 1..Len(f) /\ i[j + 1] \in 1..Len(f)
          BY <2>1, <4>1
        <4>3. i[j] < i[j + 1] /\ f[i[j + 1]] - f[i[j]] < BlockSeconds
          BY <2>1 DEF Chain
        <4>q. QED BY <1>1, <4>2, <4>3
      <3>q. QED BY <3>1 DEF Chain
    <2>4. g[i[n]] = b.lastAt
      BY <1>1, <1>2, <2>1
    <2>q. QED BY <2>2, <2>3, <2>4
  <1>q. QED BY <1>2 DEF Founded, g

\* One more failure, read by the bucket or the first of a new count, is a chain again.
LEMMA CountedFounded ==
  ASSUME NEW b \in Bucket, NEW f \in Seq(Nat), NEW t \in Nat, Founded(b, f)
  PROVE  Founded(Counted(b, t), Append(f, t)) /\ Founded(FirstFailure(t), Append(f, t))
  <1> DEFINE n == b.attempts
             g == Append(f, t)
  <1>1. /\ Len(f) \in Nat /\ Len(g) = Len(f) + 1 /\ n \in Nat
        /\ \A k \in 1..Len(f) : g[k] = f[k] /\ k \in 1..Len(g)
        /\ g[Len(f) + 1] = t
    BY DEF Bucket
  <1> HIDE DEF g
  <1>2. \E i \in [1..1 -> 1..Len(g)] : Chain(g, i, 1) /\ g[i[1]] = t
    <2> DEFINE i == [j \in 1..1 |-> Len(f) + 1]
    <2>1. i \in [1..1 -> 1..Len(g)] /\ g[i[1]] = t
      BY <1>1
    <2>2. Chain(g, i, 1)
      BY DEF Chain
    <2>q. QED BY <2>1, <2>2
  <1>3. Founded(FirstFailure(t), g)
    BY <1>2 DEF Founded, FirstFailure
  <1>4. CASE Attempts(b, t) = 1
    <2>1. Counted(b, t).attempts = 1 /\ Counted(b, t).lastAt = t
      BY <1>4 DEF Counted
    <2>2. Counted(b, t).blockedUntil # Never =>
            1 >= MaxAttempts /\ Counted(b, t).blockedUntil = t + BlockSeconds
      BY <1>4 DEF Counted
    <2>q. QED BY <1>2, <1>3, <2>1, <2>2 DEF Founded, g
  <1>5. CASE Attempts(b, t) # 1
    <2>1. Attempts(b, t) = n + 1 /\ ~WindowExpired(b, t) /\ n > 0
      BY <1>1, <1>5 DEF Attempts
    <2>2. PICK i \in [1..n -> 1..Len(f)] : Chain(f, i, n) /\ f[i[n]] = b.lastAt
      BY <2>1 DEF Founded
    <2>3. b.lastAt \in Nat /\ t - b.lastAt < BlockSeconds
      <3>1. i[n] \in 1..Len(f)
        BY <1>1, <2>1, <2>2
      <3>2. b.lastAt \in Nat
        BY <2>2, <3>1
      <3>q. QED BY <2>1, <3>2, LimiterAssumption DEF WindowExpired, Never
    <2> DEFINE h == [j \in 1..(n + 1) |-> IF j = n + 1 THEN Len(f) + 1 ELSE i[j]]
    <2>4. /\ \A j \in 1..n : h[j] = i[j] /\ h[j] \in 1..Len(f)
          /\ h[n + 1] = Len(f) + 1
      <3>1. n + 1 \in 1..(n + 1)
        BY <1>1
      <3>2. ASSUME NEW j \in 1..n PROVE h[j] = i[j] /\ h[j] \in 1..Len(f)
        <4>1. j \in 1..(n + 1) /\ j # n + 1
          BY <1>1
        <4>q. QED BY <2>2, <4>1
      <3>q. QED BY <3>1, <3>2
    <2>5. h \in [1..(n + 1) -> 1..Len(g)]
      BY <1>1, <2>2
    <2> HIDE DEF h
    <2>6. ASSUME NEW j \in 1..n
          PROVE  h[j] < h[j + 1] /\ g[h[j + 1]] - g[h[j]] < BlockSeconds
      <3>1. CASE j = n
        <4>1. h[j] \in 1..Len(f) /\ f[h[j]] = b.lastAt /\ h[j + 1] = Len(f) + 1
          BY <2>2, <2>4, <3>1
        <4>2. g[h[j]] = b.lastAt /\ g[h[j + 1]] = t
          BY <1>1, <4>1
        <4>q. QED BY <1>1, <2>3, <4>1, <4>2
      <3>2. CASE j # n
        <4>1. j \in 1..(n - 1) /\ j + 1 \in 1..n
          BY <1>1, <3>2
        <4>2. i[j] < i[j + 1] /\ f[i[j + 1]] - f[i[j]] < BlockSeconds
          BY <2>2, <4>1 DEF Chain
        <4>3. h[j] = i[j] /\ h[j + 1] = i[j + 1] /\ h[j] \in 1..Len(f) /\ h[j + 1] \in 1..Len(f)
          BY <2>4, <4>1
        <4>q. QED BY <1>1, <4>2, <4>3
      <3>q. QED BY <3>1, <3>2
    <2>7. Chain(g, h, n + 1) /\ g[h[n + 1]] = t
      BY <1>1, <2>4, <2>6 DEF Chain
    <2>8. Counted(b, t).attempts = n + 1 /\ Counted(b, t).lastAt = t
      BY <2>1 DEF Counted
    <2>9. Counted(b, t).blockedUntil # Never =>
            n + 1 >= MaxAttempts /\ Counted(b, t).blockedUntil = t + BlockSeconds
      BY <2>1 DEF Counted
    <2>10. Founded(Counted(b, t), g)
      BY <2>5, <2>7, <2>8, <2>9 DEF Founded
    <2>q. QED BY <1>3, <2>10 DEF g
  <1>q. QED BY <1>4, <1>5

\* A founded bucket that blocks does so on the last MaxAttempts of its chain.
LEMMA FoundedBlocks ==
  ASSUME NEW b \in Bucket, NEW f \in Seq(Nat), NEW now \in Nat, Founded(b, f),
         IsBlocked(b, now)
  PROVE  MayBlock(f, now)
  <1> DEFINE n == b.attempts
             m == MaxAttempts
  <1>1. /\ n \in Nat /\ m \in Nat /\ m > 0 /\ n >= m /\ n > 0
        /\ b.blockedUntil = b.lastAt + BlockSeconds /\ now < b.blockedUntil
        /\ Len(f) \in Nat
    BY LimiterAssumption DEF Bucket, Instant, Never, IsBlocked, Founded
  <1>2. PICK i \in [1..n -> 1..Len(f)] : Chain(f, i, n) /\ f[i[n]] = b.lastAt
    BY <1>1 DEF Founded
  <1> DEFINE h == [j \in 1..m |-> i[j + (n - m)]]
  <1>3. \A j \in 1..m : j + (n - m) \in 1..n /\ h[j] = i[j + (n - m)]
    BY <1>1
  <1>4. h \in [1..m -> 1..Len(f)]
    BY <1>2, <1>3
  <1>5. Chain(f, h, m)
    <2>1. ASSUME NEW j \in 1..(m - 1)
          PROVE  h[j] < h[j + 1] /\ f[h[j + 1]] - f[h[j]] < BlockSeconds
      <3>1. /\ j \in 1..m /\ j + 1 \in 1..m /\ j + (n - m) \in 1..(n - 1)
            /\ (j + 1) + (n - m) = (j + (n - m)) + 1
        BY <1>1
      <3>2. h[j] = i[j + (n - m)] /\ h[j + 1] = i[(j + (n - m)) + 1]
        BY <1>3, <3>1
      <3>q. QED BY <1>2, <3>1, <3>2 DEF Chain
    <2>q. QED BY <2>1 DEF Chain
  <1>6. h[m] = i[n]
    BY <1>1, <1>3
  <1>q. QED BY <1>1, <1>2, <1>4, <1>5, <1>6 DEF MayBlock

LEMMA FoundedInductive ==
  LimiterTypeOK /\ AllFounded /\ [LimiterNext]_limiterVars => AllFounded'
  <1> SUFFICES ASSUME LimiterTypeOK, AllFounded, [LimiterNext]_limiterVars PROVE AllFounded'
    OBVIOUS
  <1>0. bucket \in Bucket /\ failures \in Seq(Nat) /\ clock \in Nat
    BY DEF LimiterTypeOK
  <1>1. ASSUME UNCHANGED <<bucket, histories>>,
               \A q \in Requests : attempt'[q].at = "fetched" => attempt'[q] = attempt[q]
        PROVE  AllFounded'
    BY <1>1 DEF AllFounded, histories, Founded, Chain
  <1>2. ASSUME NEW r \in Requests, Admit(r) \/ GiveUp(r) \/ OpenFailed(r)
        PROVE  AllFounded'
    <2>1. \A q \in Requests : attempt'[q].at = "fetched" => attempt'[q] = attempt[q]
      BY <1>2 DEF LimiterTypeOK, Admit, GiveUp, OpenFailed, Moves, NoAttempt, Verifying
    <2>q. QED BY <1>1, <1>2, <2>1 DEF Admit, GiveUp, OpenFailed
  <1>3. ASSUME NEW r \in Requests, Succeed(r)
        PROVE  AllFounded'
    <2>1. \A f : Founded(NoBucket, f)
      BY DEF Founded, NoBucket
    <2>2. ASSUME NEW q \in Requests, attempt'[q].at = "fetched", q \notin outdated'
          PROVE  attempt'[q].row = NoBucket
      BY <1>3, <2>2 DEF Succeed, LimiterTypeOK, NoAttempt
    <2>3. bucket' = NoBucket
      BY <1>3 DEF Succeed, Cleared
    <2>q. QED BY <2>1, <2>2, <2>3 DEF AllFounded
  <1>4. ASSUME NEW r \in Requests, FetchFailed(r)
        PROVE  AllFounded'
    <2>1. /\ UNCHANGED <<bucket, failures, revived>>
          /\ attempt'[r].row = bucket
          /\ \A q \in Requests \ {r} : attempt'[q] = attempt[q]
          /\ outdated' = IF revived THEN outdated \cup {r} ELSE outdated
      BY <1>4 DEF FetchFailed, Moves, LimiterTypeOK
    <2>2. ~revived' => Founded(bucket', failures')
      BY <2>1 DEF AllFounded
    <2>3. ASSUME NEW q \in Requests, attempt'[q].at = "fetched", q \notin outdated'
          PROVE  Founded(attempt'[q].row, failures')
      <3>1. CASE q = r
        BY <2>1, <2>3, <3>1 DEF AllFounded
      <3>2. CASE q # r
        BY <2>1, <2>3, <3>2 DEF AllFounded
      <3>q. QED BY <3>1, <3>2
    <2>q. QED BY <2>2, <2>3 DEF AllFounded
  <1>5. ASSUME NEW r \in Requests, WriteFailed(r)
        PROVE  AllFounded'
    <2> DEFINE now == attempt[r].now
               row == attempt[r].row
    <2>1. /\ now \in Nat /\ row \in Bucket /\ attempt[r].at = "fetched"
          /\ failures' = Append(failures, now)
          /\ outdated' = outdated \ {r} /\ attempt'[r].at # "fetched"
          /\ \A q \in Requests \ {r} : attempt'[q] = attempt[q]
      BY <1>5, RequestType DEF WriteFailed, Moves, NoAttempt, LimiterTypeOK
    <2>2. ASSUME ~revived' PROVE Founded(bucket', failures')
      <3>1. CASE TakesEffect(row)
        <4>1. bucket' = Written(row, now) /\ r \notin outdated
          BY <1>5, <2>2, <3>1 DEF WriteFailed
        <4>2. Founded(row, failures)
          BY <2>1, <4>1 DEF AllFounded
        <4>q. QED BY <1>0, <2>1, <4>1, <4>2, CountedFounded DEF Written
      <3>2. CASE ~TakesEffect(row)
        <4>1. bucket' = bucket /\ ~revived
          BY <1>5, <2>2, <3>2 DEF WriteFailed
        <4>q. QED BY <1>0, <2>1, <4>1, FoundedKept DEF AllFounded
      <3>q. QED BY <3>1, <3>2
    <2>3. ASSUME NEW q \in Requests, attempt'[q].at = "fetched", q \notin outdated'
          PROVE  Founded(attempt'[q].row, failures')
      <3>1. q # r /\ attempt'[q] = attempt[q] /\ q \notin outdated
        BY <2>1, <2>3
      <3>2. Founded(attempt[q].row, failures) /\ attempt[q].row \in Bucket
        BY <2>3, <3>1, RequestType DEF AllFounded
      <3>q. QED BY <1>0, <2>1, <3>1, <3>2, FoundedKept
    <2>q. QED BY <2>2, <2>3 DEF AllFounded
  <1>6. ASSUME NEW r \in Requests, MutateFailed(r)
        PROVE  AllFounded'
    <2>1. \A q \in Requests : attempt'[q].at = "fetched" => attempt'[q] = attempt[q]
      BY <1>6 DEF MutateFailed, Moves, NoAttempt, LimiterTypeOK
    <2>2. CASE UNCHANGED <<bucket, failures>>
      BY <1>1, <1>6, <2>1, <2>2 DEF MutateFailed, histories
    <2>3. CASE bucket' = Counted(bucket, clock) /\ failures' = Append(failures, clock)
      <3>1. UNCHANGED <<outdated, revived>>
        BY <1>6 DEF MutateFailed
      <3>2. ASSUME ~revived' PROVE Founded(bucket', failures')
        BY <1>0, <2>3, <3>1, <3>2, CountedFounded DEF AllFounded
      <3>3. ASSUME NEW q \in Requests, attempt'[q].at = "fetched", q \notin outdated'
            PROVE  Founded(attempt'[q].row, failures')
        <4>1. attempt'[q] = attempt[q] /\ q \notin outdated
          BY <2>1, <3>1, <3>3
        <4>2. Founded(attempt[q].row, failures) /\ attempt[q].row \in Bucket
          BY <3>3, <4>1, RequestType DEF AllFounded
        <4>q. QED BY <1>0, <2>3, <4>1, <4>2, FoundedKept
      <3>q. QED BY <3>2, <3>3 DEF AllFounded
    <2>q. QED BY <1>6, <2>2, <2>3 DEF MutateFailed
  <1>7. CASE Tick \/ UNCHANGED limiterVars
    BY <1>1, <1>7 DEF Tick, limiterVars, histories
  <1>q. QED BY <1>2, <1>3, <1>4, <1>5, <1>6, <1>7 DEF LimiterNext

\* Whichever limiter, and however the reads and writes of any number of requests
\* interleave: an address is blocked only on MaxAttempts failures since the last success,
\* each less than BlockSeconds after the one it counts on, and while the last of them is
\* less than BlockSeconds old, except where an UPDATE undoes a success.
THEOREM BlockNeverEarly == LimiterSpec => []NeverEarly
  <1>1. LimiterInit => AllFounded
    BY DEF LimiterInit, AllFounded, Founded, NoBucket, NoAttempt
  <1>2. LimiterTypeOK /\ AllFounded => NeverEarly
    BY FoundedBlocks DEF LimiterTypeOK, AllFounded, NeverEarly
  <1>q. QED BY <1>1, <1>2, TypeInitially, TypeInductive, FoundedInductive, PTL DEF LimiterSpec

---------------------------------------------------------------------------
(* The bucket says what the list of failures says *)

(* The first conjunct: attempts is the length of the longest streak the     *)
(* failures end in.                                                         *)
Exact(b, f) ==
  /\ \A n \in Nat \ {0} : StreakOf(f, n) <=> n <= b.attempts
  /\ Len(f) > 0 => b.lastAt = f[Len(f)]
  /\ Len(f) = 0 => b = NoBucket
  /\ b.blockedUntil = IF b.attempts >= MaxAttempts
                      THEN b.lastAt + BlockSeconds ELSE Never

\* A streak of n + 1 that ends in a new failure is a streak of n that the new
\* failure continues.
LEMMA StreakGrows ==
  ASSUME NEW f \in Seq(Nat), NEW t \in Nat, NEW n \in Nat \ {0}
  PROVE  StreakOf(Append(f, t), n + 1)
           <=> StreakOf(f, n) /\ t - f[Len(f)] < BlockSeconds
  <1> DEFINE g == Append(f, t)
  <1>1. /\ Len(g) = Len(f) + 1 /\ g[Len(g)] = t
        /\ \A i \in 1..Len(f) : g[i] = f[i]
        /\ Len(f) \in Nat
    OBVIOUS
  <1> HIDE DEF g
  <1>2. CASE Len(f) >= n
    <2>1. (Len(g) - (n + 1) + 2)..Len(g) = ((Len(f) - n + 2)..Len(f)) \cup {Len(g)}
      <3>1. Len(g) - (n + 1) + 2 = Len(f) - n + 2 /\ Len(g) = Len(f) + 1
        BY <1>1
      <3>2. Len(f) - n + 2 \in Int /\ Len(f) - n + 2 <= Len(f) + 1
        BY <1>1
      <3>3. ASSUME NEW lo \in Int, NEW hi \in Nat, lo <= hi + 1
            PROVE  lo..(hi + 1) = (lo..hi) \cup {hi + 1}
        BY <3>3
      <3>q. QED BY <1>1, <3>1, <3>2, <3>3
    <2>2. ASSUME NEW i \in (Len(f) - n + 2)..Len(f)
          PROVE  g[i] = f[i] /\ g[i - 1] = f[i - 1]
      <3>1. Len(f) - n + 2 >= 2 /\ Len(f) - n + 2 \in Int
        BY <1>1, <1>2
      <3>2. i \in 1..Len(f) /\ i - 1 \in 1..Len(f)
        BY <1>1, <3>1
      <3>q. QED BY <1>1, <3>2
    <2>3. g[Len(g) - 1] = f[Len(f)]
      BY <1>1, <1>2
    <2>4. (\A i \in (Len(g) - (n + 1) + 2)..Len(g) : g[i] - g[i - 1] < BlockSeconds)
            <=> /\ \A i \in (Len(f) - n + 2)..Len(f) : f[i] - f[i - 1] < BlockSeconds
                /\ t - f[Len(f)] < BlockSeconds
      BY <1>1, <2>1, <2>2, <2>3
    <2>5. StreakOf(g, n + 1) <=>
            \A i \in (Len(g) - (n + 1) + 2)..Len(g) : g[i] - g[i - 1] < BlockSeconds
      BY <1>1, <1>2 DEF StreakOf
    <2>6. StreakOf(f, n) <=>
            \A i \in (Len(f) - n + 2)..Len(f) : f[i] - f[i - 1] < BlockSeconds
      BY <1>2 DEF StreakOf
    <2>q. QED BY <2>4, <2>5, <2>6 DEF g
  <1>3. CASE ~(Len(f) >= n)
    BY <1>1, <1>3 DEF StreakOf, g
  <1>q. QED BY <1>2, <1>3

\* recordFailure counts exactly: if the bucket stood for the failures before,
\* the counted bucket stands for them with the new one.
LEMMA CountsExactly ==
  ASSUME NEW b \in Bucket, NEW f \in Seq(Nat), NEW t \in Nat, Exact(b, f)
  PROVE  Exact(Counted(b, t), Append(f, t))
  <1> DEFINE g == Append(f, t)
             c == Counted(b, t)
  <1>1. /\ Len(g) = Len(f) + 1 /\ g[Len(g)] = t /\ Len(f) \in Nat
        /\ Len(f) > 0 => f[Len(f)] \in Nat
    OBVIOUS
  <1>2. Attempts(b, t) = IF Len(f) > 0 /\ t - f[Len(f)] < BlockSeconds
                         THEN b.attempts + 1 ELSE 1
    <2>1. CASE Len(f) = 0
      BY <2>1 DEF Exact, NoBucket, Never, Attempts, BlockExpired, WindowExpired
    <2>2. CASE Len(f) > 0
      <3>1. b.lastAt = f[Len(f)] /\ b.lastAt # Never /\ b.lastAt \in Nat
        BY <1>1, <2>2 DEF Exact, Never
      <3>2. BlockExpired(b, t) => b.lastAt + BlockSeconds <= t
        BY <3>1 DEF Exact, BlockExpired
      <3>3. WindowExpired(b, t) <=> ~(t - f[Len(f)] < BlockSeconds)
        BY <3>1, LimiterAssumption DEF WindowExpired
      <3>q. QED BY <2>2, <3>1, <3>2, <3>3, LimiterAssumption DEF Attempts
    <2>q. QED BY <1>1, <2>1, <2>2
  <1>3. ASSUME NEW n \in Nat \ {0}
        PROVE  StreakOf(g, n) <=> n <= c.attempts
    <2>1. b.attempts \in Nat
      BY DEF Bucket
    <2>2. CASE n = 1
      BY <1>1, <1>2, <2>1, <2>2 DEF StreakOf, Counted
    <2>3. CASE n > 1
      <3>1. n - 1 \in Nat \ {0} /\ (n - 1) + 1 = n
        BY <2>3
      <3>2. StreakOf(g, n) <=> StreakOf(f, n - 1) /\ t - f[Len(f)] < BlockSeconds
        BY <3>1, StreakGrows
      <3>3. StreakOf(f, n - 1) <=> n - 1 <= b.attempts
        BY <3>1 DEF Exact
      <3>4. StreakOf(f, n - 1) => Len(f) > 0
        BY <1>1, <3>1 DEF StreakOf
      <3>q. QED BY <1>2, <2>1, <2>3, <3>2, <3>3, <3>4 DEF Counted
    <2>q. QED BY <2>2, <2>3
  <1>4. c.lastAt = g[Len(g)]
    BY <1>1 DEF Counted
  <1>5. c.blockedUntil = IF c.attempts >= MaxAttempts
                         THEN c.lastAt + BlockSeconds ELSE Never
    BY DEF Counted
  <1>q. QED BY <1>1, <1>3, <1>4, <1>5 DEF Exact

(* Requests that do not overlap come one at a time, and the row one of them *)
(* read is the row still; no request is in the other limiter's code.        *)
Serial ==
  /\ ~mixed => \A q, r \in Requests : attempt[q] # NoAttempt /\ attempt[r] # NoAttempt => q = r
  /\ ~mixed => \A r \in Requests : attempt[r].at = "fetched" => attempt[r].row = bucket
  /\ store = "file" => \A r \in Requests : attempt[r].at # "fetched"

LEMMA SerialInductive == LimiterTypeOK /\ Serial /\ [LimiterNext]_limiterVars => Serial'
  <1> SUFFICES ASSUME LimiterTypeOK, Serial, [LimiterNext]_limiterVars PROVE Serial'
    OBVIOUS
  <1>1. ASSUME NEW r \in Requests, Admit(r)
        PROVE  Serial'
    BY <1>1 DEF Admit, Moves, LimiterTypeOK, Serial, Verifying
  <1>2. ASSUME NEW r \in Requests, GiveUp(r) \/ WriteFailed(r) \/ MutateFailed(r)
        PROVE  Serial'
    <2>1. /\ attempt[r] # NoAttempt /\ attempt' = [attempt EXCEPT ![r] = NoAttempt]
          /\ UNCHANGED <<store, mixed>>
      BY <1>2 DEF GiveUp, WriteFailed, MutateFailed, Moves, NoAttempt, Verifying
    <2>2. \A q \in Requests : attempt'[q] # NoAttempt => q # r /\ attempt'[q] = attempt[q]
      BY <2>1 DEF LimiterTypeOK
    <2>q. QED BY <2>1, <2>2 DEF Serial, NoAttempt
  <1>3. ASSUME NEW r \in Requests, Succeed(r)
        PROVE  Serial'
    <2>1. attempt[r] # NoAttempt /\ UNCHANGED <<store, mixed>> /\ attempt'[r] = NoAttempt
      BY <1>3 DEF Succeed, NoAttempt, Verifying, LimiterTypeOK
    <2>2. ASSUME NEW q \in Requests, q # r, attempt[q] = NoAttempt
          PROVE  attempt'[q] = NoAttempt
      BY <1>3, <2>2 DEF Succeed, NoAttempt, LimiterTypeOK
    <2>3. ASSUME NEW q \in Requests, attempt[q].at # "fetched"
          PROVE  attempt'[q].at # "fetched"
      <3>1. CASE attempt[q].at = "opened" /\ q # r
        <4>1. attempt[q] \in [at : {"opened"}, linked : BOOLEAN]
          BY <3>1 DEF LimiterTypeOK, NoAttempt, Verifying
        <4>q. QED BY <1>3, <3>1, <4>1 DEF Succeed
      <3>2. CASE attempt[q].at # "opened" \/ q = r
        BY <1>3, <2>3, <3>2 DEF Succeed, NoAttempt
      <3>q. QED BY <3>1, <3>2
    <2>q. QED BY <2>1, <2>2, <2>3 DEF Serial, NoAttempt
  <1>4. ASSUME NEW r \in Requests, FetchFailed(r) \/ OpenFailed(r)
        PROVE  Serial'
    <2>1. attempt[r] # NoAttempt
      BY <1>4 DEF FetchFailed, OpenFailed, NoAttempt, Verifying
    <2>2. \A q \in Requests : q # r => attempt'[q] = attempt[q]
      BY <1>4 DEF FetchFailed, OpenFailed, Moves, LimiterTypeOK
    <2>3. CASE FetchFailed(r)
      BY <2>1, <2>2, <2>3 DEF FetchFailed, Moves, LimiterTypeOK, Serial
    <2>4. CASE OpenFailed(r)
      BY <2>1, <2>2, <2>4 DEF OpenFailed, Moves, LimiterTypeOK, Serial
    <2>q. QED BY <1>4, <2>3, <2>4
  <1>5. CASE Tick \/ UNCHANGED limiterVars
    BY <1>5 DEF Tick, limiterVars, Serial
  <1>q. QED BY <1>1, <1>2, <1>3, <1>4, <1>5 DEF LimiterNext

CountExact == Isolated => Exact(bucket, failures)

LEMMA ExactInductive ==
  ASSUME MaxAttempts >= 2
  PROVE  LimiterTypeOK /\ Serial /\ CountExact /\ [LimiterNext]_limiterVars => CountExact'
  <1> SUFFICES ASSUME LimiterTypeOK, Serial, CountExact, [LimiterNext]_limiterVars, Isolated'
               PROVE  Exact(bucket, failures)'
    BY DEF CountExact
  <1>1. Isolated /\ Exact(bucket, failures)
    <2>1. UNCHANGED <<store, mixed>>
      BY DEF LimiterNext, limiterVars, Admit, GiveUp, Succeed, FetchFailed, WriteFailed, OpenFailed,
             MutateFailed, Tick
    <2>q. QED BY <2>1 DEF Isolated, CountExact
  <1>2. CASE UNCHANGED <<bucket, failures>>
    BY <1>1, <1>2 DEF Exact, StreakOf
  <1>3. ASSUME NEW r \in Requests, Succeed(r)
        PROVE  Exact(bucket, failures)'
    <2>1. bucket' = NoBucket /\ failures' = <<>>
      BY <1>3 DEF Succeed, Cleared
    <2>q. QED BY <2>1, LimiterAssumption DEF Exact, StreakOf, NoBucket
  <1>4. ASSUME NEW r \in Requests, WriteFailed(r)
        PROVE  Exact(bucket, failures)'
    <2>1. attempt[r].row = bucket /\ attempt[r].now \in Nat
      BY <1>1, <1>4, RequestType DEF WriteFailed, Isolated, Serial
    <2>2. bucket' = Written(bucket, attempt[r].now)
      BY <1>4, <2>1 DEF WriteFailed, TakesEffect
    <2>3. bucket' = Counted(bucket, attempt[r].now)
      <3>1. CASE bucket = NoBucket
        <4>1. Attempts(bucket, attempt[r].now) = 1
          BY <3>1 DEF NoBucket, Never, Attempts, BlockExpired, WindowExpired
        <4>q. QED BY <2>2, <3>1, <4>1, LimiterAssumption DEF Written, FirstFailure, Counted
      <3>2. CASE bucket # NoBucket
        BY <2>2, <3>2 DEF Written
      <3>q. QED BY <3>1, <3>2
    <2>4. failures' = Append(failures, attempt[r].now)
      BY <1>4 DEF WriteFailed
    <2>5. Exact(Counted(bucket, attempt[r].now), Append(failures, attempt[r].now))
      BY <1>1, <2>1, CountsExactly DEF LimiterTypeOK
    <2>q. QED BY <2>3, <2>4, <2>5 DEF Exact
  <1>5. ASSUME NEW r \in Requests, MutateFailed(r), ~UNCHANGED <<bucket, failures>>
        PROVE  Exact(bucket, failures)'
    <2>1. bucket' = Counted(bucket, clock) /\ failures' = Append(failures, clock)
      BY <1>5 DEF MutateFailed
    <2>2. Exact(Counted(bucket, clock), Append(failures, clock))
      BY <1>1, CountsExactly DEF LimiterTypeOK
    <2>q. QED BY <2>1, <2>2 DEF Exact
  <1>q. QED BY <1>2, <1>3, <1>4, <1>5
     DEF LimiterNext, limiterVars, histories, Admit, GiveUp, FetchFailed, OpenFailed, Tick

\* Three numbers are enough: with a limit of at least two, the file limiter
\* under every interleaving, and the database limiter when requests do not
\* overlap, block an address exactly as the list of its failures asks.
THEOREM BlocksExactly ==
  ASSUME MaxAttempts >= 2
  PROVE  LimiterSpec => []BlockedExactly
  <1>1. LimiterInit => Serial /\ CountExact
    BY LimiterAssumption DEF LimiterInit, Serial, CountExact, Exact, StreakOf, NoBucket, NoAttempt
  <1>2. LimiterTypeOK /\ Serial /\ [LimiterNext]_limiterVars => Serial'
    BY SerialInductive
  <1>3. LimiterTypeOK /\ Serial /\ CountExact /\ [LimiterNext]_limiterVars => CountExact'
    BY ExactInductive
  <1>4. LimiterTypeOK /\ CountExact => BlockedExactly
    <2> SUFFICES ASSUME LimiterTypeOK, Exact(bucket, failures)
                 PROVE  IsBlocked(bucket, clock) <=> MustBlock(failures, clock)
      BY DEF CountExact, BlockedExactly
    <2>1. StreakOf(failures, MaxAttempts) <=> MaxAttempts <= bucket.attempts
      BY LimiterAssumption DEF Exact
    <2>2. CASE Len(failures) = 0
      BY <2>2 DEF Exact, NoBucket, IsBlocked, MustBlock
    <2>3. CASE Len(failures) > 0
      <3>1. bucket.lastAt = failures[Len(failures)] /\ failures[Len(failures)] \in Nat
        BY <2>3 DEF Exact, LimiterTypeOK
      <3>q. QED BY <2>1, <2>3, <3>1, LimiterAssumption
         DEF Exact, IsBlocked, MustBlock, Never, LimiterTypeOK, Bucket
    <2>q. QED BY <2>2, <2>3 DEF LimiterTypeOK
  <1>q. QED BY <1>1, <1>2, <1>3, <1>4, TypeInitially, TypeInductive, PTL DEF LimiterSpec

---------------------------------------------------------------------------
(* Requests past a new block *)

UnderWay == {r \in Requests : attempt[r] # NoAttempt}
Beyond == MaxAttempts + Cardinality(Requests) - 1

(* A bucket at the limit blocks.                                            *)
Blocking(b) == b.blockedUntil = Never => b.attempts < MaxAttempts

(* While the address is blocked nobody is admitted: what was counted and    *)
(* what may still be counted only goes down.  Alone, nobody is on the way   *)
(* past a block.                                                            *)
Overrun ==
  /\ Blocking(bucket)
  /\ \A r \in Requests : attempt[r].at = "fetched" => Blocking(attempt[r].row)
  /\ mixed /\ store = "file" =>
       /\ bucket.attempts <= Beyond
       /\ IsBlocked(bucket, clock) =>
            bucket.attempts + Cardinality(UnderWay) <= Beyond
  /\ ~mixed =>
       /\ bucket.attempts <= MaxAttempts
       /\ \A r \in Requests : attempt[r] # NoAttempt => ~IsBlocked(bucket, clock)
       /\ \A r \in Requests :
            attempt[r].at = "fetched" => ~IsBlocked(bucket, attempt[r].now)

\* A failure while the address is not blocked brings the count to the limit at most.
LEMMA CountedWithin ==
  ASSUME NEW b \in Bucket, NEW t \in Nat, Blocking(b)
  PROVE  /\ Blocking(Counted(b, t))
         /\ ~IsBlocked(b, t) => Counted(b, t).attempts <= MaxAttempts
         /\ Counted(b, t).attempts <= b.attempts + 1
  <1>1. /\ Attempts(b, t) \in Nat /\ Attempts(b, t) <= b.attempts + 1
        /\ Counted(b, t).attempts = Attempts(b, t)
    BY CountedType DEF Counted
  <1>2. Blocking(Counted(b, t))
    BY <1>1, LimiterAssumption DEF Counted, Never, Blocking
  <1>3. ASSUME ~IsBlocked(b, t) PROVE Attempts(b, t) <= MaxAttempts
    BY <1>3, LimiterAssumption DEF IsBlocked, Attempts, BlockExpired, Blocking, Bucket, Instant, Never
  <1>q. QED BY <1>1, <1>2, <1>3

\* How many requests are under way, and how many are when one of them ends.
LEMMA UnderWayCount ==
  ASSUME LimiterTypeOK
  PROVE  /\ Cardinality(UnderWay) \in Nat /\ Cardinality(Requests) \in Nat
         /\ Cardinality(UnderWay) <= Cardinality(Requests)
         /\ \A r \in UnderWay :
              /\ Cardinality(UnderWay \ {r}) = Cardinality(UnderWay) - 1
              /\ Cardinality(Requests) >= 1
  <1>1. IsFiniteSet(Requests) /\ UnderWay \subseteq Requests
    BY LimiterAssumption DEF UnderWay
  <1>2. IsFiniteSet(UnderWay) /\ Cardinality(UnderWay) <= Cardinality(Requests)
    BY <1>1, FS_Subset
  <1>3. Cardinality(UnderWay) \in Nat /\ Cardinality(Requests) \in Nat
    BY <1>1, <1>2, FS_CardinalityType
  <1>4. ASSUME NEW r \in UnderWay
        PROVE  Cardinality(UnderWay \ {r}) = Cardinality(UnderWay) - 1
    BY <1>2, FS_RemoveElement
  <1>5. ASSUME NEW r \in UnderWay
        PROVE  Cardinality(Requests) >= 1
    <2>1. Cardinality(UnderWay \ {r}) \in Nat
      BY <1>2, FS_CardinalityType, FS_RemoveElement
    <2>q. QED BY <1>2, <1>3, <1>4, <1>5, <2>1
  <1>q. QED BY <1>2, <1>3, <1>4, <1>5

LEMMA OverrunInductive ==
  ASSUME MaxAttempts >= 2
  PROVE  LimiterTypeOK /\ Serial /\ Overrun /\ [LimiterNext]_limiterVars => Overrun'
  <1> SUFFICES ASSUME LimiterTypeOK, Serial, Overrun, [LimiterNext]_limiterVars PROVE Overrun'
    OBVIOUS
  <1>0. /\ bucket \in Bucket /\ clock \in Nat /\ MaxAttempts \in Nat
        /\ bucket.attempts \in Nat /\ bucket.blockedUntil \in Instant
        /\ Cardinality(UnderWay) \in Nat /\ Cardinality(Requests) \in Nat
        /\ Cardinality(UnderWay) <= Cardinality(Requests)
    BY UnderWayCount, LimiterAssumption DEF LimiterTypeOK, Bucket
  <1>1. ASSUME NEW r \in Requests, Admit(r)
        PROVE  Overrun'
    <2>1. ~IsBlocked(bucket, clock) /\ UNCHANGED <<store, mixed, clock, bucket>>
      BY <1>1 DEF Admit
    <2>2. \A q \in Requests : attempt'[q].at = "fetched" => attempt'[q] = attempt[q]
      BY <1>1 DEF Admit, Moves, Verifying, LimiterTypeOK
    <2>q. QED BY <2>1, <2>2 DEF Overrun, IsBlocked, Beyond, Blocking
  <1>2. ASSUME NEW r \in UnderWay, UnderWay' = UnderWay \ {r},
               \A q \in Requests : attempt'[q].at = "fetched" => attempt'[q] = attempt[q],
               UNCHANGED <<store, mixed, clock, bucket>>
        PROVE  Overrun'
    <2>1. Cardinality(UnderWay') = Cardinality(UnderWay) - 1
      BY <1>2, UnderWayCount
    <2>2. \A q \in Requests : attempt'[q] # NoAttempt => attempt[q] # NoAttempt
      BY <1>2 DEF UnderWay
    <2>q. QED BY <1>0, <1>2, <2>1, <2>2 DEF Overrun, IsBlocked, Beyond, Blocking
  <1>3. ASSUME NEW r \in Requests, attempt[r] # NoAttempt, attempt' = [attempt EXCEPT ![r] = NoAttempt]
        PROVE  /\ r \in UnderWay /\ UnderWay' = UnderWay \ {r}
               /\ \A q \in Requests : attempt'[q].at = "fetched" => attempt'[q] = attempt[q]
    BY <1>3 DEF UnderWay, LimiterTypeOK, NoAttempt
  <1>4. ASSUME NEW r \in Requests, GiveUp(r)
        PROVE  Overrun'
    <2>1. attempt[r] # NoAttempt /\ attempt' = [attempt EXCEPT ![r] = NoAttempt]
      BY <1>4 DEF GiveUp, Moves, Verifying, NoAttempt
    <2>q. QED BY <1>2, <1>3, <1>4, <2>1 DEF GiveUp
  <1>5. ASSUME NEW r \in Requests, Succeed(r)
        PROVE  Overrun'
    <2>1. bucket' = NoBucket /\ UNCHANGED <<store, mixed, clock>> /\ r \in UnderWay
      BY <1>5 DEF Succeed, Cleared, UnderWay, Verifying, NoAttempt
    <2>3. \A q \in Requests : attempt'[q].at = "fetched" => attempt'[q] = attempt[q]
      BY <1>5 DEF Succeed, LimiterTypeOK, NoAttempt
    <2>2. Cardinality(Requests) >= 1
      BY <2>1, UnderWayCount
    <2>q. QED BY <1>0, <2>1, <2>2, <2>3, LimiterAssumption DEF Overrun, NoBucket, Beyond, IsBlocked, Blocking
  <1>6. ASSUME NEW r \in Requests, FetchFailed(r) \/ OpenFailed(r)
        PROVE  Overrun'
    <2>1. /\ attempt[r] # NoAttempt /\ attempt'[r] # NoAttempt
          /\ UNCHANGED <<store, mixed, clock, bucket>>
          /\ \A q \in Requests \ {r} : attempt'[q] = attempt[q]
          /\ attempt'[r].at = "fetched" =>
               attempt'[r].now = clock /\ attempt'[r].row = bucket
      BY <1>6 DEF FetchFailed, OpenFailed, Moves, Verifying, NoAttempt, LimiterTypeOK
    <2>2. UnderWay' = UnderWay
      BY <2>1 DEF UnderWay
    <2>q. QED BY <1>0, <2>1, <2>2 DEF Overrun, IsBlocked, Beyond, Blocking
  <1>7. ASSUME NEW r \in Requests, WriteFailed(r)
        PROVE  Overrun'
    <2>1. /\ attempt[r] # NoAttempt /\ attempt' = [attempt EXCEPT ![r] = NoAttempt]
          /\ UNCHANGED <<store, mixed, clock>> /\ store # "file"
      BY <1>7 DEF WriteFailed, Moves, NoAttempt, Serial
    <2>2. CASE bucket' = bucket
      BY <1>2, <1>3, <2>1, <2>2
    <2>3. CASE bucket' # bucket
      <3> DEFINE row == attempt[r].row
                 now == attempt[r].now
      <3>1. now \in Nat /\ row \in Bucket /\ bucket' = Written(row, now)
            /\ TakesEffect(row)
        BY <1>7, <2>3, RequestType DEF WriteFailed
      <3>2. \A q \in Requests : attempt'[q].at = "fetched" => attempt'[q] = attempt[q]
        BY <2>1, <1>3
      <3>3. bucket' \in {FirstFailure(now), Counted(row, now)}
        BY <3>1 DEF Written
      <3>4. Blocking(FirstFailure(now)) /\ FirstFailure(now).attempts <= MaxAttempts
        BY LimiterAssumption DEF FirstFailure, Blocking
      <3>5. Blocking(row)
        BY <1>7 DEF WriteFailed, Overrun
      <3>6. Blocking(bucket')
        BY <3>1, <3>3, <3>4, <3>5, CountedWithin
      <3>7. ASSUME ~mixed
            PROVE  /\ bucket'.attempts <= MaxAttempts
                   /\ \A q \in Requests : attempt'[q] = NoAttempt
        <4>1. row = bucket /\ ~IsBlocked(bucket, now)
          BY <1>7, <3>7 DEF WriteFailed, Serial, Overrun
        <4>2. \A q \in Requests : attempt'[q] = NoAttempt
          BY <2>1, <3>7 DEF Serial, LimiterTypeOK
        <4>q. QED BY <3>1, <3>3, <3>4, <3>5, <4>1, <4>2, CountedWithin
      <3>q. QED BY <2>1, <3>2, <3>6, <3>7 DEF Overrun, Blocking, NoAttempt
    <2>q. QED BY <2>2, <2>3
  <1>8. ASSUME NEW r \in Requests, MutateFailed(r)
        PROVE  Overrun'
    <2>1. /\ attempt[r] # NoAttempt /\ attempt' = [attempt EXCEPT ![r] = NoAttempt]
          /\ UNCHANGED <<store, mixed, clock>>
          /\ bucket' = bucket \/ bucket' = Counted(bucket, clock)
      BY <1>8 DEF MutateFailed, Moves, NoAttempt
    <2>2. CASE bucket' = bucket
      BY <1>2, <1>3, <2>1, <2>2
    <2>3. CASE bucket' = Counted(bucket, clock)
      <3>1. /\ r \in UnderWay /\ UnderWay' = UnderWay \ {r}
            /\ \A q \in Requests : attempt'[q].at = "fetched" => attempt'[q] = attempt[q]
        BY <1>3, <2>1
      <3>2. /\ Blocking(bucket') /\ bucket'.attempts \in Nat
            /\ bucket'.attempts <= bucket.attempts + 1
            /\ ~IsBlocked(bucket, clock) => bucket'.attempts <= MaxAttempts
        BY <1>0, <2>3, CountedWithin, CountedType DEF Overrun, Bucket
      <3>3. Cardinality(UnderWay') = Cardinality(UnderWay) - 1
        BY <3>1, UnderWayCount
      <3>4. ASSUME mixed, store = "file"
            PROVE  bucket'.attempts + Cardinality(UnderWay') <= Beyond
        <4>1. CASE IsBlocked(bucket, clock)
          BY <1>0, <3>2, <3>3, <3>4, <4>1 DEF Overrun, Beyond
        <4>2. CASE ~IsBlocked(bucket, clock)
          BY <1>0, <3>2, <3>3, <4>2 DEF Beyond
        <4>q. QED BY <4>1, <4>2
      <3>5. Cardinality(UnderWay') \in Nat
        BY <1>0, <3>1, <3>3, FS_RemoveElement, FS_CardinalityType, FS_Subset,
           LimiterAssumption DEF UnderWay
      <3>6. ASSUME ~mixed
            PROVE  /\ bucket'.attempts <= MaxAttempts
                   /\ \A q \in Requests : attempt'[q] = NoAttempt
        BY <2>1, <3>2, <3>6 DEF Overrun, Serial, LimiterTypeOK
      <3>7. mixed /\ store = "file" => bucket'.attempts <= Beyond
        BY <1>0, <3>2, <3>4, <3>5 DEF Beyond
      <3>q. QED BY <2>1, <3>1, <3>2, <3>4, <3>6, <3>7 DEF Overrun, Blocking, Beyond, NoAttempt
    <2>q. QED BY <2>1, <2>2, <2>3
  <1>9. CASE Tick
    <2>1. \A b \in Bucket : IsBlocked(b, clock + 1) => IsBlocked(b, clock)
      BY <1>0 DEF IsBlocked, Bucket, Instant, Never
    <2>q. QED BY <1>0, <1>9, <2>1 DEF Tick, Overrun, Beyond, Blocking, UnderWay, IsBlocked
  <1>10. CASE UNCHANGED limiterVars
    BY <1>10 DEF limiterVars, Overrun, Beyond, Blocking, UnderWay, IsBlocked
  <1>q. QED BY <1>1, <1>4, <1>5, <1>6, <1>7, <1>8, <1>9, <1>10 DEF LimiterNext

\* isBlocked is asked before the credential is judged, and the failure recorded after:
\* for any limit of at least two and any number of requests, those that were admitted
\* together count at most their number beyond the limit, and a request alone none.
THEOREM OverrunIsBounded ==
  ASSUME MaxAttempts >= 2
  PROVE  LimiterSpec => []OverrunBounded
  <1>1. LimiterInit => Serial /\ Overrun
    <2> SUFFICES ASSUME LimiterInit PROVE Serial /\ Overrun
      OBVIOUS
    <2>1. Serial
      BY DEF LimiterInit, Serial, NoAttempt
    <2>2. Cardinality(Requests) \in Nat
      BY LimiterAssumption, FS_CardinalityType
    <2>q. QED BY <2>1, <2>2, LimiterAssumption
       DEF LimiterInit, Overrun, Blocking, NoBucket, IsBlocked, Beyond, NoAttempt
  <1>2. LimiterTypeOK /\ Overrun => OverrunBounded
    <2> SUFFICES ASSUME LimiterTypeOK, Overrun, Isolated PROVE OverrunBounded
      BY DEF OverrunBounded
    <2>1. Cardinality(Requests) \in Nat /\ MaxAttempts \in Nat /\ bucket.attempts \in Nat
      BY LimiterAssumption, FS_CardinalityType DEF LimiterTypeOK, Bucket
    <2>2. CASE mixed
      BY <2>1, <2>2 DEF Overrun, OverrunBounded, Isolated, Beyond
    <2>3. CASE ~mixed
      BY <2>1, <2>3 DEF Overrun, OverrunBounded
    <2>q. QED BY <2>2, <2>3
  <1>q. QED BY <1>1, <1>2, TypeInitially, TypeInductive, SerialInductive, OverrunInductive, PTL
     DEF LimiterSpec

---------------------------------------------------------------------------
(* The accounts: types *)

\* An account that was created, though it may be gone by now
Known(u) == u \in User /\ account[u].state # "new"

\* A request under way, and a sign-in that waits, name an account that was created.
Named ==
  /\ \A p \in Actor : request[p].op = "idle" => request[p] = Idle
  /\ \A p \in Actor : request[p].op # "idle" => Known(request[p].user)
  /\ \A b \in Browser : pending[b] # NoClaim =>
       Known(pending[b].user) /\ pending[b].user \in Factor

Typed == TypeOK /\ Named

\* What stands for none is a request, and a claim, too.
LEMMA NothingTyped ==
  /\ Idle \in Request /\ Idle.op = "idle"
  /\ NoClaim \in Claim /\ NoClaim.user = None
  /\ \A u \in User \cup {None}, pw \in Password \cup {None}, late \in BOOLEAN :
       ClaimOf(u, pw, late) \in Claim
  BY DEF Idle, Request, NoClaim, Claim, ClaimOf

\* A request begins, goes on and ends.
Started(p, op, u, pw) ==
  /\ request' \in [Actor -> Request]
  /\ request'[p].op = op /\ request'[p].user = u /\ request'[p].pw = pw
  /\ request'[p].late = FALSE
  /\ \A q \in Actor \ {p} : request'[q] = request[q]
  /\ account' = account /\ pending' = pending => Named'

LEMMA Starting ==
  ASSUME Typed, NEW p \in Actor,
         NEW op, op \in {"rehash", "sign in", "password", "login", "delete"},
         NEW u, u \in Here, NEW pw, pw \in Password \cup {None}, NEW login, login \in BOOLEAN,
         Start(p, op, u, pw, login)
  PROVE  Started(p, op, u, pw)
  <1> DEFINE r == [op |-> op, user |-> u, pw |-> pw, login |-> login,
                   was |-> account[u].login, late |-> FALSE]
  <1>1. u \in User /\ account[u] \in Account /\ account[u].state = "here"
    BY DEF Typed, TypeOK, Here
  <1>2. r \in Request
    BY <1>1 DEF Request, Account
  <1>3. /\ request' \in [Actor -> Request] /\ request'[p] = r
        /\ \A q \in Actor \ {p} : request'[q] = request[q]
    BY <1>2 DEF Start, Typed, TypeOK
  <1>4. /\ request'[p].op = op /\ request'[p].user = u /\ request'[p].pw = pw
        /\ request'[p].late = FALSE
    <2>1. r.op = op /\ r.user = u /\ r.pw = pw
      OBVIOUS
    <2>2. r.late = FALSE
      OBVIOUS
    <2> HIDE DEF r
    <2>q. QED BY <1>3, <2>1, <2>2
  <1>5. ASSUME account' = account, pending' = pending PROVE Named'
    <2>1. \A q \in Actor : request'[q].op = "idle" => request'[q] = Idle
      BY <1>3, <1>4 DEF Typed, Named
    <2>2. Known(u)
      BY <1>1 DEF Known
    <2>3. \A v : Known(v)' <=> Known(v)
      BY <1>5 DEF Known
    <2>4. \A q \in Actor : request'[q].op # "idle" => Known(request'[q].user)
      BY <1>3, <1>4, <2>2 DEF Typed, Named
    <2>5. \A b \in Browser : pending'[b] # NoClaim => Known(pending'[b].user) /\ pending'[b].user \in Factor
      BY <1>5 DEF Typed, Named
    <2>q. QED BY <2>1, <2>3, <2>4, <2>5 DEF Named, Idle, NoClaim, ClaimOf
  <1>q. QED BY <1>3, <1>4, <1>5 DEF Started

LEMMA Proceeding ==
  ASSUME Typed, NEW p \in Actor, request[p].op # "idle",
         NEW op \in {"sign in", "login", "revoke"}, Proceed(p, op)
  PROVE  /\ request' \in [Actor -> Request]
         /\ request'[p] = [request[p] EXCEPT !.op = op]
         /\ request'[p].op = op /\ request'[p].user = request[p].user
         /\ request'[p].pw = request[p].pw /\ request'[p].late = request[p].late
         /\ \A q \in Actor \ {p} : request'[q] = request[q]
  <1>1. request \in [Actor -> Request] /\ request[p] \in Request
    BY DEF Typed, TypeOK
  <1>q. QED BY <1>1 DEF Proceed, Request

LEMMA Responding ==
  ASSUME Typed, NEW p \in Actor, Respond(p)
  PROVE  /\ request' \in [Actor -> Request]
         /\ request'[p] = Idle
         /\ \A q \in Actor \ {p} : request'[q] = request[q]
  BY NothingTyped DEF Respond, Typed, TypeOK

\* Where accounts only go on, what was created stays so.
LEMMA NamedKept ==
  ASSUME Typed, account' \in [User -> Account],
         \A u \in User : account'[u].state = "new" => account[u].state = "new",
         \A p \in Actor :
           \/ request'[p] = request[p] \/ request'[p] = Idle
           \/ request[p].op # "idle" /\ request'[p].op # "idle" /\ request'[p].user = request[p].user,
         \A b \in Browser :
           \/ pending'[b] = pending[b] \/ pending'[b] = NoClaim
           \/ pending[b] # NoClaim /\ pending'[b].user = pending[b].user
           \/ Known(pending'[b].user) /\ pending'[b].user \in Factor
  PROVE  Named'
  BY NothingTyped DEF Typed, Named, Known

\* A session that begins belongs to an account that is there.
LEMMA Establishing ==
  ASSUME Typed, NEW b \in Browser, NEW claim \in Claim, Establish(b, claim)
  PROVE  /\ session' \in [Browser -> Claim]
         /\ (session'[b] = claim /\ claim.user \in Here) \/ session'[b] = session[b]
         /\ \A c \in Browser \ {b} : session'[c] = session[c]
         /\ \A c \in Browser : session'[c].user # None => session'[c].user \in Here
  BY DEF Establish, Typed, TypeOK, SignedIn

\* Sessions are ended: what becomes of the requests, the sign-ins and the sessions.
LEMMA SessionsEnding ==
  ASSUME Typed, NEW p \in Actor, EndSessions(p)
  PROVE  /\ request' \in [Actor -> Request] /\ request'[p] = Idle
         /\ \A q \in Actor \ {p} :
              /\ request'[q].op = request[q].op /\ request'[q].user = request[q].user
              /\ request'[q].pw = request[q].pw
              /\ request[q] = Idle => request'[q] = Idle
              /\ request'[q].late = (request[q].late \/ (SigningIn(q) /\ request[q].user = request[p].user))
         /\ pending' \in [Browser -> Claim]
         /\ \A b \in Browser :
              /\ pending'[b].user = pending[b].user /\ pending'[b].pw = pending[b].pw
              /\ pending[b] = NoClaim => pending'[b] = NoClaim
              /\ pending'[b].late = (pending[b].late \/ pending[b].user = request[p].user)
         /\ session' \in [Browser -> Claim]
         /\ \A b \in Browser :
              \/ session'[b] = NoClaim
              \/ session'[b].user = session[b].user /\ session'[b].pw = None
              \/ session'[b] = session[b] /\ session[b].user # request[p].user
  <1> DEFINE u == request[p].user
  <1>1. /\ request \in [Actor -> Request]
        /\ pending \in [Browser -> Claim] /\ session \in [Browser -> Claim]
        /\ request[p] \in Request /\ request[p].op = "revoke" /\ u \in User
    BY DEF EndSessions, Typed, TypeOK, Named, Known
  <1> DEFINE Marked(q) == request[q].late \/ (SigningIn(q) /\ request[q].user = u)
             To(q) == IF q = p THEN Idle ELSE [request[q] EXCEPT !.late = Marked(q)]
  <1>2. ASSUME NEW q \in Actor
        PROVE  /\ [request[q] EXCEPT !.late = Marked(q)] \in Request
               /\ [request[q] EXCEPT !.late = Marked(q)].op = request[q].op
               /\ [request[q] EXCEPT !.late = Marked(q)].user = request[q].user
               /\ [request[q] EXCEPT !.late = Marked(q)].pw = request[q].pw
               /\ [request[q] EXCEPT !.late = Marked(q)].late = Marked(q)
    <2>1. request[q] \in Request
      BY <1>1
    <2>2. Marked(q) \in BOOLEAN
      BY <2>1 DEF Request, SigningIn
    <2> HIDE DEF Marked
    <2>q. QED BY <2>1, <2>2 DEF Request
  <1>3. \A q \in Actor : request[q] = Idle => [request[q] EXCEPT !.late = Marked(q)] = Idle
    <2>1. Idle.op = "idle" /\ Idle.late = FALSE
      BY DEF Idle
    <2>2. \A r \in Request : [r EXCEPT !.late = r.late] = r
      BY DEF Request
    <2>3. [Idle EXCEPT !.late = FALSE] = Idle
      BY <2>1, <2>2, NothingTyped
    <2>4. ASSUME NEW q \in Actor, request[q] = Idle PROVE Marked(q) = FALSE
      BY <2>1, <2>4 DEF SigningIn
    <2> HIDE DEF Marked
    <2>q. QED BY <2>3, <2>4
  <1>4. request' = [q \in Actor |-> To(q)]
    BY DEF EndSessions
  <1>5. /\ request' \in [Actor -> Request] /\ request'[p] = Idle
         /\ \A q \in Actor \ {p} : request'[q] = [request[q] EXCEPT !.late = Marked(q)]
    <2> HIDE DEF Marked
    <2>q. QED BY <1>2, <1>4, NothingTyped
  <1>6. /\ pending' \in [Browser -> Claim]
        /\ \A b \in Browser : pending'[b] = [pending[b] EXCEPT !.late = @ \/ pending[b].user = u]
    BY <1>1 DEF EndSessions, Claim
  <1>7. \A b \in Browser :
              /\ pending'[b].user = pending[b].user /\ pending'[b].pw = pending[b].pw
              /\ pending[b] = NoClaim => pending'[b] = NoClaim
              /\ pending'[b].late = (pending[b].late \/ pending[b].user = u)
    BY <1>1, <1>6, NoneIsNobody DEF Claim, NoClaim, ClaimOf
  <1>8. /\ session' \in [Browser -> Claim]
        /\ \A b \in Browser :
              \/ session'[b] = NoClaim
              \/ session'[b] = ClaimOf(u, None, FALSE) /\ session[b].user = u
              \/ session'[b] = session[b] /\ session[b].user # u
    BY <1>1, NothingTyped DEF EndSessions, SessionsOf
  <1>9. ClaimOf(u, None, FALSE).user = u /\ ClaimOf(u, None, FALSE).pw = None
    BY DEF ClaimOf
  <1>10. \A q \in Actor \ {p} :
              /\ request'[q].op = request[q].op /\ request'[q].user = request[q].user
              /\ request'[q].pw = request[q].pw
              /\ request[q] = Idle => request'[q] = Idle
              /\ request'[q].late = Marked(q)
    <2> HIDE DEF Marked
    <2>q. QED BY <1>2, <1>3, <1>5
  <1>q. QED BY <1>5, <1>6, <1>7, <1>8, <1>9, <1>10

\* The rest of a step that leaves who is there, and every session, as they are.
LEMMA OthersTyped ==
  ASSUME Typed, Named', account' = account, session' = session,
         pending' = pending, overlap' = overlap,
         request' \in [Actor -> Request], changes' \in 0..MaxChange,
         meant' = meant, raced' = raced, broken' \subseteq User
  PROVE  Typed'
  BY DEF Typed, TypeOK, Here, SignedIn

\* A sign-in's password is verified, and the sign-in rests on it.
LEMMA PasswordVerified ==
  ASSUME Typed, NEW b \in Browser, NEW u \in User, NEW p \in Password, VerifyPassword(b, u, p)
  PROVE  /\ UNCHANGED <<overlap, account, session, pending, changes, meant, raced, broken>>
         /\ request[b] = Idle /\ (overlap \/ Quiet)
         /\ u \in Here /\ account[u].login /\ account[u].pw = p
         /\ request' \in [Actor -> Request] /\ Named'
         /\ request'[b].op \in {"rehash", "sign in"}
         /\ request'[b].user = u /\ request'[b].pw = p /\ request'[b].late = FALSE
         /\ \A q \in Actor \ {b} : request'[q] = request[q]
  <1>1. /\ UNCHANGED <<overlap, account, session, pending, changes, meant, raced, broken>>
        /\ request[b] = Idle /\ (overlap \/ Quiet)
        /\ u \in Here /\ account[u].login /\ account[u].pw = p
    BY DEF VerifyPassword, Verifies, MayStart, historyVars
  <1>2. b \in Actor /\ p \in Password \cup {None}
    BY DEF Actor
  <1>3. PICK op \in {"rehash", "sign in"} : Start(b, op, u, p, TRUE)
    BY DEF VerifyPassword
  <1>4. Started(b, op, u, p)
    BY <1>1, <1>2, <1>3, Starting
  <1>q. QED BY <1>1, <1>4 DEF Started

LEMMA SignInTyped ==
  ASSUME Typed, NEW b \in Browser, SignInStep(b)
  PROVE  Typed'
  <1>1. CASE \E u \in User, p \in Password : VerifyPassword(b, u, p)
    <2>1. PICK u \in User, p \in Password : VerifyPassword(b, u, p)
      BY <1>1
    <2>q. QED BY <2>1, PasswordVerified, OthersTyped DEF Typed, TypeOK
  <1>2. CASE Rehash(b)
    <2>1. /\ request' \in [Actor -> Request]
          /\ request'[b].op = "sign in" /\ request'[b].user = request[b].user
          /\ \A q \in Actor \ {b} : request'[q] = request[q]
      BY <1>2, Proceeding DEF Rehash, Actor
    <2>2. /\ account' \in [User -> Account]
          /\ \A u \in User : account'[u].state = account[u].state
      <3>1. request[b].pw \in Password \cup {None}
        BY DEF Typed, TypeOK, Request, Actor
      <3>2. CASE request[b].user \notin Here
        BY <1>2, <3>2 DEF Rehash, Typed, TypeOK
      <3>3. CASE request[b].user \in Here
        <4> DEFINE u == request[b].user
        <4>1. account' = [account EXCEPT ![u].pw = request[b].pw, ![u].old = FALSE]
          BY <1>2, <3>3 DEF Rehash
        <4>2. u \in User /\ account \in [User -> Account]
          BY <3>3 DEF Here, Typed, TypeOK
        <4>q. QED BY <3>1, <4>1, <4>2 DEF Account
      <3>q. QED BY <3>2, <3>3
    <2>3. Named'
      BY <1>2, <2>1, <2>2, NamedKept DEF Rehash
    <2>q. QED BY <1>2, <2>1, <2>2, <2>3 DEF Rehash, Typed, TypeOK, Here, SignedIn, historyVars
  <1>3. CASE PasswordDone(b)
    <2> DEFINE claim == ClaimOf(request[b].user, request[b].pw, request[b].late)
    <2>1. request[b] \in Request /\ request[b].op = "sign in" /\ Known(request[b].user)
      BY <1>3 DEF PasswordDone, Typed, TypeOK, Named, Actor
    <2>2. claim \in Claim /\ claim.user = request[b].user
      BY <2>1 DEF Request, Claim, ClaimOf
    <2>3. /\ request' \in [Actor -> Request] /\ request'[b] = Idle
          /\ \A q \in Actor \ {b} : request'[q] = request[q]
      BY <1>3, Responding DEF PasswordDone, Actor
    <2>4. /\ pending' \in [Browser -> Claim]
          /\ \A c \in Browser : pending'[c] = pending[c] \/ (pending'[c] = claim /\ claim.user \in Factor)
      BY <1>3, <2>2 DEF PasswordDone, Typed, TypeOK
    <2>5. account' = account
      BY <1>3 DEF PasswordDone
    <2>6. Named'
      BY <2>1, <2>2, <2>3, <2>4, <2>5, NamedKept DEF Typed, TypeOK
    <2>7. /\ session' \in [Browser -> Claim]
          /\ \A c \in Browser : session'[c].user # None => session'[c].user \in Here
      <3>1. CASE UNCHANGED session
        BY <3>1 DEF Typed, TypeOK, SignedIn
      <3>2. CASE Establish(b, claim)
        BY <3>2, <2>2, Establishing
      <3>q. QED BY <1>3, <3>1, <3>2 DEF PasswordDone
    <2> HIDE DEF claim
    <2>q. QED BY <1>3, <2>3, <2>4, <2>5, <2>6, <2>7 DEF PasswordDone, Typed, TypeOK, Here,
                   SignedIn, historyVars
  <1>4. CASE FactorDone(b)
    <2>1. pending' \in [Browser -> Claim] /\ Named'
      BY <1>4, NothingTyped, NamedKept DEF FactorDone, Typed, TypeOK
    <2>2. pending[b] \in Claim
      BY DEF Typed, TypeOK
    <2>3. /\ session' \in [Browser -> Claim]
          /\ \A c \in Browser : session'[c].user # None => session'[c].user \in Here
      BY <1>4, <2>2, Establishing DEF FactorDone
    <2>q. QED BY <1>4, <2>1, <2>3 DEF FactorDone, Typed, TypeOK, Here, SignedIn, historyVars
  <1>5. CASE FactorLate(b)
    <2>1. pending' \in [Browser -> Claim] /\ Named'
      BY <1>5, NothingTyped, NamedKept DEF FactorLate, Typed, TypeOK
    <2>q. QED BY <1>5, <2>1 DEF FactorLate, Typed, TypeOK, Here, SignedIn, historyVars
  <1>6. CASE \E u \in User : PasskeyDone(b, u)
    <2>1. PICK u \in User : PasskeyDone(b, u)
      BY <1>6
    <2>2. pending' \in [Browser -> Claim] /\ Named'
      BY <2>1, NothingTyped, NamedKept DEF PasskeyDone, Typed, TypeOK
    <2>3. ClaimOf(u, None, FALSE) \in Claim
      BY NothingTyped
    <2>4. /\ session' \in [Browser -> Claim]
          /\ \A c \in Browser : session'[c].user # None => session'[c].user \in Here
      BY <2>1, <2>3, Establishing DEF PasskeyDone
    <2>q. QED BY <2>1, <2>2, <2>4 DEF PasskeyDone, Typed, TypeOK, Here, SignedIn, historyVars
  <1>7. CASE SessionEnds(b)
    <2>1. /\ pending' \in [Browser -> Claim]
          /\ \A c \in Browser : pending'[c] = pending[c] \/ pending'[c] = NoClaim
      BY <1>7, NothingTyped DEF SessionEnds, Typed, TypeOK
    <2>2. Named'
      BY <1>7, <2>1, NamedKept DEF SessionEnds, Typed, TypeOK
    <2>3. /\ session' \in [Browser -> Claim]
          /\ \A c \in Browser : session'[c].user # None => session'[c].user \in Here
      BY <1>7, NothingTyped DEF SessionEnds, Typed, TypeOK, SignedIn
    <2>q. QED BY <1>7, <2>1, <2>2, <2>3 DEF SessionEnds, Typed, TypeOK, Here, SignedIn,
                   historyVars
  <1>q. QED BY <1>1, <1>2, <1>3, <1>4, <1>5, <1>6, <1>7 DEF SignInStep

LEMMA CreateTyped ==
  ASSUME Typed, NEW p \in Actor, NEW u \in User, NEW pw \in Password, NEW login \in BOOLEAN,
         Create(p, u, pw, login)
  PROVE  Typed' /\ \A v \in User \ {u} : account'[v] = account[v]
  <1> DEFINE a == [state |-> "here", pw |-> IF login THEN pw ELSE None, old |-> FALSE,
                   login |-> login, waits |-> ~login]
  <1>1. a \in Account /\ a.state = "here" /\ a.pw \in Password \cup {None}
    BY DEF Account
  <1>2. account' = [account EXCEPT ![u] = a]
    BY DEF Create
  <1> HIDE DEF a
  <1>3. /\ account' \in [User -> Account] /\ account'[u] = a
        /\ \A v \in User \ {u} : account'[v] = account[v]
    BY <1>1, <1>2 DEF Typed, TypeOK
  <1>4. meant' \in [User -> Password \cup {None}]
    BY <1>1, <1>3 DEF Create, Typed, TypeOK
  <1>5. Named'
    BY <1>1, <1>3, NamedKept DEF Create
  <1>6. \A b \in Browser : SignedIn(b)' => session'[b].user \in Here'
    BY <1>1, <1>3 DEF Create, Typed, TypeOK, SignedIn, Here
  <1>7. changes' \in 0..MaxChange
    BY ChangesAreCounted DEF Create, MayChange, Typed, TypeOK
  <1>q. QED BY <1>3, <1>4, <1>5, <1>6, <1>7 DEF Create, Typed, TypeOK

LEMMA ActivateTyped ==
  ASSUME Typed, NEW u \in User, Activate(u)
  PROVE  /\ Typed'
         /\ \A v \in User : /\ account'[v].state = account[v].state /\ account'[v].pw = account[v].pw
                            /\ account'[v].login = account[v].login
  <1>1. /\ account' \in [User -> Account]
        /\ \A v \in User : /\ account'[v].state = account[v].state /\ account'[v].pw = account[v].pw
                           /\ account'[v].login = account[v].login
    BY DEF Activate, Typed, TypeOK, Account
  <1>2. Named'
    BY <1>1, NamedKept DEF Activate
  <1>q. QED BY <1>1, <1>2 DEF Activate, Typed, TypeOK, historyVars, Here, SignedIn

\* A change begins: an update, from the web or the command line, or a deletion.
LEMMA ChangeBegins ==
  ASSUME Typed, NEW p \in Actor, NEW op \in {"password", "login", "delete"}, NEW u \in Here,
         NEW pw \in Password \cup {None}, NEW login \in BOOLEAN,
         MayChange(p), Start(p, op, u, pw, login),
         UNCHANGED <<overlap, account, session, pending, historyVars>>
  PROVE  Typed'
  <1>1. Started(p, op, u, pw)
    BY Starting
  <1>2. changes' \in 0..MaxChange
    BY ChangesAreCounted DEF MayChange, Typed, TypeOK
  <1>q. QED BY <1>1, <1>2, OthersTyped DEF Started, historyVars, Typed, TypeOK

\* An update begins, from the web or from the command line.
UpdateBegins(p) ==
  \/ /\ p \in Browser
     /\ \E u \in User, pw \in Password \cup {None}, login \in BOOLEAN : Update(p, u, pw, login)
  \/ p = Cli /\ \E u \in User, pw \in Password : CliSetPassword(u, pw)

LEMMA Updating ==
  ASSUME Typed, NEW p \in Actor, UpdateBegins(p)
  PROVE  /\ Typed' /\ UNCHANGED <<overlap, account, session, pending, meant, raced, broken>>
         /\ request[p] = Idle /\ (overlap \/ Quiet)
         /\ request'[p].op \in {"password", "login"}
         /\ request'[p].op = "password" => request'[p].pw # None
         /\ \A q \in Actor \ {p} : request'[q] = request[q]
  <1> DEFINE Begun(op, u, pw) ==
        /\ Start(p, op, u, pw, TRUE) \/ Start(p, op, u, pw, FALSE)
        /\ op = "password" => pw # None
        Beginning ==
          /\ \E op \in {"password", "login"}, u \in Here, pw \in Password \cup {None} : Begun(op, u, pw)
          /\ MayChange(p) /\ UNCHANGED <<overlap, account, session, pending, historyVars>>
  <1>1. Beginning
    <2>1. ASSUME NEW u \in User, NEW pw \in Password \cup {None}, NEW login \in BOOLEAN,
                 Update(p, u, pw, login)
          PROVE  Beginning
      <3>1. login = TRUE \/ login = FALSE
        OBVIOUS
      <3>2. \/ Update(p, u, pw, TRUE)
            \/ Update(p, u, pw, FALSE)
        BY <2>1, <3>1, Zenon
      <3>3. /\ u \in Here /\ MayChange(p)
            /\ UNCHANGED <<overlap, account, session, pending, historyVars>>
        BY <3>2 DEF Update
      <3>4. CASE pw = None
        <4>1. Begun("login", u, pw)
          BY <3>2, <3>4 DEF Update
        <4>q. QED BY <3>3, <4>1
      <3>5. CASE pw # None
        <4>1. Begun("password", u, pw)
          BY <3>2, <3>5 DEF Update
        <4>q. QED BY <3>3, <4>1
      <3>q. QED BY <3>4, <3>5
    <2>2. ASSUME NEW u \in User, NEW pw \in Password, p = Cli, CliSetPassword(u, pw)
          PROVE  Beginning
      <3>1. Start(p, "password", u, pw, FALSE) /\ pw # None
        BY <2>2, NoneIsNobody DEF CliSetPassword
      <3>2. /\ u \in Here /\ MayChange(p)
            /\ UNCHANGED <<overlap, account, session, pending, historyVars>>
        BY <2>2 DEF CliSetPassword
      <3>3. Begun("password", u, pw) /\ pw \in Password \cup {None}
        BY <3>1
      <3> HIDE DEF Begun
      <3>q. QED BY <3>2, <3>3
    <2>q. QED BY <2>1, <2>2 DEF UpdateBegins
  <1>2. PICK op \in {"password", "login"}, u \in Here, pw \in Password \cup {None} : Begun(op, u, pw)
    BY <1>1
  <1>3. /\ op \in {"rehash", "sign in", "password", "login", "delete"}
        /\ op \in {"password", "login", "delete"}
    OBVIOUS
  <1>4. Typed'
    BY <1>1, <1>2, <1>3, ChangeBegins
  <1>5. Started(p, op, u, pw)
    BY <1>2, <1>3, Starting
  <1>6. request[p] = Idle /\ (overlap \/ Quiet)
    BY <1>1 DEF MayChange, MayStart
  <1>q. QED BY <1>1, <1>2, <1>4, <1>5, <1>6 DEF historyVars, Started

\* What WritePassword does to the account and to the history.
LEMMA PasswordWritten ==
  ASSUME Typed, NEW p \in Actor, WritePassword(p)
  PROVE  LET u == request[p].user IN
         /\ Typed'
         /\ \A v \in User : /\ account'[v].state = account[v].state
                            /\ account'[v].login = account[v].login
                            /\ v # u => account'[v] = account[v] /\ meant'[v] = meant[v]
         /\ u \in User /\ (u \in Here => account'[u].pw = request[p].pw /\ meant'[u] = request[p].pw)
         /\ u \notin Here => account' = account
         /\ request'[p].user = u /\ request'[p].pw = request[p].pw
         /\ request'[p].op = IF p = Cli THEN "revoke" ELSE "login"
         /\ \A q \in Actor \ {p} : request'[q] = request[q]
  <1> DEFINE u == request[p].user
  <1>1. u \in User /\ request[p].pw \in Password \cup {None} /\ request[p].op = "password"
    BY DEF WritePassword, Typed, TypeOK, Named, Known, Request
  <1>2. /\ request' \in [Actor -> Request]
        /\ request'[p].user = u /\ request'[p].pw = request[p].pw
        /\ request'[p].op = IF p = Cli THEN "revoke" ELSE "login"
        /\ \A q \in Actor \ {p} : request'[q] = request[q]
    <2>1. (Proceed(p, "revoke") /\ p = Cli) \/ (Proceed(p, "login") /\ p # Cli)
      BY DEF WritePassword
    <2>q. QED BY <1>1, <2>1, Proceeding
  <1>3. /\ account' \in [User -> Account] /\ meant' \in [User -> Password \cup {None}]
        /\ raced' \subseteq User
        /\ \A v \in User : /\ account'[v].state = account[v].state
                           /\ account'[v].login = account[v].login
                           /\ v # u => account'[v] = account[v] /\ meant'[v] = meant[v]
        /\ u \in Here => account'[u].pw = request[p].pw /\ meant'[u] = request[p].pw
    <2>1. CASE u \notin Here
      BY <2>1 DEF WritePassword, Typed, TypeOK
    <2>2. CASE u \in Here
      <3>1. account' = [account EXCEPT ![u].pw = request[p].pw, ![u].old = FALSE]
        BY <2>2 DEF WritePassword
      <3>2. /\ meant' = [meant EXCEPT ![u] = request[p].pw]
            /\ raced' \subseteq raced \cup {u}
        BY <2>2 DEF WritePassword
      <3>3. /\ account \in [User -> Account] /\ raced \subseteq User
            /\ meant \in [User -> Password \cup {None}]
        BY DEF Typed, TypeOK
      <3>4. /\ account' \in [User -> Account]
            /\ account'[u].pw = request[p].pw
            /\ \A v \in User : /\ account'[v].state = account[v].state
                               /\ account'[v].login = account[v].login
                               /\ v # u => account'[v] = account[v]
        BY <1>1, <3>1, <3>3 DEF Account
      <3>q. QED BY <1>1, <3>2, <3>3, <3>4
    <2>q. QED BY <2>1, <2>2
  <1>4. Named'
    <2>1. pending' = pending
      BY DEF WritePassword
    <2>2. request[p].op # "idle" /\ request'[p].op # "idle"
      BY <1>1, <1>2
    <2>q. QED BY <1>2, <1>3, <2>1, <2>2, NamedKept
  <1>5. u \notin Here => account' = account
    BY DEF WritePassword
  <1>6. Typed'
    BY <1>2, <1>3, <1>4 DEF WritePassword, Typed, TypeOK, Here, SignedIn
  <1>q. QED BY <1>1, <1>2, <1>3, <1>5, <1>6

\* What WriteLogin does to the account and to the request.
LEMMA LoginWritten ==
  ASSUME Typed, NEW b \in Browser, WriteLogin(b)
  PROVE  LET u == request[b].user IN
         /\ Typed'
         /\ \A v \in User : /\ account'[v].state = account[v].state
                            /\ account'[v].pw = account[v].pw
                            /\ v # u => account'[v] = account[v]
         /\ u \in User /\ (u \in Here => account'[u].login = request[b].login)
         /\ u \notin Here => account' = account
         /\ \/ /\ EndsSessions(request[b]) /\ broken' = broken
               /\ request'[b].op = "revoke" /\ request'[b].user = u
            \/ /\ ~EndsSessions(request[b]) /\ request'[b] = Idle
               /\ broken' = IF Overtaken(b) THEN broken \cup {u} ELSE broken
         /\ \A q \in Actor \ {b} : request'[q] = request[q]
  <1> DEFINE u == request[b].user
  <1>0. b \in Actor
    BY DEF Actor
  <1>1. u \in User /\ request[b].login \in BOOLEAN /\ request[b].op = "login"
    BY <1>0 DEF WriteLogin, Typed, TypeOK, Named, Known, Request
  <1>2. /\ request' \in [Actor -> Request] /\ broken' \subseteq User
        /\ \/ /\ EndsSessions(request[b]) /\ broken' = broken
              /\ request'[b].op = "revoke" /\ request'[b].user = u
           \/ /\ ~EndsSessions(request[b]) /\ request'[b] = Idle
              /\ broken' = IF Overtaken(b) THEN broken \cup {u} ELSE broken
        /\ \A q \in Actor \ {b} : request'[q] = request[q]
    <2>1. CASE EndsSessions(request[b])
      <3>1. Proceed(b, "revoke") /\ broken' = broken
        BY <2>1 DEF WriteLogin
      <3>q. QED BY <1>0, <1>1, <2>1, <3>1, Proceeding DEF Typed, TypeOK
    <2>2. CASE ~EndsSessions(request[b])
      <3>1. Respond(b) /\ broken' = IF Overtaken(b) THEN broken \cup {u} ELSE broken
        BY <2>2 DEF WriteLogin
      <3>2. broken' \subseteq User
        BY <1>1, <3>1 DEF Typed, TypeOK
      <3>q. QED BY <1>0, <2>2, <3>1, <3>2, Responding
    <2>q. QED BY <2>1, <2>2
  <1>3. /\ account' \in [User -> Account]
        /\ \A v \in User : /\ account'[v].state = account[v].state
                           /\ account'[v].pw = account[v].pw
                           /\ v # u => account'[v] = account[v]
        /\ u \in Here => account'[u].login = request[b].login
        /\ u \notin Here => account' = account
    BY <1>1 DEF WriteLogin, Typed, TypeOK, Account
  <1>4. Named'
    <2>1. pending' = pending
      BY DEF WriteLogin
    <2>2. /\ request[b].op # "idle"
          /\ request'[b] = Idle \/ (request'[b].op # "idle" /\ request'[b].user = u)
      BY <1>1, <1>2
    <2>3. \A q \in Actor :
            \/ request'[q] = request[q] \/ request'[q] = Idle
            \/ request[q].op # "idle" /\ request'[q].op # "idle" /\ request'[q].user = request[q].user
      BY <1>2, <2>2
    <2>q. QED BY <1>3, <2>1, <2>3, NamedKept
  <1>5. Typed'
    BY <1>2, <1>3, <1>4 DEF WriteLogin, Typed, TypeOK, Here, SignedIn
  <1>q. QED BY <1>1, <1>2, <1>3, <1>5

LEMMA EndingTyped ==
  ASSUME Typed, NEW p \in Actor, EndSessions(p)
  PROVE  Typed'
  <1>1. UNCHANGED <<overlap, account, changes, meant, raced>> /\ broken' \subseteq User
    BY DEF EndSessions, Typed, TypeOK
  <1>2. Named'
    <2>1. \A q \in Actor :
            \/ request'[q] = request[q] \/ request'[q] = Idle
            \/ request[q].op # "idle" /\ request'[q].op # "idle" /\ request'[q].user = request[q].user
      BY SessionsEnding DEF Typed, Named
    <2>2. \A b \in Browser :
            \/ pending'[b] = pending[b] \/ pending'[b] = NoClaim
            \/ pending[b] # NoClaim /\ pending'[b].user = pending[b].user
      BY SessionsEnding
    <2>q. QED BY <1>1, <2>1, <2>2, NamedKept DEF Typed, TypeOK
  <1>3. \A b \in Browser : session'[b].user # None => session'[b].user \in Here
    BY SessionsEnding, NothingTyped DEF Typed, TypeOK, SignedIn
  <1>4. Here' = Here
    BY <1>1 DEF Here
  <1>5. /\ session' \in [Browser -> Claim] /\ pending' \in [Browser -> Claim]
        /\ request' \in [Actor -> Request]
    BY SessionsEnding
  <1>q. QED BY <1>1, <1>2, <1>3, <1>4, <1>5 DEF Typed, TypeOK, SignedIn

\* What DeleteCommit does: the account, and the sessions it had, are gone.
LEMMA Deleting ==
  ASSUME Typed, NEW p \in Actor, DeleteCommit(p)
  PROVE  /\ Typed' /\ request[p].op = "delete" /\ request[p].user \in User
         /\ request'[p] = Idle /\ \A q \in Actor \ {p} : request'[q] = request[q]
         /\ Here' = Here \ {request[p].user}
         /\ \A v \in User : account'[v].login = account[v].login /\ account'[v].pw = account[v].pw
         /\ \A b \in Browser : session'[b] = session[b] \/ session'[b] = NoClaim
  <1> DEFINE u == request[p].user
  <1>1. u \in User /\ request[p].op = "delete"
    BY DEF DeleteCommit, Typed, Named, Known
  <1>2. /\ account' \in [User -> Account] /\ account'[u].state = "gone"
        /\ \A v \in User : /\ account'[v].login = account[v].login /\ account'[v].pw = account[v].pw
                           /\ v # u => account'[v] = account[v]
    BY <1>1 DEF DeleteCommit, Typed, TypeOK, Account
  <1>3. Here' = Here \ {u}
    BY <1>1, <1>2 DEF Here
  <1>4. /\ request' \in [Actor -> Request] /\ request'[p] = Idle
        /\ \A q \in Actor \ {p} : request'[q] = request[q]
    BY Responding DEF DeleteCommit
  <1>5. Named'
    <2>1. \A v \in User : account'[v].state = "new" => account[v].state = "new"
      BY <1>1, <1>2
    <2>q. QED BY <1>2, <1>4, <2>1, NamedKept DEF DeleteCommit
  <1>6. /\ session' \in [Browser -> Claim]
        /\ \A b \in Browser : (session'[b] = session[b] /\ session[b].user # u) \/ session'[b] = NoClaim
    BY NothingTyped DEF DeleteCommit, SessionsOf, Typed, TypeOK
  <1>7. \A b \in Browser : session'[b].user # None => session'[b].user \in Here'
    BY <1>3, <1>6, NothingTyped DEF Typed, TypeOK, SignedIn
  <1>8. Typed'
    BY <1>2, <1>4, <1>5, <1>6, <1>7 DEF DeleteCommit, historyVars, Typed, TypeOK, SignedIn
  <1>q. QED BY <1>1, <1>2, <1>3, <1>4, <1>6, <1>8

LEMMA CrashTyped ==
  ASSUME Typed, NEW p \in Actor, Crash(p)
  PROVE  /\ Typed' /\ request[p].op # "idle" /\ request'[p] = Idle
         /\ \A q \in Actor \ {p} : request'[q] = request[q]
  <1>1. request[p].op # "idle" /\ request[p].user \in User
    BY DEF Crash, Typed, Named, Known
  <1>2. /\ request' \in [Actor -> Request] /\ request'[p] = Idle
        /\ \A q \in Actor \ {p} : request'[q] = request[q]
    BY Responding DEF Crash
  <1>3. Named'
    BY <1>2, NamedKept DEF Crash, Typed, TypeOK
  <1>4. broken' \subseteq User
    BY <1>1 DEF Crash, Typed, TypeOK
  <1>q. QED BY <1>1, <1>2, <1>3, <1>4, OthersTyped DEF Crash, Typed, TypeOK

\* The steps there are.
LEMMA Steps ==
  ASSUME [Next]_vars
  PROVE  \/ \E b \in Browser : SignInStep(b) \/ WriteLogin(b)
         \/ \E p \in Actor : ChangeStep(p) \/ UpdateBegins(p)
         \/ \E u \in User : Activate(u)
         \/ UNCHANGED vars
  BY DEF Next, UpdateBegins, Actor

LEMMA TypedInductive == Typed /\ [Next]_vars => Typed'
  <1> SUFFICES ASSUME Typed, [Next]_vars PROVE Typed'
    OBVIOUS
  <1>1. ASSUME NEW b \in Browser, SignInStep(b) PROVE Typed'
    BY <1>1, SignInTyped
  <1>2. ASSUME NEW p \in Actor, ChangeStep(p) PROVE Typed'
    <2>1. CASE \E u \in User, pw \in Password, login \in BOOLEAN : Create(p, u, pw, login)
      BY <2>1, CreateTyped
    <2>2. CASE WritePassword(p)
      BY <2>2, PasswordWritten
    <2>3. CASE EndSessions(p)
      BY <2>3, EndingTyped
    <2>4. CASE \E u \in User : DeleteBegin(p, u)
      BY <2>4, ChangeBegins DEF DeleteBegin
    <2>5. CASE DeleteCommit(p)
      BY <2>5, Deleting
    <2>6. CASE Crash(p)
      BY <2>6, CrashTyped
    <2>q. QED BY <1>2, <2>1, <2>2, <2>3, <2>4, <2>5, <2>6 DEF ChangeStep
  <1>3. ASSUME NEW p \in Actor, UpdateBegins(p) PROVE Typed'
    BY <1>3, Updating
  <1>4. ASSUME NEW b \in Browser, WriteLogin(b) PROVE Typed'
    BY <1>4, LoginWritten
  <1>5. ASSUME NEW u \in User, Activate(u) PROVE Typed'
    BY <1>5, ActivateTyped
  <1>6. CASE UNCHANGED vars
    BY <1>6 DEF vars, historyVars, Typed, TypeOK, Named, Known, Here, SignedIn
  <1>q. QED BY <1>1, <1>2, <1>3, <1>4, <1>5, <1>6, Steps

LEMMA TypedInitially == Init => Typed
  <1> SUFFICES ASSUME Init PROVE Typed
    OBVIOUS
  <1>1. account \in [User -> Account] /\ \A u \in User : account[u].pw \in Password \cup {None}
    BY DEF Init, Account
  <1>2. meant \in [User -> Password \cup {None}]
    BY <1>1 DEF Init
  <1>3. \A p \in Actor : request[p] = Idle
    BY DEF Init
  <1>4. \A b \in Browser : session[b] = NoClaim /\ pending[b] = NoClaim
    BY DEF Init
  <1>5. TypeOK
    BY <1>1, <1>2, <1>4, NothingTyped, ChangesAreCounted DEF Init, TypeOK, SignedIn
  <1>q. QED BY <1>3, <1>4, <1>5, NothingTyped DEF Typed, Named

---------------------------------------------------------------------------
(* Requests one by one: who is left *)

OneByOne == ~overlap =>
  /\ raced = {}
  /\ Here # {}
  /\ \A p, q \in Actor : request[p].op # "idle" /\ request[q].op # "idle" => p = q
  /\ \A p \in Actor : request[p].op = "delete" => \E v \in Here : v # request[p].user

\* A step of one request, where the accounts that are there stay.
LEMMA OneByOneKept ==
  ASSUME Typed, OneByOne, overlap' = overlap, Here \subseteq Here', ~overlap => raced' \subseteq raced,
         NEW p \in Actor,
         \A q \in Actor \ {p} : request'[q].op = request[q].op /\ request'[q].user = request[q].user,
         request'[p].op # "idle" => request[p].op # "idle" \/ overlap \/ Quiet,
         request'[p].op = "delete" =>
           \/ request[p].op = "delete" /\ request'[p].user = request[p].user
           \/ \E v \in Here : v # request'[p].user
  PROVE  OneByOne'
  <1> SUFFICES ASSUME ~overlap PROVE OneByOne'
    BY DEF OneByOne
  <1>1. \A q, r \in Actor : request'[q].op # "idle" /\ request'[r].op # "idle" => q = r
    <2>1. CASE request'[p].op = "idle" \/ request[p].op # "idle"
      BY <2>1 DEF OneByOne
    <2>2. CASE Quiet
      BY <2>2, NothingTyped DEF Quiet
    <2>q. QED BY <2>1, <2>2
  <1>2. \A q \in Actor : request'[q].op = "delete" => \E v \in Here' : v # request'[q].user
    BY DEF OneByOne
  <1>q. QED BY <1>1, <1>2 DEF OneByOne

\* Where there is more than one, there is another.
LEMMA AnotherIsLeft ==
  ASSUME OthersAreLeft, NEW u PROVE \E v \in Here : v # u
  <1> SUFFICES ASSUME Here \subseteq {u} PROVE FALSE
    OBVIOUS
  <1>1. Here = {} \/ Here = {u}
    OBVIOUS
  <1>2. Cardinality({}) = 0 /\ Cardinality({u}) = 1
    BY FS_EmptySet, FS_Singleton
  <1>q. QED BY <1>1, <1>2 DEF OthersAreLeft

LEMMA OneByOneInductive == Typed /\ OneByOne /\ [Next]_vars => OneByOne'
  <1> SUFFICES ASSUME Typed, OneByOne, [Next]_vars PROVE OneByOne'
    OBVIOUS
  <1> USE DEF MayChange, MayStart, historyVars
  <1>0. Browser \subseteq Actor
    BY DEF Actor
  <1>1. ASSUME NEW b \in Browser, SignInStep(b) PROVE OneByOne'
    <2>1. account' = account \/ Rehash(b)
      BY <1>1 DEF SignInStep, VerifyPassword, PasswordDone, FactorDone, FactorLate,
           PasskeyDone, SessionEnds
    <2>2. overlap' = overlap /\ raced' = raced
      BY <1>1 DEF SignInStep, VerifyPassword, Rehash, PasswordDone, FactorDone, FactorLate,
           PasskeyDone, SessionEnds
    <2>3. Here' = Here
      <3>1. CASE account' = account
        BY <3>1 DEF Here
      <3>2. CASE Rehash(b)
        BY <3>2 DEF Rehash, Here, Typed, TypeOK, Account
      <3>q. QED BY <2>1, <3>1, <3>2
    <2>4. CASE \E u \in User, p \in Password : VerifyPassword(b, u, p)
      <3>1. PICK u \in User, p \in Password : VerifyPassword(b, u, p)
        BY <2>4
      <3>q. QED BY <1>0, <2>2, <2>3, <3>1, PasswordVerified, OneByOneKept
    <2>5. CASE Rehash(b) \/ PasswordDone(b)
      <3>1. request[b].op # "idle"
        BY <2>5 DEF Rehash, PasswordDone
      <3>2. /\ request'[b].op \in {"idle", "sign in"}
            /\ \A q \in Actor \ {b} : request'[q] = request[q]
        BY <1>0, <2>5, <3>1, Proceeding, Responding, NothingTyped DEF Rehash, PasswordDone
      <3>q. QED BY <1>0, <2>2, <2>3, <3>1, <3>2, OneByOneKept
    <2>6. CASE UNCHANGED request
      BY <2>2, <2>3, <2>6 DEF OneByOne
    <2>q. QED BY <1>1, <2>4, <2>5, <2>6 DEF SignInStep, FactorDone, FactorLate, PasskeyDone,
                   SessionEnds
  <1>2. ASSUME NEW p \in Actor, ChangeStep(p) PROVE OneByOne'
    <2>1. CASE \E u \in User, pw \in Password, login \in BOOLEAN : Create(p, u, pw, login)
      <3>1. PICK u \in User, pw \in Password, login \in BOOLEAN : Create(p, u, pw, login)
        BY <2>1
      <3>2. Here \subseteq Here'
        <4>1. /\ account[u].state = "new"
              /\ \A v \in User \ {u} : account'[v] = account[v]
          BY <3>1, CreateTyped DEF Create
        <4>q. QED BY <4>1 DEF Here
      <3>q. QED BY <3>1, <3>2 DEF Create, OneByOne
    <2>2. CASE WritePassword(p)
      <3>1. request[p].op = "password"
        BY <2>2 DEF WritePassword
      <3>2. Here' = Here
        BY <2>2, PasswordWritten DEF Here
      <3>3. /\ request'[p].op \in {"revoke", "login"}
            /\ \A q \in Actor \ {p} : request'[q] = request[q]
        BY <2>2, PasswordWritten
      <3>4. ~overlap => raced' \subseteq raced
        <4>1. ~overlap => ~Rehashing(request[p].user)
          BY <3>1 DEF OneByOne, Rehashing
        <4>q. QED BY <2>2, <4>1 DEF WritePassword
      <3>q. QED BY <2>2, <3>1, <3>2, <3>3, <3>4, OneByOneKept DEF WritePassword
    <2>3. CASE EndSessions(p)
      <3>1. overlap' = overlap /\ account' = account /\ raced' = raced
        BY <2>3 DEF EndSessions
      <3>2. Here' = Here
        BY <3>1 DEF Here
      <3>3. /\ request'[p].op = "idle"
            /\ \A q \in Actor \ {p} : request'[q].op = request[q].op /\ request'[q].user = request[q].user
        BY <2>3, SessionsEnding, NothingTyped
      <3>q. QED BY <3>1, <3>2, <3>3, OneByOneKept
    <2>4. CASE \E u \in User : DeleteBegin(p, u)
      <3>1. PICK u \in User : DeleteBegin(p, u)
        BY <2>4
      <3>2. /\ overlap \/ Quiet
            /\ u \in Here /\ OthersAreLeft /\ Start(p, "delete", u, None, FALSE)
            /\ overlap' = overlap /\ account' = account /\ raced' = raced
        BY <3>1 DEF DeleteBegin
      <3>3. Here' = Here
        BY <3>2 DEF Here
      <3>4. Started(p, "delete", u, None)
        BY <3>2, Starting
      <3>5. \E v \in Here : v # u
        BY <3>2, AnotherIsLeft
      <3>q. QED BY <3>2, <3>3, <3>4, <3>5, OneByOneKept DEF Started
    <2>5. CASE DeleteCommit(p)
      <3>1. overlap' = overlap /\ raced' = raced
        BY <2>5 DEF DeleteCommit
      <3>2. /\ request[p].op = "delete" /\ request'[p].op = "idle"
            /\ \A q \in Actor \ {p} : request'[q] = request[q]
            /\ Here' = Here \ {request[p].user}
        BY <2>5, Deleting, NothingTyped
      <3>3. ~overlap => Here' # {}
        BY <3>2 DEF OneByOne
      <3>4. ~overlap => \A q \in Actor : request'[q].op = "idle"
        BY <3>2 DEF OneByOne
      <3>q. QED BY <3>1, <3>3, <3>4 DEF OneByOne
    <2>6. CASE Crash(p)
      <3>1. overlap' = overlap /\ account' = account /\ raced' = raced
        BY <2>6 DEF Crash
      <3>2. Here' = Here
        BY <3>1 DEF Here
      <3>3. request'[p].op = "idle" /\ \A q \in Actor \ {p} : request'[q] = request[q]
        BY <2>6, CrashTyped, NothingTyped
      <3>q. QED BY <3>1, <3>2, <3>3, OneByOneKept
    <2>q. QED BY <1>2, <2>1, <2>2, <2>3, <2>4, <2>5, <2>6 DEF ChangeStep
  <1>3. ASSUME NEW p \in Actor, UpdateBegins(p) PROVE OneByOne'
    <2>1. Here' = Here
      BY <1>3, Updating DEF Here
    <2>2. request'[p].op # "delete"
      BY <1>3, Updating
    <2>q. QED BY <1>3, <2>1, <2>2, Updating, OneByOneKept
  <1>4. ASSUME NEW b \in Browser, WriteLogin(b) PROVE OneByOne'
    <2>1. request[b].op = "login" /\ overlap' = overlap /\ raced' = raced
      BY <1>4 DEF WriteLogin
    <2>2. Here' = Here
      BY <1>4, LoginWritten DEF Here
    <2>3. /\ request'[b].op \in {"revoke", "idle"}
          /\ \A q \in Actor \ {b} : request'[q] = request[q]
      BY <1>4, LoginWritten, NothingTyped
    <2>q. QED BY <1>0, <2>1, <2>2, <2>3, OneByOneKept
  <1>5. ASSUME NEW u \in User, Activate(u) PROVE OneByOne'
    <2>1. Here' = Here
      BY <1>5, ActivateTyped DEF Here
    <2>q. QED BY <1>5, <2>1 DEF Activate, OneByOne
  <1>6. CASE UNCHANGED vars
    BY <1>6 DEF vars, OneByOne, Here
  <1>q. QED BY <1>1, <1>2, <1>3, <1>4, <1>5, <1>6, Steps

LEMMA OneByOneInitially == Init => OneByOne
  BY NothingTyped DEF Init, OneByOne

---------------------------------------------------------------------------
(* The password last given is the password *)

\* Only accounts that raced have another, and only for those is another one in a
\* sign-in that has verified it.
Meant ==
  /\ \A u \in Here : account[u].pw = meant[u] \/ u \in raced
  /\ \A p \in Actor : request[p].op = "rehash" /\ request[p].user \in Here =>
       request[p].pw = account[request[p].user].pw \/ request[p].user \in raced

\* A step that gives nobody a password.
LEMMA MeantKept ==
  ASSUME Typed, Meant, Here' \subseteq Here, meant' = meant, raced' = raced,
         \A u \in Here : account'[u].pw = account[u].pw,
         \A p \in Actor : request'[p].op = "rehash" =>
           \/ /\ request[p].op = "rehash"
              /\ request'[p].user = request[p].user /\ request'[p].pw = request[p].pw
           \/ request'[p].user \in Here /\ request'[p].pw = account[request'[p].user].pw
  PROVE  Meant'
  <1>1. \A u \in Here' : account'[u].pw = meant'[u] \/ u \in raced'
    BY DEF Meant
  <1>2. ASSUME NEW p \in Actor, request'[p].op = "rehash", request'[p].user \in Here'
        PROVE  request'[p].pw = account'[request'[p].user].pw \/ request'[p].user \in raced'
    BY <1>2 DEF Meant
  <1>q. QED BY <1>1, <1>2 DEF Meant

\* Writing the hash again writes no other password, but of an account that raced.
LEMMA Rehashed ==
  ASSUME Typed, OneByOne, Meant, NEW b \in Browser, Rehash(b)
  PROVE  /\ request[b].op = "rehash" /\ Here' = Here /\ raced' = raced /\ meant' = meant
         /\ \A u \in User : /\ account'[u].login = account[u].login
                            /\ \/ account'[u].pw = account[u].pw
                               \/ u = request[b].user /\ overlap /\ u \in raced
         /\ request'[b].op = "sign in" /\ request'[b].user = request[b].user
         /\ request'[b].pw = request[b].pw /\ request'[b].late = request[b].late
         /\ \A q \in Actor \ {b} : request'[q] = request[q]
  <1> DEFINE u == request[b].user
  <1>1. b \in Actor /\ request[b].op = "rehash" /\ request[b].op # "idle"
    BY DEF Rehash, Actor
  <1>2. /\ request'[b].op = "sign in" /\ request'[b].user = request[b].user
        /\ request'[b].pw = request[b].pw /\ request'[b].late = request[b].late
        /\ \A q \in Actor \ {b} : request'[q] = request[q]
    BY <1>1, Proceeding DEF Rehash
  <1>3. \A v \in User : /\ account'[v].login = account[v].login
                        /\ account'[v].state = account[v].state
                        /\ \/ account'[v].pw = account[v].pw
                           \/ v = u /\ u \in Here /\ account'[u].pw = request[b].pw
    BY DEF Rehash, Typed, TypeOK, Account
  <1>4. u \in Here => request[b].pw = account[u].pw \/ (overlap /\ u \in raced)
    BY <1>1 DEF Meant, OneByOne
  <1>5. Here' = Here
    BY <1>3 DEF Here
  <1>6. raced' = raced /\ meant' = meant
    BY DEF Rehash, historyVars
  <1>q. QED BY <1>1, <1>2, <1>3, <1>4, <1>5, <1>6

LEMMA MeantInductive == Typed /\ OneByOne /\ Meant /\ [Next]_vars => Meant'
  <1> SUFFICES ASSUME Typed, OneByOne, Meant, [Next]_vars PROVE Meant'
    OBVIOUS
  <1>0. Browser \subseteq Actor
    BY DEF Actor
  <1>1. ASSUME NEW b \in Browser, SignInStep(b) PROVE Meant'
    <2>1. CASE Rehash(b)
      <3>1. \A u \in Here' : account'[u].pw = meant'[u] \/ u \in raced'
        BY <2>1, Rehashed DEF Meant, Here
      <3>2. ASSUME NEW p \in Actor, request'[p].op = "rehash", request'[p].user \in Here'
            PROVE  request'[p].pw = account'[request'[p].user].pw \/ request'[p].user \in raced'
        <4>1. request'[p] = request[p] /\ Here' = Here /\ raced' = raced
          BY <2>1, <3>2, Rehashed
        <4>2. request[p].pw = account[request[p].user].pw \/ request[p].user \in raced
          BY <3>2, <4>1 DEF Meant
        <4>3. request[p].user \in User
          BY <3>2, <4>1 DEF Here
        <4>q. QED BY <2>1, <4>1, <4>2, <4>3, Rehashed
      <3>q. QED BY <3>1, <3>2 DEF Meant
    <2>2. CASE \E u \in User, p \in Password : VerifyPassword(b, u, p)
      <3>1. PICK u \in User, p \in Password : VerifyPassword(b, u, p)
        BY <2>2
      <3>2. Here' = Here
        BY <3>1, PasswordVerified DEF Here
      <3>3. \A q \in Actor \ {b} : request'[q] = request[q]
        BY <3>1, PasswordVerified
      <3>4. request'[b].user \in Here /\ request'[b].pw = account[request'[b].user].pw
        <4>1. request'[b].user = u /\ request'[b].pw = p
          BY <3>1, PasswordVerified
        <4>2. u \in Here /\ account[u].pw = p
          BY <3>1, PasswordVerified
        <4>q. QED BY <4>1, <4>2
      <3>5. UNCHANGED <<account, meant, raced>>
        BY <3>1, PasswordVerified
      <3>q. QED BY <3>2, <3>3, <3>4, <3>5, MeantKept
    <2>3. CASE PasswordDone(b)
      <3>1. \A q \in Actor : request'[q] = request[q] \/ request'[q].op = "idle"
        BY <1>0, <2>3, Responding, NothingTyped DEF PasswordDone
      <3>2. account' = account /\ UNCHANGED historyVars
        BY <2>3 DEF PasswordDone
      <3>q. QED BY <3>1, <3>2, MeantKept DEF Here, historyVars
    <2>4. CASE UNCHANGED <<account, request, historyVars>>
      BY <2>4 DEF Meant, Here, historyVars
    <2>q. QED BY <1>1, <2>1, <2>2, <2>3, <2>4 DEF SignInStep, FactorDone, FactorLate,
                   PasskeyDone, SessionEnds
  <1>2. ASSUME NEW p \in Actor, ChangeStep(p) PROVE Meant'
    <2>1. CASE \E u \in User, pw \in Password, login \in BOOLEAN : Create(p, u, pw, login)
      <3>1. PICK u \in User, pw \in Password, login \in BOOLEAN : Create(p, u, pw, login)
        BY <2>1
      <3>2. /\ account[u].state = "new" /\ account'[u].state = "here"
            /\ \A v \in User \ {u} : account'[v] = account[v]
        BY <3>1, CreateTyped DEF Create, Typed, TypeOK
      <3>3. /\ meant'[u] = account'[u].pw /\ \A v \in User \ {u} : meant'[v] = meant[v]
            /\ raced' = raced /\ request' = request
        BY <3>1 DEF Create, Typed, TypeOK
      <3>4. \A q \in Actor : request[q].op = "rehash" => request[q].user # u
        BY <3>2 DEF Typed, Named, Known
      <3>5. Here' = Here \cup {u}
        BY <3>2 DEF Here
      <3>6. \A v \in Here' : account'[v].pw = meant'[v] \/ v \in raced'
        BY <3>2, <3>3, <3>5 DEF Meant, Here
      <3>7. ASSUME NEW q \in Actor, request'[q].op = "rehash", request'[q].user \in Here'
            PROVE  request'[q].pw = account'[request'[q].user].pw \/ request'[q].user \in raced'
        <4>1. request[q].op = "rehash" /\ request[q].user \in Here /\ request[q].user \in User \ {u}
          BY <3>3, <3>4, <3>5, <3>7 DEF Here
        <4>q. QED BY <3>2, <3>3, <4>1 DEF Meant
      <3>q. QED BY <3>6, <3>7 DEF Meant
    <2>2. CASE WritePassword(p)
      <3> DEFINE u == request[p].user
      <3>1. /\ Here' = Here /\ u \in User
            /\ \A v \in User : v # u => account'[v] = account[v] /\ meant'[v] = meant[v]
            /\ u \in Here => account'[u].pw = meant'[u]
            /\ \A q \in Actor : request'[q].op = "rehash" => request'[q] = request[q]
        <4>1. Here' = Here
          BY <2>2, PasswordWritten DEF Here
        <4>2. request'[p].op # "rehash"
          BY <2>2, PasswordWritten
        <4>q. QED BY <2>2, <4>1, <4>2, PasswordWritten
      <3>2. CASE u \notin Here
        <4>1. UNCHANGED <<account, meant, raced>>
          BY <2>2, <3>2 DEF WritePassword
        <4>q. QED BY <3>1, <4>1, MeantKept
      <3>3. CASE u \in Here
        <4>1. raced' = IF Rehashing(u) THEN raced \cup {u} ELSE raced \ {u}
          BY <2>2, <3>3 DEF WritePassword
        <4>2. \A v \in Here' : account'[v].pw = meant'[v] \/ v \in raced'
          BY <3>1, <4>1 DEF Meant, Here
        <4>3. ASSUME NEW q \in Actor, request'[q].op = "rehash", request'[q].user \in Here'
              PROVE  request'[q].pw = account'[request'[q].user].pw \/ request'[q].user \in raced'
          <5>1. request'[q] = request[q] /\ request[q].op = "rehash" /\ request[q].user \in Here
            BY <3>1, <4>3
          <5>2. CASE request[q].user = u
            BY <4>1, <5>1, <5>2 DEF Rehashing
          <5>3. CASE request[q].user # u
            <6>1. request[q].user \in User /\ account'[request[q].user] = account[request[q].user]
              BY <3>1, <5>1, <5>3 DEF Here
            <6>q. QED BY <4>1, <5>1, <5>3, <6>1 DEF Meant
          <5>q. QED BY <5>2, <5>3
        <4>q. QED BY <4>2, <4>3 DEF Meant
      <3>q. QED BY <3>2, <3>3
    <2>3. CASE EndSessions(p)
      <3>1. account' = account /\ UNCHANGED <<meant, raced>>
        BY <2>3 DEF EndSessions
      <3>2. \A q \in Actor : request'[q].op = "rehash" =>
              /\ request[q].op = "rehash"
              /\ request'[q].user = request[q].user /\ request'[q].pw = request[q].pw
        BY <2>3, SessionsEnding, NothingTyped
      <3>3. Here' = Here
        BY <3>1 DEF Here
      <3>q. QED BY <3>1, <3>2, <3>3, MeantKept
    <2>4. CASE \E u \in User : DeleteBegin(p, u)
      <3>1. PICK u \in User : DeleteBegin(p, u)
        BY <2>4
      <3>2. /\ u \in Here /\ Start(p, "delete", u, None, FALSE)
            /\ UNCHANGED <<account, meant, raced>>
        BY <3>1 DEF DeleteBegin, historyVars
      <3>3. Started(p, "delete", u, None)
        BY <3>2, Starting
      <3>4. Here' = Here
        BY <3>2 DEF Here
      <3>q. QED BY <3>2, <3>3, <3>4, MeantKept DEF Started
    <2>5. CASE DeleteCommit(p)
      <3>1. UNCHANGED <<meant, raced>>
        BY <2>5 DEF DeleteCommit, historyVars
      <3>2. \A q \in Actor : request'[q] = request[q] \/ request'[q].op = "idle"
        BY <2>5, Deleting, NothingTyped
      <3>3. Here' \subseteq Here /\ \A v \in Here : account'[v].pw = account[v].pw
        BY <2>5, Deleting DEF Here
      <3>q. QED BY <3>1, <3>2, <3>3, MeantKept
    <2>6. CASE Crash(p)
      <3>1. account' = account /\ UNCHANGED <<meant, raced>>
        BY <2>6 DEF Crash
      <3>2. \A q \in Actor : request'[q] = request[q] \/ request'[q].op = "idle"
        BY <2>6, CrashTyped, NothingTyped
      <3>3. Here' = Here
        BY <3>1 DEF Here
      <3>q. QED BY <3>1, <3>2, <3>3, MeantKept
    <2>q. QED BY <1>2, <2>1, <2>2, <2>3, <2>4, <2>5, <2>6 DEF ChangeStep
  <1>3. ASSUME NEW p \in Actor, UpdateBegins(p) PROVE Meant'
    <2>1. account' = account /\ UNCHANGED <<meant, raced>>
      BY <1>3, Updating
    <2>2. \A q \in Actor : request'[q] = request[q] \/ request'[q].op # "rehash"
      BY <1>3, Updating
    <2>3. Here' = Here
      BY <2>1 DEF Here
    <2>q. QED BY <2>1, <2>2, <2>3, MeantKept
  <1>4. ASSUME NEW b \in Browser, WriteLogin(b) PROVE Meant'
    <2>1. UNCHANGED <<meant, raced>>
      BY <1>4 DEF WriteLogin
    <2>2. \A q \in Actor : request'[q] = request[q] \/ request'[q].op # "rehash"
      BY <1>4, LoginWritten, NothingTyped
    <2>3. Here' = Here /\ \A v \in Here : account'[v].pw = account[v].pw
      BY <1>4, LoginWritten DEF Here
    <2>q. QED BY <2>1, <2>2, <2>3, MeantKept
  <1>5. ASSUME NEW u \in User, Activate(u) PROVE Meant'
    <2>1. UNCHANGED <<request, meant, raced>>
      BY <1>5 DEF Activate, historyVars
    <2>2. Here' = Here /\ \A v \in Here : account'[v].pw = account[v].pw
      BY <1>5, ActivateTyped DEF Here
    <2>q. QED BY <2>1, <2>2, MeantKept
  <1>6. CASE UNCHANGED vars
    BY <1>6 DEF vars, historyVars, Meant, Here
  <1>q. QED BY <1>1, <1>2, <1>3, <1>4, <1>5, <1>6, Steps

LEMMA MeantInitially == Init => Meant
  <1> SUFFICES ASSUME Init PROVE Meant
    OBVIOUS
  <1>1. \A u \in User : meant[u] = account[u].pw
    BY DEF Init
  <1>q. QED BY <1>1, NothingTyped DEF Init, Meant, Here

---------------------------------------------------------------------------
(* What a sign-in rests on *)

\* Every session begun with a password, every sign-in that waits and every one under
\* way rests on the account's password, or is excused.
Rested ==
  /\ OldPasswordEnds
  /\ \A b \in Browser : pending[b] # NoClaim =>
       RestsOn(pending[b].user, pending[b].pw, pending[b].late)
  /\ \A p \in Actor : SigningIn(p) => RestsOn(request[p].user, request[p].pw, request[p].late)
  /\ \A p \in Actor : request[p].op = "password" => request[p].pw # None

\* A step after which everything rests on what it rested on.
Steady ==
  \A u \in User : Known(u) =>
    \A pw, late : RestsOn(u, pw, late) => RestsOn(u, pw, late)'

\* What a change that is about to end sessions excuses lasts, but for the one that
\* takes the step.
LEMMA EndingKept ==
  ASSUME NEW p \in Actor, NEW u, Ending(u),
         \A q \in Actor \ {p} : request'[q] = request[q],
         \/ request[p].user # u
         \/ request[p].op # "revoke" /\ (request[p].op = "login" => request[p].pw = None)
  PROVE  Ending(u)'
  BY DEF Ending

LEMMA RestsKept ==
  ASSUME NEW u, NEW pw, NEW late, RestsOn(u, pw, late), overlap' = overlap,
         account'[u].login = account[u].login \/ u \in broken' \/ Ending(u)',
         account'[u].pw = account[u].pw \/ (overlap /\ u \in raced') \/ Ending(u)',
         u \in broken => u \in broken' \/ Ending(u)',
         u \in raced => u \in raced' \/ Ending(u)',
         Ending(u) => u \in broken' \/ Ending(u)'
  PROVE  RestsOn(u, pw, late)'
  BY DEF RestsOn

\* A claim and a request that a step leaves behind, and what they rest on then.
Resting(c) == \E u, pw, late :
  u = c.user /\ pw = c.pw /\ late = c.late /\ RestsOn(u, pw, late)'

LEMMA RestedAfter ==
  ASSUME \A b \in Browser : session'[b].user # None /\ session'[b].pw # None => Resting(session'[b]),
         \A b \in Browser : pending'[b] # NoClaim => Resting(pending'[b]),
         \A p \in Actor : SigningIn(p)' => Resting(request'[p]),
         \A p \in Actor : request'[p].op = "password" => request'[p].pw # None
  PROVE  Rested'
  <1>1. ASSUME NEW b \in Browser, (SignedIn(b) /\ session[b].pw # None)'
        PROVE  RestsOn(session[b].user, session[b].pw, session[b].late)'
    BY <1>1 DEF Resting, RestsOn, Ending, SignedIn
  <1>2. ASSUME NEW b \in Browser, pending'[b] # NoClaim
        PROVE  RestsOn(pending[b].user, pending[b].pw, pending[b].late)'
    BY <1>2 DEF Resting, RestsOn, Ending
  <1>3. ASSUME NEW p \in Actor, SigningIn(p)'
        PROVE  RestsOn(request[p].user, request[p].pw, request[p].late)'
    BY <1>3 DEF Resting, RestsOn, Ending
  <1>4. OldPasswordEnds'
    BY <1>1 DEF OldPasswordEnds
  <1>5. NoClaim' = NoClaim
    BY DEF NoClaim, ClaimOf
  <1>q. QED BY <1>2, <1>3, <1>4, <1>5 DEF Rested

\* The claim a request makes once its password is verified
ClaimBy(p) == ClaimOf(request[p].user, request[p].pw, request[p].late)

\* A sign-in goes from a request to one that waits, and from there to a session.
LEMMA RestedKept ==
  ASSUME Typed, Rested, Steady,
         \A b \in Browser : session'[b].user # None /\ session'[b].pw # None =>
           \/ session'[b] = session[b]
           \/ session'[b] = pending[b] /\ pending[b] # NoClaim
           \/ \E p \in Actor : SigningIn(p) /\ session'[b] = ClaimBy(p),
         \A b \in Browser : pending'[b] # NoClaim =>
           \/ pending'[b] = pending[b]
           \/ \E p \in Actor : SigningIn(p) /\ pending'[b] = ClaimBy(p),
         \A p \in Actor : SigningIn(p)' =>
           \/ /\ SigningIn(p) /\ request'[p].user = request[p].user
              /\ request'[p].pw = request[p].pw /\ request'[p].late = request[p].late
           \/ Resting(request'[p]),
         \A p \in Actor : request'[p].op = "password" => request'[p] = request[p] \/ request'[p].pw # None
  PROVE  Rested'
  <1>1. \A p \in Actor : /\ ClaimBy(p).user = request[p].user
                         /\ ClaimBy(p).pw = request[p].pw /\ ClaimBy(p).late = request[p].late
    BY DEF ClaimBy, ClaimOf
  <1>2. \A u, pw, late : Known(u) /\ RestsOn(u, pw, late) => RestsOn(u, pw, late)'
    BY DEF Steady, Known
  <1>3. \A c : Known(c.user) /\ RestsOn(c.user, c.pw, c.late) => Resting(c)
    BY <1>2 DEF Resting, Known
  <1>4. ASSUME NEW p \in Actor, SigningIn(p)
        PROVE  /\ Resting(request[p])
               /\ Resting(ClaimBy(p))
    <2>1. Known(request[p].user)
      BY <1>4 DEF Typed, Named, SigningIn
    <2>2. RestsOn(request[p].user, request[p].pw, request[p].late)
      BY <1>4 DEF Rested
    <2>q. QED BY <1>1, <1>2, <2>1, <2>2 DEF Resting, Known
  <1>5. ASSUME NEW b \in Browser, pending[b] # NoClaim PROVE Resting(pending[b])
    BY <1>3, <1>5 DEF Typed, Named, Rested
  <1>6. ASSUME NEW b \in Browser, session[b].user # None, session[b].pw # None PROVE Resting(session[b])
    <2>1. Known(session[b].user)
      BY <1>6 DEF Typed, TypeOK, SignedIn, Here, Known
    <2>q. QED BY <1>3, <1>6, <2>1 DEF Rested, OldPasswordEnds, SignedIn
  <1>7. \A b \in Browser : session'[b].user # None /\ session'[b].pw # None => Resting(session'[b])
    BY <1>4, <1>5, <1>6
  <1>8. \A b \in Browser : pending'[b] # NoClaim => Resting(pending'[b])
    BY <1>4, <1>5
  <1>9. ASSUME NEW p \in Actor, SigningIn(p)' PROVE Resting(request'[p])
    BY <1>4, <1>9 DEF Resting
  <1>10. \A p \in Actor : request'[p].op = "password" => request'[p].pw # None
    BY DEF Rested
  <1>q. QED BY <1>7, <1>8, <1>9, <1>10, RestedAfter

\* A request ends, or goes on as another, that was about to end no sessions.
LEMMA SteadyRequests ==
  ASSUME Typed, UNCHANGED <<overlap, raced, broken>>, NEW p \in Actor,
         \A u \in User : Known(u) => account'[u].login = account[u].login /\ account'[u].pw = account[u].pw,
         \A q \in Actor \ {p} : request'[q] = request[q],
         request[p].op # "revoke" /\ (request[p].op = "login" => request[p].pw = None)
  PROVE  Steady
  <1> SUFFICES ASSUME NEW u \in User, Known(u), NEW pw, NEW late, RestsOn(u, pw, late)
               PROVE  RestsOn(u, pw, late)'
    BY DEF Steady
  <1>1. Ending(u) => Ending(u)'
    BY EndingKept
  <1>q. QED BY <1>1, RestsKept

LEMMA SignInRested ==
  ASSUME Typed, OneByOne, Meant, Rested, NEW b \in Browser, SignInStep(b)
  PROVE  Rested'
  <1>0. b \in Actor /\ Idle.op = "idle" /\ NoClaim.user = None
    BY NothingTyped DEF Actor
  <1>1. CASE \E u \in User, p \in Password : VerifyPassword(b, u, p)
    <2>1. PICK u \in User, p \in Password : VerifyPassword(b, u, p)
      BY <1>1
    <2>2. /\ UNCHANGED <<overlap, account, session, pending, raced, broken>>
          /\ request[b] = Idle
          /\ request'[b].op \in {"rehash", "sign in"}
          /\ \A q \in Actor \ {b} : request'[q] = request[q]
      BY <2>1, PasswordVerified
    <2>3. Steady
      BY <1>0, <2>2, SteadyRequests
    <2>4. RestsOn(u, p, FALSE)'
      <3>1. account[u].login /\ account[u].pw = p
        BY <2>1, PasswordVerified
      <3>q. QED BY <2>2, <3>1 DEF RestsOn
    <2>5. request'[b].user = u /\ request'[b].pw = p /\ request'[b].late = FALSE
      BY <2>1, PasswordVerified
    <2>6. Resting(request'[b])
      BY <2>4, <2>5 DEF Resting
    <2>7. \A p1 \in Actor : SigningIn(p1)' =>
           \/ /\ SigningIn(p1) /\ request'[p1].user = request[p1].user
              /\ request'[p1].pw = request[p1].pw /\ request'[p1].late = request[p1].late
           \/ Resting(request'[p1])
      BY <2>2, <2>6 DEF SigningIn
    <2>q. QED BY <2>2, <2>3, <2>7, RestedKept
  <1>2. CASE Rehash(b)
    <2>1. UNCHANGED <<overlap, session, pending, broken, raced>>
      BY <1>2 DEF Rehash, historyVars
    <2>2. Steady
      <3> SUFFICES ASSUME NEW u \in User, Known(u), NEW pw, NEW late, RestsOn(u, pw, late)
                   PROVE  RestsOn(u, pw, late)'
        BY DEF Steady
      <3>1. Ending(u) => Ending(u)'
        BY <1>0, <1>2, Rehashed, EndingKept
      <3>2. /\ account'[u].login = account[u].login
            /\ account'[u].pw = account[u].pw \/ (overlap /\ u \in raced)
        BY <1>2, Rehashed
      <3>q. QED BY <2>1, <3>1, <3>2, RestsKept
    <2>3. \A p \in Actor : SigningIn(p)' =>
            /\ SigningIn(p) /\ request'[p].user = request[p].user
            /\ request'[p].pw = request[p].pw /\ request'[p].late = request[p].late
      BY <1>2, Rehashed DEF SigningIn
    <2>4. \A p \in Actor : request'[p].op = "password" => request'[p] = request[p]
      BY <1>2, Rehashed
    <2>q. QED BY <2>1, <2>2, <2>3, <2>4, RestedKept
  <1>3. CASE PasswordDone(b)
    <2>1. /\ request[b].op = "sign in" /\ SigningIn(b)
          /\ request'[b] = Idle /\ \A q \in Actor \ {b} : request'[q] = request[q]
      BY <1>0, <1>3, Responding DEF PasswordDone, SigningIn
    <2>2. UNCHANGED <<overlap, account, raced, broken>>
      BY <1>3 DEF PasswordDone, historyVars
    <2>3. Steady
      BY <1>0, <2>1, <2>2, SteadyRequests
    <2>4. \A c \in Browser : /\ session'[c] = session[c] \/ session'[c] = ClaimBy(b)
                             /\ pending'[c] = pending[c] \/ pending'[c] = ClaimBy(b)
      BY <1>3 DEF PasswordDone, Establish, ClaimBy, Typed, TypeOK
    <2>5. \A p \in Actor : SigningIn(p)' => SigningIn(p) /\ request'[p] = request[p]
      BY <1>0, <2>1 DEF SigningIn
    <2>6. \A p \in Actor : request'[p].op = "password" => request'[p] = request[p]
      BY <1>0, <2>1
    <2>q. QED BY <1>0, <2>1, <2>3, <2>4, <2>5, <2>6, RestedKept
  <1>4. CASE FactorDone(b) \/ FactorLate(b) \/ SessionEnds(b) \/ \E u \in User : PasskeyDone(b, u)
    <2>1. UNCHANGED <<overlap, account, request, raced, broken>>
      BY <1>4 DEF FactorDone, FactorLate, SessionEnds, PasskeyDone, historyVars
    <2>2. Steady
      BY <2>1 DEF Steady, RestsOn, Ending
    <2>3. ClaimOf(None, None, FALSE).pw = None /\ \A u : ClaimOf(u, None, FALSE).pw = None
      BY DEF ClaimOf
    <2>4. \A c \in Browser : session'[c].user # None /\ session'[c].pw # None =>
            session'[c] = session[c] \/ (session'[c] = pending[c] /\ pending[c] # NoClaim)
      <3>1. CASE FactorDone(b)
        BY <3>1 DEF FactorDone, Establish, Typed, TypeOK
      <3>2. CASE FactorLate(b)
        BY <3>2 DEF FactorLate
      <3>3. CASE SessionEnds(b)
        BY <1>0, <3>3 DEF SessionEnds, Typed, TypeOK
      <3>4. CASE \E u \in User : PasskeyDone(b, u)
        <4>1. PICK u \in User : PasskeyDone(b, u)
          BY <3>4
        <4>2. session' = session \/ session' = [session EXCEPT ![b] = ClaimOf(u, None, FALSE)]
          BY <4>1 DEF PasskeyDone, Establish
        <4>q. QED BY <2>3, <4>2 DEF Typed, TypeOK
      <3>q. QED BY <1>4, <3>1, <3>2, <3>3, <3>4
    <2>5. \A c \in Browser : pending'[c] = pending[c] \/ pending'[c] = NoClaim
      BY <1>4 DEF FactorDone, FactorLate, SessionEnds, PasskeyDone, Typed, TypeOK
    <2>6. \A p \in Actor : SigningIn(p)' => SigningIn(p)
      BY <2>1 DEF SigningIn
    <2>q. QED BY <2>1, <2>2, <2>4, <2>5, <2>6, RestedKept
  <1>q. QED BY <1>1, <1>2, <1>3, <1>4 DEF SignInStep

LEMMA ChangeRested ==
  ASSUME Typed, OneByOne, Meant, Rested, NEW p \in Actor, ChangeStep(p)
  PROVE  Rested'
  <1>0. Idle.op = "idle" /\ NoClaim.user = None
    BY NothingTyped
  <1>1. CASE \E u \in User, pw \in Password, login \in BOOLEAN : Create(p, u, pw, login)
    <2>1. PICK u \in User, pw \in Password, login \in BOOLEAN : Create(p, u, pw, login)
      BY <1>1
    <2>2. UNCHANGED <<overlap, session, pending, request, raced, broken>> /\ account[u].state = "new"
      BY <2>1 DEF Create
    <2>3. \A v \in User : Known(v) => account'[v] = account[v]
      BY <2>1, <2>2, CreateTyped DEF Known
    <2>4. Steady
      BY <2>2, <2>3 DEF Steady, RestsOn, Ending
    <2>5. \A q \in Actor : SigningIn(q)' => SigningIn(q)
      BY <2>2 DEF SigningIn
    <2>q. QED BY <2>2, <2>4, <2>5, RestedKept
  <1>2. CASE WritePassword(p)
    <2> SUFFICES ASSUME NEW u, u = request[p].user PROVE Rested'
      OBVIOUS
    <2>1. /\ UNCHANGED <<overlap, session, pending, broken>>
          /\ request[p].op = "password"
          /\ raced' = raced \/ raced' = raced \cup {u} \/ raced' = raced \ {u}
      BY <1>2 DEF WritePassword
    <2>2. /\ request'[p].op \in {"revoke", "login"} /\ request'[p].user = u
          /\ request'[p].pw # None
          /\ \A q \in Actor \ {p} : request'[q] = request[q]
      BY <1>2, <2>1, PasswordWritten DEF Rested
    <2>3. Ending(u)'
      BY <2>2 DEF Ending
    <2>4. Steady
      <3> SUFFICES ASSUME NEW v \in User, Known(v), NEW pw, NEW late, RestsOn(v, pw, late)
                   PROVE  RestsOn(v, pw, late)'
        BY DEF Steady
      <3>1. CASE v = u
        <4>1. RestsOn(u, pw, late)'
          BY <2>3 DEF RestsOn
        <4>q. QED BY <3>1, <4>1
      <3>2. CASE v # u
        <4>1. Ending(v) => Ending(v)'
          BY <2>2, <3>2, EndingKept
        <4>2. account'[v] = account[v]
          BY <1>2, <3>2, PasswordWritten
        <4>3. v \in raced => v \in raced'
          BY <2>1, <3>2
        <4>q. QED BY <2>1, <4>1, <4>2, <4>3, RestsKept
      <3>q. QED BY <3>1, <3>2
    <2>5. \A q \in Actor : SigningIn(q)' => SigningIn(q) /\ request'[q] = request[q]
      BY <2>2 DEF SigningIn
    <2>6. \A q \in Actor : request'[q].op = "password" => request'[q] = request[q]
      BY <2>2
    <2>q. QED BY <2>1, <2>4, <2>5, <2>6, RestedKept
  <1>3. CASE EndSessions(p)
    <2> SUFFICES ASSUME NEW u, u = request[p].user PROVE Rested'
      OBVIOUS
    <2>1. /\ UNCHANGED <<overlap, account, raced>> /\ broken' = broken \ {u}
          /\ request[p].op = "revoke"
      BY <1>3 DEF EndSessions
    <2>2. \A q \in Actor \ {p} : /\ request'[q].op = request[q].op /\ request'[q].user = request[q].user
                                 /\ request'[q].pw = request[q].pw
      BY <1>3, SessionsEnding
    <2>3. ASSUME NEW v \in User, v # u, NEW pw, NEW late, RestsOn(v, pw, late)
          PROVE  RestsOn(v, pw, late)'
      <3>1. Ending(v) => Ending(v)'
        BY <2>2, <2>3 DEF Ending
      <3>q. QED BY <2>1, <2>3, <3>1, RestsKept
    <2>4. ASSUME overlap \/ u \in Factor, NEW pw
          PROVE  RestsOn(u, pw, TRUE)'
      BY <2>1, <2>4 DEF RestsOn
    <2>5. ASSUME NEW b \in Browser, session'[b].user # None, session'[b].pw # None
          PROVE  Resting(session'[b])
      <3>1. session'[b] = session[b] /\ session[b].user # u
        BY <1>0, <1>3, <2>5, SessionsEnding
      <3>2. session[b].user \in User /\ RestsOn(session[b].user, session[b].pw, session[b].late)
        BY <2>5, <3>1 DEF Typed, TypeOK, SignedIn, Here, Rested, OldPasswordEnds
      <3>q. QED BY <2>3, <3>1, <3>2 DEF Resting
    <2>6. ASSUME NEW b \in Browser, pending'[b] # NoClaim
          PROVE  Resting(pending'[b])
      <3>1. /\ pending[b] # NoClaim /\ pending'[b].user = pending[b].user /\ pending'[b].pw = pending[b].pw
            /\ pending'[b].late = (pending[b].late \/ pending[b].user = u)
        BY <1>3, <2>6, SessionsEnding
      <3>2. /\ pending[b].user \in User /\ pending[b].user \in Factor
            /\ RestsOn(pending[b].user, pending[b].pw, pending[b].late)
        BY <3>1 DEF Typed, Named, Known, Rested
      <3>3. CASE pending[b].user = u
        <4>1. pending'[b].late = TRUE
          BY <3>1, <3>3
        <4>q. QED BY <2>4, <3>1, <3>2, <3>3, <4>1 DEF Resting
      <3>4. CASE pending[b].user # u
        <4>1. pending'[b].late = pending[b].late
          BY <3>1, <3>4 DEF Typed, TypeOK, Claim
        <4>q. QED BY <2>3, <3>1, <3>2, <3>4, <4>1 DEF Resting
      <3>q. QED BY <3>3, <3>4
    <2>7. ASSUME NEW q \in Actor, SigningIn(q)'
          PROVE  Resting(request'[q])
      <3>0. q # p /\ SigningIn(q)
        BY <1>0, <1>3, <2>2, <2>7, SessionsEnding DEF SigningIn
      <3>1. /\ q # p /\ SigningIn(q) /\ request'[q].user = request[q].user /\ request'[q].pw = request[q].pw
            /\ request'[q].late = (request[q].late \/ (SigningIn(q) /\ request[q].user = u))
        BY <1>3, <3>0, SessionsEnding
      <3>2. request[q].user \in User /\ RestsOn(request[q].user, request[q].pw, request[q].late)
        BY <3>1 DEF Typed, Named, Known, Rested, SigningIn
      <3>3. CASE request[q].user = u
        <4>1. request'[q].late = TRUE
          BY <3>1, <3>3
        <4>2. overlap
          BY <2>1, <3>1 DEF OneByOne, SigningIn
        <4>q. QED BY <2>4, <3>1, <3>3, <4>1, <4>2 DEF Resting
      <3>4. CASE request[q].user # u
        <4>1. request'[q].late = request[q].late
          BY <3>1, <3>4 DEF Typed, TypeOK, Request
        <4>q. QED BY <2>3, <3>1, <3>2, <3>4, <4>1 DEF Resting
      <3>q. QED BY <3>3, <3>4
    <2>8. \A q \in Actor : request'[q].op = "password" => request'[q].pw # None
      BY <1>0, <1>3, SessionsEnding DEF Rested
    <2>q. QED BY <2>5, <2>6, <2>7, <2>8, RestedAfter
  <1>4. CASE \E u \in User : DeleteBegin(p, u)
    <2>1. PICK u \in User : DeleteBegin(p, u)
      BY <1>4
    <2>2. /\ u \in Here /\ Start(p, "delete", u, None, FALSE) /\ request[p] = Idle
          /\ UNCHANGED <<overlap, account, session, pending, raced, broken>>
      BY <2>1 DEF DeleteBegin, MayChange, MayStart, historyVars
    <2>3. Started(p, "delete", u, None)
      BY <2>2, Starting
    <2>4. /\ request'[p].op = "delete" /\ \A q \in Actor \ {p} : request'[q] = request[q]
      BY <2>3 DEF Started
    <2>5. Steady
      BY <1>0, <2>2, <2>4, SteadyRequests
    <2>6. \A q \in Actor : SigningIn(q)' => SigningIn(q) /\ request'[q] = request[q]
      BY <2>4 DEF SigningIn
    <2>7. \A q \in Actor : request'[q].op = "password" => request'[q] = request[q]
      BY <2>4
    <2>q. QED BY <2>2, <2>5, <2>6, <2>7, RestedKept
  <1>5. CASE DeleteCommit(p)
    <2>1. UNCHANGED <<overlap, pending, raced, broken>>
      BY <1>5 DEF DeleteCommit, historyVars
    <2>2. /\ request[p].op = "delete" /\ request'[p] = Idle
          /\ \A q \in Actor \ {p} : request'[q] = request[q]
          /\ \A v \in User : account'[v].login = account[v].login /\ account'[v].pw = account[v].pw
          /\ \A b \in Browser : session'[b] = session[b] \/ session'[b] = NoClaim
      BY <1>5, Deleting
    <2>3. Steady
      BY <2>1, <2>2, SteadyRequests
    <2>4. \A q \in Actor : SigningIn(q)' => SigningIn(q) /\ request'[q] = request[q]
      BY <1>0, <2>2 DEF SigningIn
    <2>5. \A q \in Actor : request'[q].op = "password" => request'[q] = request[q]
      BY <1>0, <2>2
    <2>q. QED BY <1>0, <2>1, <2>2, <2>3, <2>4, <2>5, RestedKept
  <1>6. CASE Crash(p)
    <2> SUFFICES ASSUME NEW u, u = request[p].user PROVE Rested'
      OBVIOUS
    <2>1. /\ UNCHANGED <<overlap, account, session, pending, raced>>
          /\ broken' = IF request[p].op = "revoke" \/ (request[p].op = "login" /\ request[p].pw # None)
                       THEN broken \cup {u} ELSE broken
      BY <1>6 DEF Crash
    <2>2. request'[p] = Idle /\ \A q \in Actor \ {p} : request'[q] = request[q]
      BY <1>6, CrashTyped
    <2>3. Steady
      <3> SUFFICES ASSUME NEW v \in User, Known(v), NEW pw, NEW late, RestsOn(v, pw, late)
                   PROVE  RestsOn(v, pw, late)'
        BY DEF Steady
      <3>1. CASE v \in broken'
        BY <3>1 DEF RestsOn
      <3>2. CASE v \notin broken'
        <4>1. v # u \/ (request[p].op # "revoke" /\ (request[p].op = "login" => request[p].pw = None))
          BY <2>1, <3>2
        <4>2. Ending(v) => Ending(v)'
          BY <2>2, <4>1, EndingKept
        <4>3. v \notin broken
          BY <2>1, <3>2
        <4>q. QED BY <2>1, <4>2, <4>3, RestsKept
      <3>q. QED BY <3>1, <3>2
    <2>4. \A q \in Actor : SigningIn(q)' => SigningIn(q) /\ request'[q] = request[q]
      BY <1>0, <2>2 DEF SigningIn
    <2>5. \A q \in Actor : request'[q].op = "password" => request'[q] = request[q]
      BY <1>0, <2>2
    <2>q. QED BY <2>1, <2>3, <2>4, <2>5, RestedKept
  <1>q. QED BY <1>1, <1>2, <1>3, <1>4, <1>5, <1>6 DEF ChangeStep

LEMMA RestedInductive == Typed /\ OneByOne /\ Meant /\ Rested /\ [Next]_vars => Rested'
  <1> SUFFICES ASSUME Typed, OneByOne, Meant, Rested, [Next]_vars PROVE Rested'
    OBVIOUS
  <1>0. Idle.op = "idle" /\ NoClaim.user = None
    BY NothingTyped
  <1>1. ASSUME NEW b \in Browser, SignInStep(b) PROVE Rested'
    BY <1>1, SignInRested
  <1>2. ASSUME NEW p \in Actor, ChangeStep(p) PROVE Rested'
    BY <1>2, ChangeRested
  <1>3. ASSUME NEW p \in Actor, UpdateBegins(p) PROVE Rested'
    <2>1. /\ UNCHANGED <<overlap, account, session, pending, raced, broken>>
          /\ request[p].op = "idle" /\ \A q \in Actor \ {p} : request'[q] = request[q]
      BY <1>0, <1>3, Updating
    <2>2. Steady
      BY <2>1, SteadyRequests
    <2>3. request'[p].op \in {"password", "login"} /\ (request'[p].op = "password" => request'[p].pw # None)
      BY <1>3, Updating
    <2>4. \A q \in Actor : SigningIn(q)' => SigningIn(q) /\ request'[q] = request[q]
      BY <2>1, <2>3 DEF SigningIn
    <2>q. QED BY <2>1, <2>2, <2>3, <2>4, RestedKept
  <1>4. ASSUME NEW b \in Browser, WriteLogin(b) PROVE Rested'
    <2> SUFFICES ASSUME NEW u, u = request[b].user PROVE Rested'
      OBVIOUS
    <2>0. b \in Actor /\ request[b].op = "login" /\ UNCHANGED <<overlap, session, pending, raced>>
      BY <1>4 DEF WriteLogin, Actor
    <2>1. /\ \A q \in Actor \ {b} : request'[q] = request[q]
          /\ \A v \in User : v # u => account'[v] = account[v]
          /\ \A v \in User : account'[v].pw = account[v].pw
          /\ u \in User /\ (u \in Here => account'[u].login = request[b].login)
          /\ u \notin Here => account' = account
      BY <1>4, LoginWritten
    <2>2. \/ broken' = broken /\ request'[b].op = "revoke" /\ request'[b].user = u
          \/ /\ ~EndsSessions(request[b]) /\ request'[b].op = "idle"
             /\ broken' = IF Overtaken(b) THEN broken \cup {u} ELSE broken
      BY <1>0, <1>4, LoginWritten
    <2>3. \/ Ending(u)'
          \/ u \in broken'
          \/ request[b].pw = None /\ account'[u].login = account[u].login
      <3>1. CASE request'[b].op = "revoke" /\ request'[b].user = u
        BY <2>0, <3>1 DEF Ending
      <3>2. CASE ~EndsSessions(request[b]) /\ broken' = IF Overtaken(b) THEN broken \cup {u} ELSE broken
        BY <2>1, <3>2 DEF EndsSessions, Overtaken
      <3>q. QED BY <2>2, <3>1, <3>2
    <2>4. Steady
      <3> SUFFICES ASSUME NEW v \in User, Known(v), NEW pw, NEW late, RestsOn(v, pw, late)
                   PROVE  RestsOn(v, pw, late)'
        BY DEF Steady
      <3>1. CASE v # u
        <4>1. Ending(v) => Ending(v)'
          BY <2>0, <2>1, <3>1, EndingKept
        <4>2. v \in broken => v \in broken'
          BY <2>2
        <4>q. QED BY <2>0, <2>1, <3>1, <4>1, <4>2, RestsKept
      <3>2. CASE v = u
        <4>1. CASE Ending(u)'
          BY <3>2, <4>1 DEF RestsOn
        <4>2. CASE u \in broken'
          BY <3>2, <4>2 DEF RestsOn
        <4>3. CASE request[b].pw = None /\ account'[u].login = account[u].login /\ u \notin broken'
          <5>1. Ending(u) => Ending(u)'
            BY <2>0, <2>1, <4>3, EndingKept
          <5>2. u \notin broken
            BY <2>2, <4>3
          <5>q. QED BY <2>0, <2>1, <3>2, <4>3, <5>1, <5>2, RestsKept
        <4>q. QED BY <2>3, <4>1, <4>2, <4>3
      <3>q. QED BY <3>1, <3>2
    <2>5. \A q \in Actor : SigningIn(q)' => SigningIn(q) /\ request'[q] = request[q]
      BY <2>1, <2>2 DEF SigningIn
    <2>6. \A q \in Actor : request'[q].op = "password" => request'[q] = request[q]
      BY <2>1, <2>2
    <2>q. QED BY <2>0, <2>4, <2>5, <2>6, RestedKept
  <1>5. ASSUME NEW u \in User, Activate(u) PROVE Rested'
    <2>1. UNCHANGED <<overlap, session, pending, request, raced, broken>>
      BY <1>5 DEF Activate, historyVars
    <2>2. Steady
      BY <1>5, <2>1, ActivateTyped DEF Steady, RestsOn, Ending
    <2>3. \A q \in Actor : SigningIn(q)' => SigningIn(q)
      BY <2>1 DEF SigningIn
    <2>q. QED BY <2>1, <2>2, <2>3, RestedKept
  <1>6. CASE UNCHANGED vars
    BY <1>6 DEF vars, historyVars, Rested, OldPasswordEnds, RestsOn, Ending, SigningIn, SignedIn
  <1>q. QED BY <1>1, <1>2, <1>3, <1>4, <1>5, <1>6, Steps

LEMMA RestedInitially == Init => Rested
  BY NothingTyped DEF Init, Rested, OldPasswordEnds, SigningIn, SignedIn

---------------------------------------------------------------------------
(* The accounts: what always holds *)

\* The inductive invariant: the names requests carry, who is left, whose password it
\* is, and what a sign-in rests on.
AccountsInv == Typed /\ OneByOne /\ Meant /\ Rested

\* The four parts together are inductive: what the statements of UserService's
\* callers, in no transaction, keep whatever request takes the next step.
THEOREM AccountsInvariance == Spec => []AccountsInv
  <1>1. Init => AccountsInv
    BY TypedInitially, OneByOneInitially, MeantInitially, RestedInitially DEF AccountsInv
  <1>2. AccountsInv /\ [Next]_vars => AccountsInv'
    BY TypedInductive, OneByOneInductive, MeantInductive, RestedInductive DEF AccountsInv
  <1>q. QED BY <1>1, <1>2, PTL DEF Spec

\* Accounts, sessions, sign-ins that wait and requests keep their types, and no
\* session outlives its account: user_sessions goes with the row it refers to.
THEOREM AccountsTypeCorrect == Spec => []TypeOK
  <1>1. AccountsInv => TypeOK
    BY DEF AccountsInv, Typed
  <1>q. QED BY <1>1, AccountsInvariance, PTL

\* UserDeleteHandler and user:delete leave an administrator's account where requests
\* do not overlap, however many accounts, browsers and changes there are: between
\* the count and the DELETE somebody else is there all the time.
THEOREM AdministratorStays == Spec => []AdministratorRemains
  <1>1. AccountsInv => AdministratorRemains
    BY DEF AccountsInv, OneByOne, AdministratorRemains
  <1>q. QED BY <1>1, AccountsInvariance, PTL

\* A password that UserUpdateHandler or user:set-password wrote is the account's
\* password until the next one is written: a sign-in that verified another before
\* and rehashes it after is the only way to lose it.
THEOREM PasswordSticks == Spec => []ChangeSticks
  <1>1. AccountsInv => ChangeSticks
    BY DEF AccountsInv, OneByOne, Meant, ChangeSticks
  <1>q. QED BY <1>1, AccountsInvariance, PTL

\* A session that began with a password rests on the password its account has now
\* and may sign in with, but for the windows RestsOn names: a change of one account
\* never lets an older password's session of another one live on.
THEOREM OldPasswordsEnd == Spec => []OldPasswordEnds
  <1>1. AccountsInv => OldPasswordEnds
    BY DEF AccountsInv, Rested
  <1>q. QED BY <1>1, AccountsInvariance, PTL
=============================================================================
