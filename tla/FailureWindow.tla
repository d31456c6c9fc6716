--------------------------- MODULE FailureWindow ---------------------------
(* What a failure limiter promises, said without a counter: the abstract    *)
(* specification behind RateLimitService and InstallRateLimitService.       *)
(* Its state is the list of the instants at which an attempt failed since   *)
(* the last success; the limiters keep three numbers instead.               *)
EXTENDS Integers, Sequences

CONSTANTS MaxAttempts,   \* failures that block the address
          BlockSeconds   \* length of a block, and of the failure window

(* The last failures form a streak of n when each of them came less than    *)
(* BlockSeconds after the one before it.                                    *)
StreakOf(failures, n) ==
  /\ Len(failures) >= n
  /\ \A i \in (Len(failures) - n + 2)..Len(failures) :
       failures[i] - failures[i - 1] < BlockSeconds

(* "After $maxAttempts failures the IP is blocked for $blockSeconds         *)
(* seconds.  A successful login/verification clears the counter."           *)
MustBlock(failures, now) ==
  /\ Len(failures) > 0
  /\ StreakOf(failures, MaxAttempts)
  /\ now < failures[Len(failures)] + BlockSeconds

(* What is left of this when failures get lost: some MaxAttempts of them,   *)
(* one after the other and perhaps with others in between, would do.        *)
Chain(failures, i, n) ==
  \A j \in 1..(n - 1) :
    i[j] < i[j + 1] /\ failures[i[j + 1]] - failures[i[j]] < BlockSeconds

MayBlock(failures, now) ==
  \E i \in [1..MaxAttempts -> 1..Len(failures)] :
    /\ Chain(failures, i, MaxAttempts)
    /\ now < failures[i[MaxAttempts]] + BlockSeconds
=============================================================================
