CONSTANTS
  Requests = {r1, r2, r3}
  MaxAttempts = 3
  BlockSeconds = 2
  MaxTime = 3
  MaxFailures = 6
SPECIFICATION LimiterSpec
SYMMETRY Symmetry
INVARIANTS
  LimiterTypeOK
  BlockedExactly
  OverrunBounded
  NeverEarly
CHECK_DEADLOCK FALSE
