CONSTANTS
  Requests = {r1, r2, r3}
  Databases = {d1, d2}
  EnvPassword = TRUE
  MaxRuns = 4
  NoRequest = NoRequest
  NoConfig = NoConfig
SPECIFICATION Spec
SYMMETRY Symmetry
INVARIANTS
  TypeOK
  ConfigAfterRows
  LockedComplete
  NeverMixed
  ShownTicketWorks
PROPERTY ConfigKept
CHECK_DEADLOCK FALSE
