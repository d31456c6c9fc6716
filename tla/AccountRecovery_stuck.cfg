SPECIFICATION Spec
CONSTANTS
  User = {u1}
  Browser = {b1}
  None = None
  Limit = 1
  MaxTicket = 2
  MaxCred = 1
  MaxSession = 1
SYMMETRY Symmetry
INVARIANT RecoveryCanEnroll
CHECK_DEADLOCK FALSE
