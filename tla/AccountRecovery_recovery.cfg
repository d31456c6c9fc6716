SPECIFICATION Spec
CONSTANTS
  User = {u1, u2}
  Browser = {b1}
  None = None
  Limit = 2
  MaxTicket = 2
  MaxCred = 2
  MaxSession = 1
SYMMETRY Symmetry
INVARIANTS
  TypeOK
  PendingHasNoLiveSession
  OneOpenTicket
  OpenTicketMeansPending
PROPERTY ContractHolds
CHECK_DEADLOCK FALSE
