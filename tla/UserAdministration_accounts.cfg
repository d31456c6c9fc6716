CONSTANTS
  User = {u1, u2}
  Browser = {b1, b2}
  Cli = cli
  None = None
  Password = {p1, p2}
  Factor = {u1}
  Passkey = {u1}
  MaxChange = 2
SPECIFICATION Spec
SYMMETRY Interchangeable
INVARIANTS TypeOK AdministratorRemains ChangeSticks OldPasswordEnds
CHECK_DEADLOCK FALSE
