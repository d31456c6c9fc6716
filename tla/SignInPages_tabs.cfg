SPECIFICATION StartSpec
SYMMETRY Sym
CONSTANTS
  User = {u1, u2}
  NoUser = NoUser
  Tab = {t1, t2}
  NoTab = NoTab
  Run = {r1, r2}
  InUse = {u1}
INVARIANTS
  TypeOK
  BusyWhileAsking
PROPERTIES
  SignInHolds
  TicketsEnrolTheirOwn
