SPECIFICATION StartSpec
SYMMETRY Symmetric
CONSTANTS
  User = {u1, u2}
  NoUser = NoUser
  Tab = {tab}
  NoTab = NoTab
  Run = {r1, r2}
  Screen = {"account", "users", "security", "enroll"}
  Op = {"enroll", "delete"}
  Initially = {{}, {"totp", "webauthn"}}
INVARIANTS
  TypeOK
  BusyWhileRegistering
  AskedIsDemanded
PROPERTIES
  FactorsAreConfirmed
  StepUpHolds
