SPECIFICATION StartSpec
SYMMETRY Symmetric
CONSTANTS
  User = {u1, u2}
  NoUser = NoUser
  Tab = {tab}
  NoTab = NoTab
  Run = {r1}
  Screen = {"users"}
  Op = {"passkey"}
  Initially = {{"totp", "webauthn"}}
INVARIANT EveryFormCanBeConfirmed
