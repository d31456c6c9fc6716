CONSTANTS
  Owner = {o1}
  Admin = {a1}
  Cli = cli
  Secret = {s1, s2}
  NoSecret = none
  MaxRow = 3
  Asked = {"auth.webauthn.add", "auth.totp.add", "auth.webauthn.delete", "auth.totp.delete", "auth.totp.reset", "auth.password.enable", "auth.password.disable", "auth.policy.change", "auth.recovery"}
  Overlap = FALSE
  MayCrash = TRUE
SPECIFICATION Spec
SYMMETRY Interchangeable
INVARIANTS TypeOK SignInPath
PROPERTY AnotherKeyConfirms
