SPECIFICATION Spec
CONSTANTS
  User = {u1, u2}
  None = None
  PendingTime = 1
  ChallengeTime = 1
  Old = 2
  MaxChange = 1
INVARIANT TypeOK
PROPERTIES
  PasswordCameFirst
  OffTakesHold
  EnrolledBeforeWorkspace
  Settles
