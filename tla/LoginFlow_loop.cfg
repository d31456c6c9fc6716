SPECIFICATION Spec
CONSTANTS
  User = {u1}
  None = None
  PendingTime = 1
  ChallengeTime = 1
  Old = 2
  MaxChange = 0
PROPERTY SentSomewhere
