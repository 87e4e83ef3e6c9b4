SPECIFICATION FairSpec
CONSTANTS
  Absent = Absent
  Idle = Idle
  Ids = {u1, u2}
  Emails = {e1, e2}
  Passwords = {ann, bob, weak}
  WellFormed = {ann, bob}
  Secrets = {key}
  Unset = Unset
  ChangeMe = ChangeMe
  Handlers = {h1}
  Day = 2
  Leeway = 1
  Slow = 1
  MaxTokens = 1
INVARIANTS
  TypeOK
  SessionsProved
  ClaimsSettle
PROPERTIES
  DeletedLockedOut
