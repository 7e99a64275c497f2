\* Three clients of one account, a lock after two failures.
CONSTANTS
  Req = {r1, r2, r3}
  MaxAttempts = 2
  Lockout = 2
  TokenLife = 2
  MaxTokens = 3
  MaxTime = 3
  MaxRequests = 6
SPECIFICATION Spec
CHECK_DEADLOCK FALSE
SYMMETRY Symmetry
INVARIANTS OneTokenPerLogin AnsweredTokenWorks AttemptsBounded
PROPERTY SessionLifeSpec
