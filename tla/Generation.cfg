\* Two processes and three calls, one fault.
CONSTANTS
  Proc = {p1, p2}
  MaxRetries = 1
  TokenLife = 3
  DefaultLife = 2
  Margin = 1
  SoftLimit = 2
  MaxTime = 4
  MaxTokens = 2
  MaxCalls = 3
  MaxFaults = 1
SPECIFICATION Spec
CHECK_DEADLOCK FALSE
SYMMETRY Symmetry
INVARIANTS TakenTokenIsAlive RefusedWithNewToken
