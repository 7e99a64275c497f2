\* Two deliveries of one subtask, the pool kills overdue tasks.
CONSTANTS
  Delivery = {d1, d2}
  Lease = 2
  SoftLimit = 1
  TimeLimit = 1
  BusyCountdown = 2
  BusyLimit = 2
  Backoff <- MCBackoff
  LlmLimit = 1
  MaxRetries = 3
  MaxCrashes = 1
  KillsOverdue = TRUE
  ClockSkew = 1
SPECIFICATION Spec
SYMMETRY Symmetry
INVARIANTS BatchMatchesRow OneCaller HolderOwnsRow GivesUpOnlyOnNewClaim FullBudget
