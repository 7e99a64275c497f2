\* Termination of the subtask: two deliveries, one crash, a hung model is possible.
CONSTANTS
  Delivery = {d1, d2}
  Lease = 2
  SoftLimit = 1
  TimeLimit = 1
  BusyCountdown = 2
  BusyLimit = 1
  Backoff <- MCBackoff
  LlmLimit = 0
  MaxRetries = 1
  MaxCrashes = 1
  KillsOverdue = TRUE
  ClockSkew = 1
SPECIFICATION FairSpec
PROPERTIES EverySubtaskEnds SourceResultSpec
