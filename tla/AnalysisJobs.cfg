\* Two clients, every operation, losses and one crash.
CONSTANTS
  Req = {r1, r2}
  Key = {k1}
  NoKey = NoKey
  Ops = {"start", "cancel", "reset", "review"}
  ForceFlag = {TRUE}
  MaxJobs = 2
  MaxRequests = 3
  MaxCrashes = 1
  LosesTasks = TRUE
  LosesAnswers = TRUE
SPECIFICATION Spec
CHECK_DEADLOCK FALSE
SYMMETRY Symmetry
INVARIANTS OneActiveJob EnqueuedOnce SameKeySameJob NeverOrphaned
PROPERTY JobLifeSpec
