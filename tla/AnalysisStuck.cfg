\* One client starts an analysis while another cancels it.
CONSTANTS
  Req = {r1, r2}
  Key = {}
  NoKey = NoKey
  Ops = {"start", "cancel"}
  ForceFlag = {TRUE}
  MaxJobs = 1
  MaxRequests = 2
  MaxCrashes = 0
  LosesTasks = FALSE
  LosesAnswers = FALSE
SPECIFICATION Spec
CHECK_DEADLOCK FALSE
INVARIANTS CancelFreesDocument
