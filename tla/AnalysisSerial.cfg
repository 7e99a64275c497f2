\* One client at a time, who starts, resets and reviews; a crash and lost subtasks.
CONSTANTS
  Req = {r1}
  Key = {k1}
  NoKey = NoKey
  Ops = {"start", "reset", "review"}
  ForceFlag = {TRUE, FALSE}
  MaxJobs = 3
  MaxRequests = 4
  MaxCrashes = 1
  LosesTasks = TRUE
  LosesAnswers = FALSE
SPECIFICATION FairSpec
CHECK_DEADLOCK FALSE
INVARIANTS DocFollowsJob
PROPERTIES AnalysisEnds
