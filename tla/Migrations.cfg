\* One document, two old jobs; up, down and up again, a crash and two writes in between.
CONSTANTS
  Doc = {d1}
  None = None
  Targets = {"0001", "0012", "0032"}
  OldJobs = 2
  MaxCommands = 3
  MaxWrites = 2
  MaxCrashes = 1
SPECIFICATION Spec
CHECK_DEADLOCK FALSE
INVARIANTS UpgradeGoesThrough InProgressHasItsJob StatusTellsTheReview WritesAreTaken SchemaIsTheModels
