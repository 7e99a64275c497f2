\* Two clients, every operation, two analyses.
CONSTANTS
  Req = {r1, r2}
  Slot = {s1, s2}
  Ops = {"save", "decide", "reset", "reset_one", "reset_all"}
  MaxJobs = 2
  MaxRequests = 3
SPECIFICATION Spec
CHECK_DEADLOCK FALSE
SYMMETRY Symmetry
INVARIANTS SaveHoldsItsVersion  ReadyUnlessReopened
PROPERTIES ReviewLedgerSpec
