\* Two clients, every operation, one failure of any kind.
CONSTANTS
  Req = {r1, r2}
  Doc = {d1, d2}
  Src = {s1, s2}
  Url = {s2}
  Ops = {"upload", "create", "link", "attach", "delete_source", "delete_document", "delete_project"}
  Faults = {"crash", "storage", "answer"}
  MaxFaults = 1
  MaxRequests = 5
SPECIFICATION Spec
CHECK_DEADLOCK FALSE
SYMMETRY Symmetry
INVARIANTS RowHasFile FilesAccounted
PROPERTIES FrozenWhileAnalysed StoredObjectSpec
