\* Two suggestions, pages of one, two decisions taken back.
CONSTANTS
  Formats = {"docx", "text"}
  Paragraphs <- MCParagraphs
  Items <- MCItems
  Edits <- MCEdits
  PageSize = 1
  MaxRows = 2
  MaxResets = 2
SPECIFICATION Spec
CHECK_DEADLOCK FALSE
INVARIANTS KeptIsApplied OthersStay ExportComplete
