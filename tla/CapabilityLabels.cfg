SPECIFICATION Spec
CONSTANTS
  Harnesses = {"claude", "codex"}
  Rows <- MCRows
  Suggestion = "image"
  UnknownDefault = "text_only"
  Files <- MCFiles
  MaxSteps = 5
CHECK_DEADLOCK FALSE
INVARIANTS
  Precedence
  ShownDecides
  LoadIsStable
