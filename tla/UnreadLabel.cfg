SPECIFICATION Spec
CONSTANTS
  Harnesses = {"qwen-code"}
  Rows <- DirectRows
  Suggestion = "image"
  UnknownDefault = "text_only"
  Files <- NewFile
  MaxSteps = 2
CHECK_DEADLOCK FALSE
INVARIANT
  WordIsUsed
