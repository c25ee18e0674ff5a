SPECIFICATION StoreSpec
CONSTANTS
  Commands = {w1, w2}
  Unlocked = {}
  MaxEdits = 0
CHECK_DEADLOCK FALSE
INVARIANT
  UserWordStands
