SPECIFICATION Spec
CONSTANTS
  Commands = {w1, w2}
  Unlocked = {w1}
  MaxEdits = 2
  Clients = {t1}
  MaxRequests = 2
  Overlap = FALSE
CHECK_DEADLOCK FALSE
INVARIANTS
  TypeOK
  MarkIsTrue
  
PROPERTY
  FreshRoute
