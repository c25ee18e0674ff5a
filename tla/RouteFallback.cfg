SPECIFICATION Spec
CONSTANTS
  Names <- MCNames
  Models = {m1}
  Keys = {k1, k2}
  m1 = m1
  k1 = k1
  k2 = k2
  KeyPrint <- MCKeyPrint
  Threads = {r1, r2}
  Settings <- MCSettings
  Calls <- MCCalls
  Archives <- MCArchives
  TTL = 1
  MaxRequests = 2
  MaxChanges = 2
CHECK_DEADLOCK FALSE
SYMMETRY ThreadSymmetry
INVARIANTS
  TypeOK
  NoNeedlessFailure
  ClientKeyStays
  
  EventsAlternate
PROPERTIES
  
  AtMostOnce
