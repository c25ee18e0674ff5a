SPECIFICATION Spec
CONSTANTS
  Harnesses = {h1, h2}
  Codex = {h1}
  Tools = {t1}
  Upstreams = {u1, u2}
  Services = {s1, s2}
  Commands = {c1}
  InitLive = {u1}
  EditValues = {u2}
  Serial = TRUE
  Crashes = TRUE
SYMMETRY SlotSymmetry
INVARIANTS
  
  ServerIsReachable
  
PROPERTIES
  ReconcileConverges
