SPECIFICATION Spec
CONSTANTS
  Harnesses = {h1}
  Codex = {}
  Tools = {}
  Upstreams = {u1}
  Services = {s1}
  Commands = {c1}
  InitLive = {u1}
  EditValues = {u1}
  Serial = FALSE
  Crashes = FALSE
INVARIANTS
  OffMeansOff
