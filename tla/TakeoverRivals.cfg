SPECIFICATION LiveSpec
CONSTANTS
  Harnesses = {h1}
  Codex = {}
  Tools = {}
  Upstreams = {u1}
  Services = {s1, s2}
  Commands = {}
  InitLive = {"no-url"}
  EditValues = {}
  Serial = FALSE
  Crashes = TRUE
INVARIANTS
  LockDiscipline
PROPERTIES
  StartEnds
  LockIsLent
