SPECIFICATION Spec
CONSTANTS
  Harnesses = {h1}
  Codex = {h1}
  Tools = {}
  Upstreams = {u1}
  Services = {s1}
  Commands = {c1}
  InitLive = {"no-file", "no-url", u1}
  EditValues = {"no-file", "no-url", u1}
  Serial = FALSE
  Crashes = FALSE
INVARIANTS
  TypeOK
  SnapshotNeverOurs
