SPECIFICATION Spec
CONSTANTS
  a = a
  b = b
  c = c
  t1 = t1
  t2 = t2
  u1 = u1
  u2 = u2
  p1 = p1
  Ids = {a, b, c}
  Tags = {t1, t2}
  Urls = {u1, u2}
  Ports = {p1}
  Harnesses = {"qwen-code", "zcode"}
  Files <- MCFiles
  Globals = {"no url", u1}
  News <- MCNews
  MaxEdits = 2
INVARIANTS
  TypeOK
  Settles

  
  
  
