SPECIFICATION Spec
CONSTANTS
  p1 = p1
  p2 = p2
  s1 = s1
  s2 = s2
  e1 = e1
  e2 = e2
  Entries = {e1, e2}
  Passwords = {p1, p2}
  Salts = {s1, s2}
  Copies <- Some
  Callers = {c1}
  NoFile = NoFile
  NoKey = NoKey
  None = None
INVARIANTS
  SaltGoesWithKey
  CacheIsTheFile
  ShownMeansOpen
PROPERTY NoCallDropsEntries
CHECK_DEADLOCK FALSE
