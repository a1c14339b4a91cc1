SPECIFICATION Spec
CONSTANTS
  p1 = p1
  p2 = p2
  s1 = s1
  s2 = s2
  e1 = e1
  e2 = e2
  Entries = {e1}
  Passwords = {p1, p2}
  Salts = {s1, s2}
  Copies <- OldOnes
  Callers = {c1}
  NoFile = NoFile
  NoKey = NoKey
  None = None
INVARIANT FileOpens
CHECK_DEADLOCK FALSE
