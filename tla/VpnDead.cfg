SPECIFICATION Spec
CONSTANTS
  u1 = u1
  u2 = u2
  k1 = k1
  k2 = k2
  Users = {u1}
  Keys = {k1, k2}
  KeyOf <- OwnKey
  Runs = {1, 2, 3}
  Backends = {"authenticating", "error"}
  MaxQueue = 2
  MaxPolls = 1
  MaxStrays = 1
  NoRun = NoRun
  None = None
PROPERTY DeadIsNoticed
CHECK_DEADLOCK FALSE
