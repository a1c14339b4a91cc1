SPECIFICATION CastSpec
CONSTANTS
  u1 = u1
  u2 = u2
  k1 = k1
  k2 = k2
  Users = {u1, u2}
  Keys = {k1, k2}
  KeyOf <- SameKey
  Casts <- ThreeCasts
  Runs = {1, 2, 3}
  Backends = {"authenticating", "error"}
  MaxQueue = 2
  MaxPolls = 2
  MaxStrays = 1
  NoRun = NoRun
  None = None
INVARIANTS
  OneSidecar
  StoppedIsDown
  NobodyIsCutUnseen
PROPERTIES
  DeletedIsStopped
  CallsReturn
CHECK_DEADLOCK FALSE
