SPECIFICATION Spec
CONSTANTS
  d1 = d1
  d2 = d2
  r1 = r1
  r2 = r2
  Devices = {d1, d2}
  Records = {r1, r2}
  SmallList = 0
  MaxEdits = 3
  MaxFaults = 1
INVARIANTS
PROPERTIES
  EditsSurvive
  OnlyAPersonRemoves
  NeverGoesBack
  Converges
