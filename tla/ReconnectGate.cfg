SPECIFICATION FairSpec
CONSTANTS
  Watches = {w1, w2, w3, w4}
  Max = 2
INVARIANTS
  SlotsCounted
PROPERTIES
  NoOvertaking
  KeepsThePromise
