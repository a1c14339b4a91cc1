SPECIFICATION Spec
CONSTANTS
  h1 = h1
  h2 = h2
  Hosts = {h1, h2}
  NSteps = 1
  NWaves = 2
  WaveOf <- OneByOne
  Concurrency = 2
  Gated = TRUE
  SlowHosts = {}
  MaxCrashes = 1
INVARIANTS
  TypeOK
  WavesInOrder
  ClosedMeansSettled
PROPERTIES
  VerdictIsFinal
  SkippedWasNotReached
  DisposedStaysOpen
CHECK_DEADLOCK FALSE
