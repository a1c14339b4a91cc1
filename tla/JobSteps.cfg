SPECIFICATION FairSpec
CONSTANTS
  Hosts = {h1}
  NSteps = 2
  NWaves = 1
  WaveOf <- OneWave
  Concurrency = 1
  Gated = FALSE
  SlowHosts = {h1}
  MaxCrashes = 2
INVARIANTS
  AtMostOnce
PROPERTIES
  HandleKept
  StepsInOrder
  StartIsOnTheRow
  JobEnds
CHECK_DEADLOCK FALSE
