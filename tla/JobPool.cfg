SPECIFICATION FairSpec
CONSTANTS
  Hosts = {h1, h2}
  NSteps = 1
  NWaves = 1
  WaveOf <- OneWave
  Concurrency = 1
  Gated = FALSE
  SlowHosts = {}
  MaxCrashes = 0
INVARIANTS
  LiveRowIsFollowed
PROPERTIES
  JobEnds
CHECK_DEADLOCK FALSE
