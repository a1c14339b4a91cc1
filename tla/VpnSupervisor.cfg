SPECIFICATION FairSpec
CONSTANTS
  MaxRuns = 2
  MaxEngines = 2
  MaxCrashes = 1
  MaxRestarts = 1
  Callers = {c1}
INVARIANTS
  TypeOK
  OneEngine
  RunningIsKnown
  NoCorpse
PROPERTY
  StartIsAnswered
CHECK_DEADLOCK FALSE
