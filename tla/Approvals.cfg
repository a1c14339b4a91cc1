SPECIFICATION Spec
CONSTANTS
  c1 = c1
  c2 = c2
  Calls = {c1, c2}
  Plans <- Both
  MaxPending = 1
  Cooldown = 1
  Window = 2
  MaxWithdrawals = 1
  Fuse = 1
  Unseen = 3
  Ceiling = 1
  MostPerCall = 1
  Notifies = FALSE
INVARIANTS
  FuseIsBounded
  NoOrphanQuestion
  RunsOnAYes
  TakenBack
PROPERTIES
  BrakeIsNotRationed
  EveryCallReturns
