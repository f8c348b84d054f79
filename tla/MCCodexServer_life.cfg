SPECIFICATION Spec
CONSTANTS
  s1 = s1
  k1 = k1
  Starters <- OneStarter
  Keepers <- OneKeeper
  MaxGens = 2
  MaxFrames = 1
  MaxOps = 2
  MaxBadWrites = 1
INVARIANT EveryGenerationHasOwner
INVARIANT LogIsWhole
INVARIANT MonitorFollows
