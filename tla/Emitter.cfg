SPECIFICATION FairSpec
CONSTANTS
  Keys = {k1, k2}
  Immediate = {live}
  MaxEvents = 4
INVARIANTS
  NewestIsKept
  MapHoldsNewest
  UntrackedByRace
  TwoTimersByRace
PROPERTIES
  EveryEventSettles
CHECK_DEADLOCK FALSE
