SPECIFICATION FairSpec
CONSTANTS
  Cadences = {slow, fast}
  MaxSessions = 3
INVARIANTS
  ServedWhileActive
PROPERTIES
  LandsOnNextTick
  UpdatesKeepComing
CHECK_DEADLOCK FALSE
