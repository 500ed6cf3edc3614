SPECIFICATION Spec
CONSTANTS
  Cadences = {slow}
  MaxSessions = 1
INVARIANTS
  NoPanic
CHECK_DEADLOCK FALSE
