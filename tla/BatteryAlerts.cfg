SPECIFICATION Spec
CONSTANTS
  LowPct = 10
  HighPct = 20
  Levels <- MCLevels
  MaxReadings = 5
INVARIANTS
  LowAlertsExact
  HighAlertsExact
CHECK_DEADLOCK FALSE
