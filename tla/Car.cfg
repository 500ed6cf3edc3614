SPECIFICATION FairSpec
CONSTANTS
  LowPct = 20
  HighPct = 90
  StateValues = {"online", "driving", "suspended", "asleep", "offline"}
  ChargingValues = {"Charging", "Complete", "Stopped"}
  BatteryLevels = {20, 50}
  PluggedValues = {TRUE, FALSE}
  UpdateValues = {TRUE, FALSE}
  Geofences = {"", "Home", "Work"}
  DisplayNames = {"", "Car"}
  Models = {"Y"}
  Versions = {"", "v1"}
  DisplayStates = {2, 7}
  Odometers = {100, 103}
  MalformedFields = {"active_route"}
  OtherFields = {"speed"}
  UnknownFields = {"tpms_pressure_fl"}
  RawFlags = {TRUE, FALSE}
  MaxRawFields = 2
  MaxRaised = 2
  MaxRestarts = 1
INVARIANTS
  TypeOK
  EveryEventAccounted
  PendingHasTimer
  DrivesPair
  TickerMatchesDriving
  DistanceWasDriven
  WakesFollowSleeps
  TickerMatchesCharging
  ChargesEnd
  FencesPair
  PlugsPair
  RawFollowsFlag
PROPERTIES
  DeliversEveryEvent
CONSTRAINT OneSession
