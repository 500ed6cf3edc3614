SPECIFICATION Spec
CONSTANTS
  LowPct = 20
  HighPct = 90
  StateValues = {}
  ChargingValues = {}
  BatteryLevels = {50}
  PluggedValues = {}
  UpdateValues = {}
  Geofences = {"", "Home", "Work"}
  DisplayNames = {}
  Models = {"Y"}
  Versions = {}
  DisplayStates = {}
  Odometers = {}
  MalformedFields = {}
  OtherFields = {}
  UnknownFields = {}
  RawFlags = {}
  MaxRawFields = 2
  MaxRaised = 1
  MaxRestarts = 1
INVARIANTS
  ExitNamesFenceLeft
