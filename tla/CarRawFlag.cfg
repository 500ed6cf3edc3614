SPECIFICATION Spec
CONSTANTS
  LowPct = 20
  HighPct = 90
  StateValues = {}
  ChargingValues = {"Charging", "Stopped"}
  BatteryLevels = {50}
  PluggedValues = {}
  UpdateValues = {}
  Geofences = {}
  DisplayNames = {}
  Models = {}
  Versions = {}
  DisplayStates = {}
  Odometers = {}
  MalformedFields = {}
  OtherFields = {}
  UnknownFields = {}
  RawFlags = {TRUE, FALSE}
  MaxRawFields = 2
  MaxRaised = 1
  MaxRestarts = 0
INVARIANTS
  RawOffUnlessEnabled
