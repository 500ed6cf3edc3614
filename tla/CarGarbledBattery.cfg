SPECIFICATION Spec
CONSTANTS
  LowPct = 20
  HighPct = 90
  StateValues = {}
  ChargingValues = {}
  BatteryLevels = {50}
  PluggedValues = {TRUE, FALSE}
  UpdateValues = {}
  Geofences = {}
  DisplayNames = {}
  Models = {"Y"}
  Versions = {}
  DisplayStates = {}
  Odometers = {}
  MalformedFields = {"battery_level"}
  OtherFields = {}
  UnknownFields = {}
  RawFlags = {}
  MaxRawFields = 2
  MaxRaised = 1
  MaxRestarts = 1
INVARIANTS
  OnTimeEventsKnowBattery
