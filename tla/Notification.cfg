SPECIFICATION Spec
CONSTANTS
  Geofences <- SomeGeofences
  Versions <- SomeVersions
  Flags <- SomeFlags
  BatteryLevels = {0, 80}
  Ranges = {0, 300}
  Energies = {0, 5}
  Limits = {0, 80, 90}
  Powers = {0, 5}
  Units = {"km", "mi"}
  DistanceUnit = "km"
INVARIANTS
  RangesInOwnUnit
  OnlyBatteryReworded
