--------------------------- MODULE MCBatteryAlerts ---------------------------
(* Levels on both sides of each threshold and of each edge of its deadband.  *)
EXTENDS BatteryAlerts

MCLevels == {10, 11, 13, 14, 17, 18, 20}
=============================================================================
