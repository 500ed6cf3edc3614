---------------------------- MODULE BatteryAlerts ----------------------------
(***************************************************************************)
(* A car's battery readings run through the two threshold latches, with    *)
(* the whole history kept, so that what the latches do step by step can be *)
(* compared with a definition over the history that has no latch at all.   *)
(***************************************************************************)
EXTENDS BatteryThresholds

CONSTANTS
  Levels,       (* the readings battery_level may carry                     *)
  MaxReadings   (* bound on the length of the history                       *)

ASSUME ReadingsAssumption == Levels \subseteq Int /\ MaxReadings \in Nat

VARIABLES
  n,                 (* number of readings checked so far                   *)
  reading,           (* reading[i] is the i-th one                          *)
  batteryLowFired,   (* CarState.batteryLowFired                            *)
  batteryHighFired,  (* CarState.batteryHighFired                           *)
  lowAt,             (* history: readings at which battery_low fired        *)
  highAt             (* history: readings at which battery_full fired       *)

vars == <<n, reading, batteryLowFired, batteryHighFired, lowAt, highAt>>

Init ==
  /\ n = 0
  /\ reading = [i \in {} |-> 0]
  /\ batteryLowFired = FALSE
  /\ batteryHighFired = FALSE
  /\ lowAt = {}
  /\ highAt = {}

(* One call of checkBatteryThresholds, for any reading but the first.       *)
Check(level) ==
  /\ n < MaxReadings
  /\ n' = n + 1
  /\ reading' = [i \in 1..(n + 1) |-> IF i = n + 1 THEN level ELSE reading[i]]
  /\ batteryLowFired' = LowLatch(level, batteryLowFired)
  /\ batteryHighFired' = HighLatch(level, batteryHighFired)
  /\ lowAt' = IF LowFires(level, batteryLowFired) THEN lowAt \cup {n + 1} ELSE lowAt
  /\ highAt' = IF HighFires(level, batteryHighFired) THEN highAt \cup {n + 1} ELSE highAt

Next == \E level \in Levels : Check(level)

Spec == Init /\ [][Next]_vars

-----------------------------------------------------------------------------
TypeOK ==
  /\ n \in 0..MaxReadings
  /\ reading \in [1..n -> Levels]
  /\ batteryLowFired \in BOOLEAN
  /\ batteryHighFired \in BOOLEAN
  /\ lowAt \subseteq 1..n
  /\ highAt \subseteq 1..n

(* Reading i opens an episode of alert levels: it is one, and the level has *)
(* left the deadband, to a recovered level, since every earlier one.        *)
Opens(i, alert, recovered) ==
  /\ reading[i] \in alert
  /\ \A j \in 1..(i - 1) :
       reading[j] \in alert => \E k \in j..i : reading[k] \in recovered

Openings(alert, recovered) == {i \in 1..n : Opens(i, alert, recovered)}

LowLevels     == {l \in Levels : l <= LowPct}
RechargedFrom == {l \in Levels : l >= LowPct + batteryThresholdReArmMargin}

HighLevels == {l \in Levels : l >= HighPct}
UsedFrom   == {l \in Levels : l <= HighPct - batteryThresholdReArmMargin}

(***************************************************************************)
(* battery_low fires exactly at the readings that open a low episode: none *)
(* is missed, and no jitter inside the deadband fires it again             *)
(* (machine.go:542, "a genuine recharge re-alerts but jitter and           *)
(* charging_state flaps don't").                                           *)
(***************************************************************************)
LowAlertsExact == lowAt = Openings(LowLevels, RechargedFrom)

(***************************************************************************)
(* The same for battery_full and the high threshold.                       *)
(***************************************************************************)
HighAlertsExact == highAt = Openings(HighLevels, UsedFrom)
=============================================================================
