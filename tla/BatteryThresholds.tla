-------------------------- MODULE BatteryThresholds --------------------------
(***************************************************************************)
(* The battery alert decision of state/machine.go: batteryThresholdEvents. *)
(* A latch per threshold remembers that the alert has fired; it is cleared *)
(* only by a level that has moved back past the threshold by the re-arm    *)
(* margin.  The operators are pure, as the Go method is: a level and a     *)
(* latch give the next latch and whether the alert fires.                  *)
(***************************************************************************)
EXTENDS Integers

CONSTANTS
  LowPct,      (* Manager.batteryLowPct, BATTERY_LOW_THRESHOLD             *)
  HighPct      (* Manager.batteryHighPct, BATTERY_HIGH_THRESHOLD           *)

\* The configuration accepts any integer for either threshold.
ASSUME ThresholdAssumption == LowPct \in Int /\ HighPct \in Int

batteryThresholdReArmMargin == 3

LowFires(level, fired)  == level <= LowPct /\ ~fired
HighFires(level, fired) == level >= HighPct /\ ~fired

\* A plausible slip: re-arm as soon as the level leaves the alert zone.
LowLatchNoMargin(level, fired) == level <= LowPct

LowLatch(level, fired) ==
  level <= LowPct \/ (fired /\ level < LowPct + batteryThresholdReArmMargin)

\* A plausible slip: the re-arm comparison excludes the deadband's edge.
HighLatchStrictEdge(level, fired) ==
  level >= HighPct \/ (fired /\ level >= HighPct - batteryThresholdReArmMargin)

HighLatch(level, fired) ==
  level >= HighPct \/ (fired /\ level > HighPct - batteryThresholdReArmMargin)
=============================================================================
