---------------------------- MODULE MCCarMachine ----------------------------
(***************************************************************************)
(* CarMachine for TLC.  The sessions of a car (drives, sleep, charges,     *)
(* geofences, the charger's plug, the raw map) hardly touch one another:   *)
(* each has topics of its own, and they share the battery level, the name  *)
(* and the queue of deferred events.  One run explores them one after the  *)
(* other, each with its own topics and values and without the product.     *)
(***************************************************************************)
EXTENDS CarMachine

(* The car has been told of these topics only, its names have never been    *)
(* saved, the process has not been restarted and no type of event has two   *)
(* safety nets asleep: those are ADeferral's.                               *)
Hears(topics) ==
  /\ cache = NoNames
  /\ restarts = 0
  /\ \A t \in EventTypes : deferred[t] <= 1
  /\ car.BatteryLevel # 20 /\ raised["battery_low"] = 0
  /\ car.initialized \subseteq topics \cup {"battery_level", "model"}

(* Nothing but a first charging_state depends on the grace period, and      *)
(* nothing but the tickers on Stop.                                         *)
Settling == link # "settled"
Running  == Settling /\ ~stopped

ADrive  == /\ Settling /\ ~rawEnabled
           /\ Hears({"state", "odometer"})
           /\ car.State \in {"", "online", "driving", "offline"}
           /\ raised["vehicle_falling_asleep"] = 0 /\ raised["vehicle_asleep"] < 2
ASleep  == /\ Running /\ ~rawEnabled
           /\ Hears({"state"})
           /\ raised["drive_started"] = 0 /\ "drive" \notin found
           /\ car.State \in {"", "online", "suspended", "asleep", "offline"}
ACharge == ~rawEnabled /\ Hears({"charging_state"})
AStay   == Running /\ ~rawEnabled /\ Hears({"geofence"})
APlug   == Running /\ ~rawEnabled /\ Hears({"plugged_in"})
RawMap  == /\ Running
           /\ Hears(OtherFields \cup {"active_route", "center_display_state"})

(* The record's name and battery level arrive late, or never, and a restart *)
(* may find the name in the cache.                                          *)
ADeferral == /\ Running /\ ~rawEnabled
             /\ cache.Model = ""
             /\ car.initialized \subseteq
                  {"update_available", "update_version", "display_name",
                   "battery_level"}

OneSession == ADrive \/ ASleep \/ ACharge \/ AStay \/ APlug \/ RawMap \/ ADeferral
=============================================================================
