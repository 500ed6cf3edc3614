----------------------------- MODULE Notification -----------------------------
(***************************************************************************)
(* buildNotification of state/machine.go: the arguments of a notification's*)
(* body and the tags (body_args_typed) by which the relay words some of    *)
(* them anew for each recipient.  What an index points at is nowhere       *)
(* checked by the program: the template and its index are two literals.    *)
(*                                                                         *)
(* A text is a pair: a number and its unit, or 0 and a name.  The words    *)
(* around the arguments are left out, and with them the fallback texts.    *)
(* The relay is external.                                                  *)
(***************************************************************************)
EXTENDS Integers, Sequences

CONSTANTS
  Geofences,     (* texts, <<0, "">> for none; one may read like a percentage *)
  BatteryLevels, Ranges, Energies, Limits, Powers,   (* 0: not known       *)
  Versions, Flags,   (* texts of update_version and update_available       *)
  Units,         (* "km" and "mi"                                          *)
  DistanceUnit   (* DISTANCE_UNIT                                          *)

None == <<0, "">>

Cars ==
  [Geofence : Geofences, BatteryLevel : BatteryLevels, UsableBattery : BatteryLevels,
   RatedRangeKm : Ranges, ChargeEnergyAdded : Energies, ChargeLimitSoc : Limits,
   ChargerPower : Powers, UpdateVersion : Versions, UpdateAvailable : Flags]

Texts == Int \X STRING

ASSUME NotificationAssumption ==
  /\ Geofences \cup Versions \cup Flags \subseteq Texts
  /\ None \in Geofences
  /\ \A v \in Versions \cup Flags : v[2] # "%"
  /\ BatteryLevels \cup Ranges \cup Energies \cup Limits \cup Powers \subseteq Nat
  /\ Units = {"km", "mi"} /\ DistanceUnit \in Units

VARIABLES
  car,    (* the CarState a notification is built from                     *)
  note    (* the notification; its key is "none" before there is one       *)

vars == <<car, note>>

-----------------------------------------------------------------------------
(* hasGeo, hasRange, hasEnergy, hasLimit.                                   *)
Has(c) ==
  {fact \in {"geo", "range", "energy", "limit"} :
     \/ fact = "geo" /\ c.Geofence # None
     \/ fact = "range" /\ c.RatedRangeKm > 0
     \/ fact = "energy" /\ c.ChargeEnergyAdded > 0
     \/ fact = "limit" /\ c.ChargeLimitSoc > 0}

NoRange == -1

(* One case of a switch: what it needs, the end of its loc key, the kinds   *)
(* of its arguments, and the index given to rangeArg.                       *)
Case(needs, key, kinds, rangeAt) ==
  [needs |-> needs, key |-> key, kinds |-> kinds, rangeAt |-> rangeAt]

Default == Case({}, "", <<"battery">>, NoRange)

Resting ==
  <<Case({"geo", "range"}, "full", <<"battery", "place", "range">>, 2),
    Case({"geo"}, "geofence", <<"battery", "place">>, NoRange),
    Case({"range"}, "range", <<"battery", "range">>, 1),
    Default>>

Sentry ==
  <<Case({"geo"}, "geofence", <<"place">>, NoRange),
    Case({}, "", <<>>, NoRange)>>

Driving ==
  <<Case({"geo", "range"}, "full", <<"place", "battery", "range">>, 2),
    Case({"geo"}, "geofence", <<"place", "battery">>, NoRange),
    Case({"range"}, "range", <<"battery", "range">>, 1),
    Default>>

Low ==
  <<Case({"geo", "range"}, "full", <<"place", "battery", "range">>, 2),
    Case({"range"}, "range", <<"battery", "range">>, 1),
    Case({"geo"}, "geofence", <<"place", "battery">>, NoRange),
    Default>>

Charging ==
  <<Case({"geo", "limit"}, "full", <<"place", "battery", "limit", "power">>, NoRange),
    Case({"limit"}, "limit", <<"battery", "limit", "power">>, NoRange),
    Case({"geo"}, "geofence", <<"place", "battery", "power">>, NoRange),
    Case({}, "", <<"battery", "power">>, NoRange)>>

(* A plausible slip: the index of the shorter templates.                    *)
ChargedCopied ==
  <<Case({"geo", "energy", "range"}, "full", <<"place", "battery", "energy", "range">>, 2),
    Case({"energy"}, "energy", <<"battery", "energy">>, NoRange),
    Case({"geo"}, "geofence", <<"place", "battery">>, NoRange),
    Default>>

Charged ==
  <<Case({"geo", "energy", "range"}, "full", <<"place", "battery", "energy", "range">>, 3),
    Case({"energy"}, "energy", <<"battery", "energy">>, NoRange),
    Case({"geo"}, "geofence", <<"place", "battery">>, NoRange),
    Default>>

Connected ==
  <<Case({"geo", "limit"}, "full", <<"place", "battery", "limit">>, NoRange),
    Case({"limit"}, "limit", <<"battery", "limit">>, NoRange),
    Case({"geo"}, "geofence", <<"place", "battery">>, NoRange),
    Default>>

Update == <<Case({}, "", <<"version">>, NoRange)>>

Crossing == <<Case({"range"}, "range", <<"battery", "range">>, 1), Default>>

(* The switch on the event's type.                                          *)
Templates ==
  [vehicle_falling_asleep |-> Resting, vehicle_asleep |-> Resting,
   vehicle_woke |-> Resting, sentry_recording |-> Sentry,
   drive_started |-> Driving, drive_ended |-> Driving,
   charging_started |-> Charging, charging_completed |-> Charged,
   charging_interrupted |-> Charged, battery_low |-> Low, battery_full |-> Charged,
   charger_connected |-> Connected, charger_disconnected |-> Charged,
   software_update |-> Update, geofence_entered |-> Crossing,
   geofence_exited |-> Crossing]

EventTypes == DOMAIN Templates

(* The first case whose condition holds.                                    *)
Chosen(cases, facts) ==
  cases[CHOOSE i \in DOMAIN cases :
          /\ cases[i].needs \subseteq facts
          /\ \A j \in 1..(i - 1) : ~(cases[j].needs \subseteq facts)]

-----------------------------------------------------------------------------
(* fmtRange, and the texts of the other arguments.                          *)
Percent(n) == <<n, "%">>

ArgText(kind, c, unit) ==
  [battery |-> Percent(c.BatteryLevel), place |-> c.Geofence,
   range |-> <<c.RatedRangeKm, unit>>, energy |-> <<c.ChargeEnergyAdded, "">>,
   limit |-> Percent(c.ChargeLimitSoc), power |-> <<c.ChargerPower, "">>,
   version |-> IF c.UpdateVersion # None THEN c.UpdateVersion ELSE c.UpdateAvailable][kind]

Tag(index, type, value) == [index |-> index, type |-> type, value |-> value]

(* A plausible slip: no break, so that the last equal text is tagged.       *)
BatteryAtLast(args, bat) ==
  {i \in 0..(Len(args) - 1) :
     args[i + 1] = bat /\ \A j \in (i + 1)..(Len(args) - 1) : args[j + 1] # bat}

(* The loop after the switch: the first text equal to the battery's.        *)
BatteryAt(args, bat) ==
  {i \in 0..(Len(args) - 1) :
     args[i + 1] = bat /\ \A j \in 0..(i - 1) : args[j + 1] # bat}

BuildNotification(event, c) ==
  LET case == Chosen(Templates[event], Has(c))
      args == [i \in 1..Len(case.kinds) |-> ArgText(case.kinds[i], c, DistanceUnit)]
  IN  [event |-> event, key |-> case.key, kinds |-> case.kinds, args |-> args,
       typed |->
         {Tag(i, "distance_km", c.RatedRangeKm) : i \in {case.rangeAt} \ {NoRange}}
         \cup {Tag(i, "battery_percent", c.BatteryLevel) :
                 i \in BatteryAt(args, Percent(c.BatteryLevel))}]

Nothing == [event |-> "none", key |-> "", kinds |-> <<>>, args |-> <<>>, typed |-> {}]

Init == car \in Cars /\ note = Nothing

Build(event) == note' = BuildNotification(event, car) /\ UNCHANGED car

Next == \E event \in EventTypes : Build(event)

Spec == Init /\ [][Next]_vars

-----------------------------------------------------------------------------
(* The relay, external: a tag of a type it knows replaces the argument it   *)
(* points at by the value in the recipient's unit, or by the usable level.  *)
TagTypes == {"distance_km", "battery_percent"}

Reworded(tag, unit) ==
  IF tag.type = "distance_km" THEN <<tag.value, unit>> ELSE Percent(car.UsableBattery)

Shown(known, unit) ==
  [i \in DOMAIN note.args |->
     LET tags == {tag \in note.typed : tag.index = i - 1 /\ tag.type \in known}
     IN  IF tags = {} THEN note.args[i] ELSE Reworded(CHOOSE tag \in tags : TRUE, unit)]

(* models.go:34 and machine.go:789: every recipient reads every range in    *)
(* their own unit, whatever DISTANCE_UNIT is, and no other argument becomes *)
(* a distance: the index and the template agree.                            *)
RangesInOwnUnit ==
  \A unit \in Units : \A i \in DOMAIN note.args :
    /\ Shown({"distance_km"}, unit)[i] =
         IF note.kinds[i] = "range" THEN <<car.RatedRangeKm, unit>> ELSE note.args[i]
    /\ note.kinds[i] = "range" => Shown(TagTypes, unit)[i] = <<car.RatedRangeKm, unit>>

(* machine.go:1163: the relay replaces the current battery level, in every  *)
(* template that has one, and never the charge limit, even when the two     *)
(* read alike; unless the geofence is named like the percentage, which the  *)
(* code takes for the level.                                                *)
OnlyBatteryReworded ==
  car.Geofence # Percent(car.BatteryLevel) =>
    \A unit \in Units : \A i \in DOMAIN note.args :
      Shown({"battery_percent"}, unit)[i] =
        IF note.kinds[i] = "battery" THEN Percent(car.UsableBattery) ELSE note.args[i]
=============================================================================
