---------------------- MODULE CarMachineSessionProofs ----------------------
(***************************************************************************)
(* Proofs about the sessions of CarMachine: drives and sleep, charges,     *)
(* stays in a geofence, the charger's plug.  What one topic's session      *)
(* depends on is changed by that topic's handler, by Stop and by Restart   *)
(* alone; the frame lemmas say so.                                         *)
(***************************************************************************)
EXTENDS CarMachineProofs

StateTypes ==
  {"drive_started", "drive_ended", "vehicle_falling_asleep", "vehicle_asleep", "vehicle_woke"}
ChargeTypes == {"charging_started", "charging_completed", "charging_interrupted"}
FenceTypes == {"geofence_entered", "geofence_exited"}
PlugTypes == {"charger_connected", "charger_disconnected"}
SessionTypes == StateTypes \cup ChargeTypes \cup FenceTypes \cup PlugTypes

(* What the invariants about the state topic read is left as it was.        *)
StateKept ==
  /\ car'.State = car.State /\ car'.driving = car.driving
  /\ ("state" \in car'.initialized) <=> ("state" \in car.initialized)
  /\ ("drive" \in found' <=> "drive" \in found) /\ ("sleep" \in found' <=> "sleep" \in found)
  /\ \A t \in StateTypes : raised'[t] = raised[t]
  /\ stopped' = stopped

(* And the same for charging_state.                                         *)
ChargeKept ==
  /\ car'.ChargingState = car.ChargingState /\ car'.liveActivity = car.liveActivity
  /\ ("charging_state" \in car'.initialized) <=> ("charging_state" \in car.initialized)
  /\ "charge" \in found' <=> "charge" \in found
  /\ \A t \in ChargeTypes : raised'[t] = raised[t]
  /\ stopped' = stopped

(* For geofence,                                                            *)
FenceKept ==
  /\ car'.Geofence = car.Geofence
  /\ ("geofence" \in car'.initialized) <=> ("geofence" \in car.initialized)
  /\ "fence" \in found' <=> "fence" \in found
  /\ \A t \in FenceTypes : raised'[t] = raised[t]

(* and for plugged_in.                                                      *)
PlugKept ==
  /\ car'.PluggedIn = car.PluggedIn
  /\ ("plugged_in" \in car'.initialized) <=> ("plugged_in" \in car.initialized)
  /\ "plug" \in found' <=> "plug" \in found
  /\ \A t \in PlugTypes : raised'[t] = raised[t]

SessionsKept == StateKept /\ ChargeKept /\ FenceKept /\ PlugKept

(* Dispatch counts the events it is given and no others.                    *)
LEMMA Uncounted ==
  ASSUME CountersOK, NEW events, NEW flushed, NEW c, Dispatch(events, flushed, c),
         NEW t \in EventTypes, t \notin events
  PROVE  raised'[t] = raised[t]
  BY DEF Dispatch, Ind, CountersOK

LEMMA Counted ==
  ASSUME CountersOK, NEW events, NEW flushed, NEW c, Dispatch(events, flushed, c),
         NEW t \in EventTypes
  PROVE  raised'[t] = raised[t] + Ind(t \in events)
  BY DEF Dispatch

(* The handlers of the other topics leave every session alone.              *)
LEMMA OtherHandlers ==
  ASSUME TypeOK, HandleMessage,
         ~ \E v \in StateValues : HandleState(v),
         ~ \E v \in ChargingValues : HandleChargingState(v),
         ~ \E g \in Geofences : HandleGeofence(g),
         ~ \E b \in PluggedValues : HandlePluggedIn(b)
  PROVE  SessionsKept
<1>0. CountersOK
  BY DEF TypeOK, CountersOK
<1> DEFINE Topics == {"state", "charging_state", "geofence", "plugged_in"}
           Kept(c) ==
             /\ c.State = car.State /\ c.driving = car.driving
             /\ c.ChargingState = car.ChargingState /\ c.liveActivity = car.liveActivity
             /\ c.Geofence = car.Geofence /\ c.PluggedIn = car.PluggedIn
             /\ \A f \in Topics : f \in c.initialized <=> f \in car.initialized
<1>1. ASSUME NEW events, NEW flushed, NEW c, Dispatch(events, flushed, c),
             events \cap SessionTypes = {}
      PROVE  \A t \in SessionTypes : raised'[t] = raised[t]
  BY <1>0, <1>1, Uncounted
     DEF SessionTypes, StateTypes, ChargeTypes, FenceTypes, PlugTypes, EventTypes
<1>2. ASSUME Kept(car'), stopped' = stopped, found' = found,
             \A t \in SessionTypes : raised'[t] = raised[t]
      PROVE  SessionsKept
  BY <1>2 DEF SessionsKept, StateKept, ChargeKept, FenceKept, PlugKept, SessionTypes
<1>3. \A f \in Fields \ Topics : Kept(Received(f)) /\ Received(f) \in CarState
  BY ReceivedType DEF Received, TypeOK, CarState
<1>4. ASSUME NEW level \in BatteryLevels, HandleBatteryLevel(level) PROVE SessionsKept
  <2>1. Kept(car')
    <3>1. Kept(Received("battery_level")) /\ Received("battery_level") \in CarState
      BY <1>3 DEF Fields, TypedFields
    <3>2. PICK r \in CarState : Kept(r) /\ 
                 \/ car' = [[r EXCEPT !.BatteryLevel = level] EXCEPT
                              !.batteryLowFired = LowLatch(level, @),
                              !.batteryHighFired = HighLatch(level, @)]
                 \/ car' = [r EXCEPT !.BatteryLevel = level]
      BY <1>4, <3>1 DEF HandleBatteryLevel
    <3> QED
      BY <3>2, ZenonT(60) DEF CarState
  <2>2. \A t \in SessionTypes : raised'[t] = raised[t]
    BY <1>4, <1>1 DEF HandleBatteryLevel, EmitAndFlush, BatteryEvents, SessionTypes, StateTypes, ChargeTypes, FenceTypes, PlugTypes
  <2> QED
    BY <1>4, <1>2, <2>1, <2>2 DEF HandleBatteryLevel
<1>5. ASSUME NEW b \in UpdateValues, HandleUpdateAvailable(b) PROVE SessionsKept
  <2>1. Kept(car')
    <3>1. Kept(Received("update_available")) /\ Received("update_available") \in CarState
      BY <1>3 DEF Fields, TypedFields
    <3>2. PICK r \in CarState : Kept(r) /\ car' = [r EXCEPT !.UpdateAvailable = b]
      BY <1>5, <3>1 DEF HandleUpdateAvailable
    <3> QED
      BY <3>2 DEF CarState
  <2>2. \A t \in SessionTypes : raised'[t] = raised[t]
    BY <1>5, <1>1 DEF HandleUpdateAvailable, Emit, SessionTypes, StateTypes, ChargeTypes, FenceTypes, PlugTypes
  <2> QED
    BY <1>5, <1>2, <2>1, <2>2 DEF HandleUpdateAvailable
<1>6. ASSUME NEW name \in DisplayNames, HandleDisplayName(name) PROVE SessionsKept
  <2>1. Kept(car')
    <3>1. Kept(Received("display_name")) /\ Received("display_name") \in CarState
      BY <1>3 DEF Fields, TypedFields
    <3>2. PICK r \in CarState : Kept(r) /\ car' = [r EXCEPT !.DisplayName = name]
      BY <1>6, <3>1 DEF HandleDisplayName
    <3> QED
      BY <3>2 DEF CarState
  <2>2. \A t \in SessionTypes : raised'[t] = raised[t]
    BY <1>6, <1>1 DEF HandleDisplayName, EmitAndFlush, SessionTypes, StateTypes, ChargeTypes, FenceTypes, PlugTypes
  <2> QED
    BY <1>6, <1>2, <2>1, <2>2 DEF HandleDisplayName
<1>7. ASSUME NEW model \in Models, HandleModel(model) PROVE SessionsKept
  <2>1. Kept(car')
    <3>1. Kept(Received("model")) /\ Received("model") \in CarState
      BY <1>3 DEF Fields, TypedFields
    <3>2. PICK r \in CarState : Kept(r) /\ car' = [r EXCEPT !.Model = model]
      BY <1>7, <3>1 DEF HandleModel
    <3> QED
      BY <3>2 DEF CarState
  <2>2. \A t \in SessionTypes : raised'[t] = raised[t]
    BY <1>7, <1>1 DEF HandleModel, EmitAndFlush, SessionTypes, StateTypes, ChargeTypes, FenceTypes, PlugTypes
  <2> QED
    BY <1>7, <1>2, <2>1, <2>2 DEF HandleModel
<1>8. ASSUME NEW version \in Versions, HandleUpdateVersion(version) PROVE SessionsKept
  <2>1. Kept(car')
    <3>1. Kept(Received("update_version")) /\ Received("update_version") \in CarState
      BY <1>3 DEF Fields, TypedFields
    <3>2. PICK r \in CarState : Kept(r) /\ car' = [r EXCEPT !.UpdateVersion = version]
      BY <1>8, <3>1 DEF HandleUpdateVersion
    <3> QED
      BY <3>2 DEF CarState
  <2>2. \A t \in SessionTypes : raised'[t] = raised[t]
    BY <1>8, <1>1 DEF HandleUpdateVersion, EmitAndFlush, SessionTypes, StateTypes, ChargeTypes, FenceTypes, PlugTypes
  <2> QED
    BY <1>8, <1>2, <2>1, <2>2 DEF HandleUpdateVersion
<1>9. ASSUME NEW s \in DisplayStates, HandleCenterDisplayState(s) PROVE SessionsKept
  <2>1. Kept(car')
    <3>1. Kept(Received("center_display_state")) /\ Received("center_display_state") \in CarState
      BY <1>3 DEF Fields, TypedFields
    <3>2. PICK r \in CarState : Kept(r) /\ car' = [r EXCEPT !.CenterDisplayState = s]
      BY <1>9, <3>1 DEF HandleCenterDisplayState
    <3> QED
      BY <3>2 DEF CarState
  <2>2. \A t \in SessionTypes : raised'[t] = raised[t]
    BY <1>9, <1>1 DEF HandleCenterDisplayState, Emit, SessionTypes, StateTypes, ChargeTypes, FenceTypes, PlugTypes
  <2> QED
    BY <1>9, <1>2, <2>1, <2>2 DEF HandleCenterDisplayState
<1>10. ASSUME NEW km \in Odometers, HandleOdometer(km) PROVE SessionsKept
  <2>1. Kept(car')
    <3>1. Kept(Received("odometer")) /\ Received("odometer") \in CarState
      BY <1>3 DEF Fields, TypedFields
    <3>2. PICK r \in CarState : Kept(r) /\ car' = [r EXCEPT !.Odometer = km]
      BY <1>10, <3>1 DEF HandleOdometer
    <3> QED
      BY <3>2 DEF CarState
  <2>2. \A t \in SessionTypes : raised'[t] = raised[t]
    BY <1>10, <1>1 DEF HandleOdometer, Emit, SessionTypes, StateTypes, ChargeTypes, FenceTypes, PlugTypes
  <2> QED
    BY <1>10, <1>2, <2>1, <2>2 DEF HandleOdometer
<1>11. ASSUME NEW f \in MalformedFields, HandleMalformed(f) PROVE SessionsKept
  <2>1. f \in Fields \ Topics
    BY CarAssumption DEF CarAssumption, Fields, TypedFields
  <2>2. Kept(car')
    BY <1>11, <1>3, <2>1 DEF HandleMalformed
  <2>3. \A t \in SessionTypes : raised'[t] = raised[t]
    BY <1>11, <1>1 DEF HandleMalformed, Emit
  <2> QED
    BY <1>11, <1>2, <2>2, <2>3 DEF HandleMalformed
<1>12. ASSUME NEW f \in OtherFields, HandleEnrichment(f) PROVE SessionsKept
  <2>1. f \in Fields \ Topics
    BY CarAssumption DEF CarAssumption, Fields, TypedFields
  <2>2. Kept(car')
    BY <1>12, <1>3, <2>1 DEF HandleEnrichment
  <2>3. \A t \in SessionTypes : raised'[t] = raised[t]
    BY <1>12, <1>1 DEF HandleEnrichment, Emit
  <2> QED
    BY <1>12, <1>2, <2>2, <2>3 DEF HandleEnrichment
<1> QED
  BY <1>4, <1>5, <1>6, <1>7, <1>8, <1>9, <1>10, <1>11, <1>12 DEF HandleMessage

-----------------------------------------------------------------------------
(* The charges need one more fact: before charging_state is first seen, no  *)
(* charge is known, so that finding one running counts it once.             *)
ChargeInv ==
  /\ ~Seen("charging_state") => car.ChargingState = "" /\ "charge" \notin found
  /\ TickerMatchesCharging
  /\ ChargesEnd

LEMMA ChargeHandler ==
  ASSUME TypeOK, ChargeInv, NEW v \in ChargingValues, HandleChargingState(v)
  PROVE  ChargeInv'
<1> DEFINE first == ~Seen("charging_state")
           resume == first /\ v = "Charging"
           prev == IF first THEN "" ELSE car.ChargingState
           moved == ChargingEdge(v)
           events == IF moved THEN ChargingEvents(prev, v) ELSE {}
<1>0. CountersOK
  BY DEF TypeOK, CountersOK
<1>1. /\ car'.ChargingState = v /\ "charging_state" \in car'.initialized
      /\ car'.liveActivity = IF moved \/ resume
                               THEN ChargingTicker(car.liveActivity, prev, v)
                               ELSE car.liveActivity
  <2>1. Received("charging_state") \in CarState
    BY ReceivedType DEF Fields, TypedFields, TypeOK
  <2>2. /\ Received("charging_state").liveActivity = car.liveActivity
        /\ "charging_state" \in Received("charging_state").initialized
    BY DEF Received, TypeOK, CarState
  <2> DEFINE on == IF moved \/ resume
                     THEN ChargingTicker(Received("charging_state").liveActivity, prev, v)
                     ELSE Received("charging_state").liveActivity
  <2>3. car' = [Received("charging_state") EXCEPT !.ChargingState = v, !.liveActivity = on]
    BY <2>1 DEF HandleChargingState, CarState
  <2> HIDE DEF on
  <2>4. car'.ChargingState = v /\ "charging_state" \in car'.initialized
        /\ car'.liveActivity = on
    BY <2>1, <2>2, <2>3 DEF CarState
  <2> QED
    BY <2>2, <2>4 DEF on
<1>2. \A t \in ChargeTypes : raised'[t] = raised[t] + Ind(t \in events)
  BY <1>0, Counted DEF HandleChargingState, Emit, ChargeTypes, EventTypes
<1>3. /\ "charge" \in found' <=> ("charge" \in found \/ (resume /\ ~moved))
      /\ stopped' = stopped
  BY DEF HandleChargingState, Found
<1>4. /\ "charging_started" \in events <=> (moved /\ v = "Charging")
      /\ "charging_completed" \in events <=> (moved /\ v = "Complete")
      /\ "charging_interrupted" \in events
           <=> (moved /\ prev = "Charging" /\ v \notin {"Complete", "Charging"})
  BY DEF ChargingEvents
<1>5. /\ raised["charging_started"] \in Nat /\ raised["charging_completed"] \in Nat
      /\ raised["charging_interrupted"] \in Nat
  BY DEF TypeOK, EventTypes
<1>6. /\ moved \in BOOLEAN /\ first \in BOOLEAN
      /\ moved = IF first THEN v = "Charging" /\ link = "settled" ELSE car.ChargingState # v
  BY DEF ChargingEdge, Seen
<1> HIDE DEF events, moved
<1>7. TickerMatchesCharging'
  BY <1>1, <1>3, <1>6 DEF TickerMatchesCharging, ChargeInv, ChargingTicker
<1>8. ChargesEnd'
  <2>1. /\ raised'["charging_started"]
             = raised["charging_started"] + (IF moved /\ v = "Charging" THEN 1 ELSE 0)
        /\ raised'["charging_completed"]
             = raised["charging_completed"] + (IF moved /\ v = "Complete" THEN 1 ELSE 0)
        /\ raised'["charging_interrupted"]
             = raised["charging_interrupted"]
                 + (IF moved /\ prev = "Charging" /\ v \notin {"Complete", "Charging"}
                      THEN 1 ELSE 0)
    BY <1>2, <1>4 DEF ChargeTypes, Ind
  <2>2. LET open == raised["charging_started"] + (IF "charge" \in found THEN 1 ELSE 0)
            ended == raised["charging_interrupted"]
                       + (IF car.ChargingState = "Charging" THEN 1 ELSE 0)
        IN  ended <= open /\ open <= ended + raised["charging_completed"]
    BY DEF ChargesEnd, ChargeInv, Ind
  <2>3. first => /\ car.ChargingState # "Charging" /\ prev # "Charging"
                 /\ "charge" \notin found
    <3>1. "" # "Charging"
      BY Zenon
    <3> QED
      BY <3>1 DEF ChargeInv
  <2> HIDE DEF first
  <2>4. LET open == raised'["charging_started"] + (IF "charge" \in found' THEN 1 ELSE 0)
            ended == raised'["charging_interrupted"]
                       + (IF v = "Charging" THEN 1 ELSE 0)
        IN  ended <= open /\ open <= ended + raised'["charging_completed"]
    <3>1. CASE moved
      BY <1>3, <1>5, <1>6, <2>1, <2>2, <2>3, <3>1
    <3>2. CASE ~moved
      BY <1>3, <1>5, <1>6, <2>1, <2>2, <2>3, <3>2
    <3> QED
      BY <3>1, <3>2
  <2> QED
    BY <1>1, <2>4 DEF ChargesEnd, Ind
<1> QED
  BY <1>1, <1>7, <1>8 DEF ChargeInv, Seen

-----------------------------------------------------------------------------
(* The drives and the sleeps need the same about the state topic.           *)
StateInv ==
  /\ ~Seen("state") => /\ car.State = ""
                       /\ "drive" \notin found /\ "sleep" \notin found
                       /\ raised["drive_started"] = 0
  /\ TickerMatchesDriving
  /\ DrivesPair
  /\ WakesFollowSleeps

LEMMA StateHandler ==
  ASSUME TypeOK, StateInv, NEW v \in StateValues, HandleState(v)
  PROVE  StateInv'
<1> DEFINE first == ~Seen("state")
           moved == Seen("state") /\ car.State # v
           events == IF moved THEN StateEvents(car.State, v) ELSE {}
<1>0. CountersOK
  BY DEF TypeOK, CountersOK
<1>1. /\ car'.State = v /\ "state" \in car'.initialized
      /\ car'.driving = IF moved /\ v = "driving" THEN TRUE
                        ELSE IF moved /\ car.State = "driving" THEN FALSE
                        ELSE car.driving
  <2>1. Received("state") \in CarState
    BY ReceivedType DEF Fields, TypedFields, TypeOK
  <2>2. /\ Received("state").driving = car.driving
        /\ "state" \in Received("state").initialized
    BY DEF Received, TypeOK, CarState
  <2>3. PICK c \in CarState : /\ c = [Received("state") EXCEPT !.State = v]
                              /\ car' = IF moved /\ v = "driving" THEN StartDriving(c)
                                        ELSE IF moved /\ car.State = "driving" THEN StopDriving(c)
                                        ELSE c
    <3> DEFINE c == [Received("state") EXCEPT !.State = v]
    <3>1. c \in CarState
      BY <2>1, ZenonT(60) DEF CarState
    <3>2. car' = IF moved /\ v = "driving" THEN StartDriving(c)
                 ELSE IF moved /\ car.State = "driving" THEN StopDriving(c)
                 ELSE c
      BY DEF HandleState
    <3> HIDE DEF c
    <3> QED
      BY <3>1, <3>2 DEF c
  <2>4. c.State = v /\ "state" \in c.initialized /\ c.driving = car.driving
    BY <2>1, <2>2, <2>3 DEF CarState
  <2> QED
    BY <2>3, <2>4 DEF StartDriving, StopDriving, CarState
<1>2. \A t \in StateTypes : raised'[t] = raised[t] + Ind(t \in events)
  BY <1>0, Counted DEF HandleState, Emit, StateTypes, EventTypes
<1>3. /\ "drive" \in found' <=> ("drive" \in found \/ (first /\ v = "driving"))
      /\ "sleep" \in found' <=> ("sleep" \in found \/ (first /\ v \in Sleeping))
      /\ stopped' = stopped
  BY DEF HandleState, Found, Sleeping
<1>4. /\ "drive_started" \in events <=> (moved /\ v = "driving")
      /\ "drive_ended" \in events <=> (moved /\ car.State = "driving")
      /\ "vehicle_falling_asleep" \in events <=> (moved /\ v = "suspended")
      /\ "vehicle_asleep" \in events <=> (moved /\ v \in {"asleep", "offline"})
      /\ "vehicle_woke" \in events <=> (moved /\ car.State \in Sleeping /\ v \notin Sleeping)
  BY DEF StateEvents
<1>5. \A t \in StateTypes : raised[t] \in Nat
  BY DEF TypeOK, StateTypes, EventTypes
<1> HIDE DEF events
<1>9. /\ raised'["drive_started"]
           = raised["drive_started"] + (IF moved /\ v = "driving" THEN 1 ELSE 0)
      /\ raised'["drive_ended"]
           = raised["drive_ended"] + (IF moved /\ car.State = "driving" THEN 1 ELSE 0)
      /\ raised'["vehicle_falling_asleep"]
           = raised["vehicle_falling_asleep"] + (IF moved /\ v = "suspended" THEN 1 ELSE 0)
      /\ raised'["vehicle_asleep"]
           = raised["vehicle_asleep"] + (IF moved /\ v \in {"asleep", "offline"} THEN 1 ELSE 0)
      /\ raised'["vehicle_woke"]
           = raised["vehicle_woke"]
               + (IF moved /\ car.State \in Sleeping /\ v \notin Sleeping THEN 1 ELSE 0)
  BY <1>2, <1>4 DEF StateTypes, Ind
<1>10. /\ first => moved = FALSE
       /\ ~first /\ car.State = v => moved = FALSE
       /\ ~first /\ car.State # v => moved = TRUE
  BY DEF Seen
<1>11. first => /\ car.State # "driving" /\ car.State \notin Sleeping
                /\ "drive" \notin found /\ "sleep" \notin found
                /\ raised["drive_started"] = 0
  <2>1. "" # "driving" /\ "" \notin Sleeping
    BY Zenon DEF Sleeping
  <2> QED
    BY <2>1 DEF StateInv
<1>12. /\ raised["drive_started"] \in Nat /\ raised["drive_ended"] \in Nat
       /\ raised["vehicle_falling_asleep"] \in Nat /\ raised["vehicle_asleep"] \in Nat
       /\ raised["vehicle_woke"] \in Nat
  BY <1>5 DEF StateTypes
<1> HIDE DEF first, moved
<1>6. TickerMatchesDriving'
  <2>1. ~stopped => (car.driving <=> car.State = "driving" /\ raised["drive_started"] > 0)
    BY DEF TickerMatchesDriving, StateInv
  <2>2. ~stopped' => (car'.driving <=> v = "driving" /\ raised'["drive_started"] > 0)
    <3>1. CASE first
      BY <1>1, <1>3, <1>9, <1>10, <1>11, <1>12, <2>1, <3>1
    <3>2. CASE ~first /\ car.State = v
      BY <1>1, <1>3, <1>9, <1>10, <1>12, <2>1, <3>2
    <3>3. CASE ~first /\ car.State # v
      BY <1>1, <1>3, <1>9, <1>10, <1>12, <2>1, <3>3
    <3> QED
      BY <3>1, <3>2, <3>3
  <2> QED
    BY <1>1, <2>2 DEF TickerMatchesDriving
<1>7. DrivesPair'
  <2>1. raised["drive_started"] + (IF "drive" \in found THEN 1 ELSE 0)
          = raised["drive_ended"] + (IF car.State = "driving" THEN 1 ELSE 0)
    BY DEF StateInv, DrivesPair, Ind
  <2>2. raised'["drive_started"] + (IF "drive" \in found' THEN 1 ELSE 0)
          = raised'["drive_ended"] + (IF v = "driving" THEN 1 ELSE 0)
    <3>1. CASE first
      BY <1>3, <1>9, <1>10, <1>11, <1>12, <2>1, <3>1, SMTT(40)
    <3>2. CASE ~first /\ car.State = v
      BY <1>3, <1>9, <1>10, <1>12, <2>1, <3>2
    <3>3. CASE ~first /\ car.State # v
      BY <1>3, <1>9, <1>10, <1>12, <2>1, <3>3
    <3> QED
      BY <3>1, <3>2, <3>3
  <2> QED
    BY <1>1, <2>2 DEF DrivesPair, Ind
<1>8. WakesFollowSleeps'
  <2> DEFINE slept == raised["vehicle_falling_asleep"] + raised["vehicle_asleep"]
                        + (IF "sleep" \in found THEN 1 ELSE 0)
             slept2 == raised'["vehicle_falling_asleep"] + raised'["vehicle_asleep"]
                         + (IF "sleep" \in found' THEN 1 ELSE 0)
             ended == raised["vehicle_woke"] + (IF car.State \in Sleeping THEN 1 ELSE 0)
             ended2 == raised'["vehicle_woke"] + (IF v \in Sleeping THEN 1 ELSE 0)
  <2>1. slept \in Nat /\ ended \in Nat /\ ended <= slept /\ (slept > 0 => ended > 0)
    <3>1. slept \in Nat /\ ended \in Nat
      BY <1>12
    <3>2. WakesFollowSleeps <=> ended <= slept /\ (slept > 0 => ended > 0)
      BY DEF WakesFollowSleeps, Ind
    <3> QED
      BY <3>1, <3>2 DEF StateInv
  <2>2. \/ slept2 = slept /\ ended2 = ended
        \/ slept2 = slept + 1 /\ ended2 \in {ended, ended + 1} /\ ended2 > 0
    <3>1. CASE first
      <4>1. /\ raised'["vehicle_falling_asleep"] = raised["vehicle_falling_asleep"]
            /\ raised'["vehicle_asleep"] = raised["vehicle_asleep"]
            /\ raised'["vehicle_woke"] = raised["vehicle_woke"]
        BY <1>9, <1>10, <1>12, <3>1
      <4>2. CASE v \in Sleeping
        BY <1>3, <1>11, <1>12, <3>1, <4>1, <4>2
      <4>3. CASE v \notin Sleeping
        BY <1>3, <1>11, <1>12, <3>1, <4>1, <4>3
      <4> QED
        BY <4>2, <4>3
    <3>2. CASE ~first /\ car.State = v
      BY <1>3, <1>9, <1>10, <1>12, <3>2
    <3>3. CASE ~first /\ car.State # v
      <4>1. CASE v \notin Sleeping
        BY <1>3, <1>9, <1>10, <1>12, <3>3, <4>1 DEF Sleeping
      <4>2. CASE v \in Sleeping
        BY <1>3, <1>9, <1>10, <1>12, <3>3, <4>2 DEF Sleeping
      <4> QED
        BY <4>1, <4>2
    <3> QED
      BY <3>1, <3>2, <3>3
  <2>3. WakesFollowSleeps' <=> ended2 <= slept2 /\ (slept2 > 0 => ended2 > 0)
    BY <1>1 DEF WakesFollowSleeps, Ind
  <2> HIDE DEF slept, slept2, ended, ended2
  <2> QED
    BY <2>1, <2>2, <2>3
<1> QED
  BY <1>1, <1>6, <1>7, <1>8 DEF StateInv, Seen

-----------------------------------------------------------------------------
(* A stay in a geofence, and the charger's plug, need the same of theirs:   *)
(* a topic's first value counts as found, and there is nothing before it.   *)
FenceInv ==
  /\ ~Seen("geofence") => car.Geofence = "" /\ "fence" \notin found
  /\ FencesPair

PlugInv ==
  /\ ~Seen("plugged_in") => car.PluggedIn = FALSE /\ "plug" \notin found
  /\ PlugsPair

(* A move from one geofence into another is an exit and an entry.           *)
LEMMA FenceHandler ==
  ASSUME TypeOK, FenceInv, NEW g \in Geofences, HandleGeofence(g)
  PROVE  FenceInv'
<1> DEFINE seen == Seen("geofence")
           was == car.Geofence # ""
           is == g # ""
           same == car.Geofence = g
           events == IF seen THEN GeofenceEvents(car.Geofence, g) ELSE {}
<1>0. CountersOK
  BY DEF TypeOK, CountersOK
<1>1. car'.Geofence = g /\ "geofence" \in car'.initialized
  <2>1. Received("geofence") \in CarState
    BY ReceivedType DEF Fields, TypedFields, TypeOK
  <2>2. "geofence" \in Received("geofence").initialized
    BY DEF Received, TypeOK, CarState
  <2>3. car' = [Received("geofence") EXCEPT !.PreviousGeofence = car.Geofence, !.Geofence = g]
    BY DEF HandleGeofence
  <2> QED
    BY <2>1, <2>2, <2>3 DEF CarState
<1>2. \A t \in FenceTypes : raised'[t] = raised[t] + Ind(t \in events)
  BY <1>0, Counted DEF HandleGeofence, Emit, FenceTypes, EventTypes
<1>3. "fence" \in found' <=> ("fence" \in found \/ (~seen /\ is))
  BY DEF HandleGeofence, Found
<1>4. /\ "geofence_exited" \in events <=> (seen /\ was /\ ~same)
      /\ "geofence_entered" \in events <=> (seen /\ is /\ ~same)
  BY DEF GeofenceEvents
<1>5. raised["geofence_entered"] \in Nat /\ raised["geofence_exited"] \in Nat
  BY DEF TypeOK, EventTypes
<1>6. same => (was <=> is)
  BY Zenon
<1>7. ~seen => ~was /\ "fence" \notin found
  BY DEF FenceInv
<1>8. raised["geofence_entered"] + (IF "fence" \in found THEN 1 ELSE 0)
        = raised["geofence_exited"] + (IF was THEN 1 ELSE 0)
  BY DEF FenceInv, FencesPair, Ind
<1> HIDE DEF events, seen, was, is, same
<1>9. /\ raised'["geofence_entered"]
           = raised["geofence_entered"] + (IF seen /\ is /\ ~same THEN 1 ELSE 0)
      /\ raised'["geofence_exited"]
           = raised["geofence_exited"] + (IF seen /\ was /\ ~same THEN 1 ELSE 0)
  BY <1>2, <1>4 DEF FenceTypes, Ind
<1>10. raised'["geofence_entered"] + (IF "fence" \in found' THEN 1 ELSE 0)
         = raised'["geofence_exited"] + (IF is THEN 1 ELSE 0)
  <2>1. CASE ~seen
    BY <1>3, <1>5, <1>7, <1>8, <1>9, <2>1
  <2>2. CASE seen /\ same
    BY <1>3, <1>5, <1>6, <1>8, <1>9, <2>2
  <2>3. CASE seen /\ ~same
    BY <1>3, <1>5, <1>8, <1>9, <2>3
  <2> QED
    BY <2>1, <2>2, <2>3
<1> QED
  BY <1>1, <1>10 DEF FenceInv, FencesPair, Seen, Ind, is

LEMMA PlugHandler ==
  ASSUME TypeOK, PlugInv, NEW b \in PluggedValues, HandlePluggedIn(b)
  PROVE  PlugInv'
<1> DEFINE seen == Seen("plugged_in")
           was == car.PluggedIn
           events == IF ~(seen /\ car.PluggedIn # b) THEN {}
                     ELSE IF b THEN {"charger_connected"} ELSE {"charger_disconnected"}
<1>0. CountersOK
  BY DEF TypeOK, CountersOK
<1>1. car'.PluggedIn = b /\ "plugged_in" \in car'.initialized
  <2>1. Received("plugged_in") \in CarState
    BY ReceivedType DEF Fields, TypedFields, TypeOK
  <2>2. "plugged_in" \in Received("plugged_in").initialized
    BY DEF Received, TypeOK, CarState
  <2>3. car' = [Received("plugged_in") EXCEPT !.PluggedIn = b]
    BY DEF HandlePluggedIn
  <2> QED
    BY <2>1, <2>2, <2>3 DEF CarState
<1>2. \A t \in PlugTypes : raised'[t] = raised[t] + Ind(t \in events)
  BY <1>0, Counted DEF HandlePluggedIn, Emit, PlugTypes, EventTypes
<1>3. "plug" \in found' <=> ("plug" \in found \/ (~seen /\ b))
  BY DEF HandlePluggedIn, Found
<1>4. was \in BOOLEAN /\ b \in BOOLEAN
  BY CarAssumption DEF TypeOK, CarState, CarAssumption
<1>5. /\ "charger_connected" \in events <=> (seen /\ ~was /\ b)
      /\ "charger_disconnected" \in events <=> (seen /\ was /\ ~b)
  BY <1>4
<1>6. raised["charger_connected"] \in Nat /\ raised["charger_disconnected"] \in Nat
  BY DEF TypeOK, EventTypes
<1>7. ~seen => ~was /\ "plug" \notin found
  BY DEF PlugInv
<1>8. raised["charger_connected"] + (IF "plug" \in found THEN 1 ELSE 0)
        = raised["charger_disconnected"] + (IF was THEN 1 ELSE 0)
  BY DEF PlugInv, PlugsPair, Ind
<1> HIDE DEF events, seen, was
<1>9. /\ raised'["charger_connected"]
           = raised["charger_connected"] + (IF seen /\ ~was /\ b THEN 1 ELSE 0)
      /\ raised'["charger_disconnected"]
           = raised["charger_disconnected"] + (IF seen /\ was /\ ~b THEN 1 ELSE 0)
  BY <1>2, <1>5 DEF PlugTypes, Ind
<1>10. raised'["charger_connected"] + (IF "plug" \in found' THEN 1 ELSE 0)
         = raised'["charger_disconnected"] + (IF b THEN 1 ELSE 0)
  <2>1. CASE ~seen
    BY <1>3, <1>6, <1>7, <1>8, <1>9, <2>1
  <2>2. CASE seen
    BY <1>3, <1>6, <1>8, <1>9, <2>2
  <2> QED
    BY <2>1, <2>2
<1> QED
  BY <1>1, <1>10 DEF PlugInv, PlugsPair, Seen, Ind

-----------------------------------------------------------------------------
(* Each of the four topics' handlers leaves the other sessions alone.       *)
LEMMA CrossFrames ==
  ASSUME TypeOK
  PROVE  /\ \A v \in StateValues : HandleState(v) => ChargeKept /\ FenceKept /\ PlugKept
         /\ \A v \in ChargingValues :
              HandleChargingState(v) => StateKept /\ FenceKept /\ PlugKept
         /\ \A g \in Geofences : HandleGeofence(g) => StateKept /\ ChargeKept /\ PlugKept
         /\ \A b \in PluggedValues :
              HandlePluggedIn(b) => StateKept /\ ChargeKept /\ FenceKept
<1>0. CountersOK
  BY DEF TypeOK, CountersOK
<1>1. ASSUME NEW v \in StateValues, HandleState(v)
      PROVE  ChargeKept /\ FenceKept /\ PlugKept
  <2> DEFINE moved == Seen("state") /\ car.State # v
             events == IF moved THEN StateEvents(car.State, v) ELSE {}
             Kept(c) ==
               /\ c.ChargingState = car.ChargingState /\ c.liveActivity = car.liveActivity
               /\ c.Geofence = car.Geofence /\ c.PluggedIn = car.PluggedIn
               /\ \A f \in {"charging_state", "geofence", "plugged_in"} :
                    f \in c.initialized <=> f \in car.initialized
  <2>1. Received("state") \in CarState
    BY ReceivedType DEF Fields, TypedFields, TypeOK
  <2>2. PICK c \in CarState : Kept(c) /\ car' \in {c, StartDriving(c), StopDriving(c)}
    <3> DEFINE c == [Received("state") EXCEPT !.State = v]
    <3>1. c \in CarState
      BY <2>1, ZenonT(60) DEF CarState
    <3>2. Kept(c)
      BY <2>1 DEF Received, TypeOK, CarState
    <3>3. car' \in {c, StartDriving(c), StopDriving(c)}
      BY <1>1 DEF HandleState
    <3> HIDE DEF c
    <3> QED
      BY <3>1, <3>2, <3>3
  <2>3. Kept(car')
    BY <2>2, ZenonT(60) DEF StartDriving, StopDriving, CarState
  <2>4. events \cap (ChargeTypes \cup FenceTypes \cup PlugTypes) = {}
    BY DEF StateEvents, ChargeTypes, FenceTypes, PlugTypes
  <2>5. \A t \in ChargeTypes \cup FenceTypes \cup PlugTypes : raised'[t] = raised[t]
    BY <1>0, <1>1, <2>4, Uncounted
       DEF HandleState, Emit, ChargeTypes, FenceTypes, PlugTypes, EventTypes
  <2>6. stopped' = stopped /\ \A x \in {"charge", "fence", "plug"} : x \in found' <=> x \in found
    BY <1>1 DEF HandleState, Found
  <2> QED
    BY <2>3, <2>5, <2>6 DEF ChargeKept, FenceKept, PlugKept
<1>2. ASSUME NEW v \in ChargingValues, HandleChargingState(v)
      PROVE  StateKept /\ FenceKept /\ PlugKept
  <2> DEFINE first == ~Seen("charging_state")
             prev == IF first THEN "" ELSE car.ChargingState
             events == IF ChargingEdge(v) THEN ChargingEvents(prev, v) ELSE {}
  <2>1. Received("charging_state") \in CarState
    BY ReceivedType DEF Fields, TypedFields, TypeOK
  <2>2. PICK on : car' = [Received("charging_state") EXCEPT !.ChargingState = v, !.liveActivity = on]
    BY <1>2, <2>1 DEF HandleChargingState, CarState
  <2>3. /\ car'.State = car.State /\ car'.driving = car.driving
        /\ car'.Geofence = car.Geofence /\ car'.PluggedIn = car.PluggedIn
        /\ \A f \in {"state", "geofence", "plugged_in"} :
             f \in car'.initialized <=> f \in car.initialized
    BY <2>1, <2>2 DEF Received, TypeOK, CarState
  <2>4. events \cap (StateTypes \cup FenceTypes \cup PlugTypes) = {}
    BY DEF ChargingEvents, StateTypes, FenceTypes, PlugTypes
  <2>5. \A t \in StateTypes \cup FenceTypes \cup PlugTypes : raised'[t] = raised[t]
    BY <1>0, <1>2, <2>4, Uncounted
       DEF HandleChargingState, Emit, StateTypes, FenceTypes, PlugTypes, EventTypes
  <2>6. /\ stopped' = stopped
        /\ \A x \in {"drive", "sleep", "fence", "plug"} : x \in found' <=> x \in found
    BY <1>2 DEF HandleChargingState, Found
  <2> QED
    BY <2>3, <2>5, <2>6 DEF StateKept, FenceKept, PlugKept
<1>3. ASSUME NEW g \in Geofences, HandleGeofence(g)
      PROVE  StateKept /\ ChargeKept /\ PlugKept
  <2> DEFINE events == IF Seen("geofence") THEN GeofenceEvents(car.Geofence, g) ELSE {}
  <2>1. Received("geofence") \in CarState
    BY ReceivedType DEF Fields, TypedFields, TypeOK
  <2>2. car' = [Received("geofence") EXCEPT !.PreviousGeofence = car.Geofence, !.Geofence = g]
    BY <1>3 DEF HandleGeofence
  <2>3. /\ car'.State = car.State /\ car'.driving = car.driving
        /\ car'.ChargingState = car.ChargingState /\ car'.liveActivity = car.liveActivity
        /\ car'.PluggedIn = car.PluggedIn
        /\ \A f \in {"state", "charging_state", "plugged_in"} :
             f \in car'.initialized <=> f \in car.initialized
    BY <2>1, <2>2 DEF Received, TypeOK, CarState
  <2>4. events \cap (StateTypes \cup ChargeTypes \cup PlugTypes) = {}
    BY DEF GeofenceEvents, StateTypes, ChargeTypes, PlugTypes
  <2>5. \A t \in StateTypes \cup ChargeTypes \cup PlugTypes : raised'[t] = raised[t]
    BY <1>0, <1>3, <2>4, Uncounted
       DEF HandleGeofence, Emit, StateTypes, ChargeTypes, PlugTypes, EventTypes
  <2>6. /\ stopped' = stopped
        /\ \A x \in {"drive", "sleep", "charge", "plug"} : x \in found' <=> x \in found
    BY <1>3 DEF HandleGeofence, Found
  <2> QED
    BY <2>3, <2>5, <2>6 DEF StateKept, ChargeKept, PlugKept
<1>4. ASSUME NEW b \in PluggedValues, HandlePluggedIn(b)
      PROVE  StateKept /\ ChargeKept /\ FenceKept
  <2> DEFINE events == IF ~(Seen("plugged_in") /\ car.PluggedIn # b) THEN {}
                       ELSE IF b THEN {"charger_connected"} ELSE {"charger_disconnected"}
  <2>1. Received("plugged_in") \in CarState
    BY ReceivedType DEF Fields, TypedFields, TypeOK
  <2>2. car' = [Received("plugged_in") EXCEPT !.PluggedIn = b]
    BY <1>4 DEF HandlePluggedIn
  <2>3. /\ car'.State = car.State /\ car'.driving = car.driving
        /\ car'.ChargingState = car.ChargingState /\ car'.liveActivity = car.liveActivity
        /\ car'.Geofence = car.Geofence
        /\ \A f \in {"state", "charging_state", "geofence"} :
             f \in car'.initialized <=> f \in car.initialized
    BY <2>1, <2>2 DEF Received, TypeOK, CarState
  <2>4. events \cap (StateTypes \cup ChargeTypes \cup FenceTypes) = {}
    BY DEF StateTypes, ChargeTypes, FenceTypes
  <2>5. \A t \in StateTypes \cup ChargeTypes \cup FenceTypes : raised'[t] = raised[t]
    BY <1>0, <1>4, <2>4, Uncounted
       DEF HandlePluggedIn, Emit, StateTypes, ChargeTypes, FenceTypes, EventTypes
  <2>6. /\ stopped' = stopped
        /\ \A x \in {"drive", "sleep", "charge", "fence"} : x \in found' <=> x \in found
    BY <1>4 DEF HandlePluggedIn, Found
  <2> QED
    BY <2>3, <2>5, <2>6 DEF StateKept, ChargeKept, FenceKept
<1> QED
  BY <1>1, <1>2, <1>3, <1>4

(* An invariant about a session is kept by a step that keeps its session.   *)
LEMMA KeptInvariants ==
  /\ StateKept /\ StateInv => StateInv'
  /\ ChargeKept /\ ChargeInv => ChargeInv'
  /\ FenceKept /\ FenceInv => FenceInv'
  /\ PlugKept /\ PlugInv => PlugInv'
<1>1. StateKept /\ StateInv => StateInv'
  <2> SUFFICES ASSUME StateKept, StateInv PROVE StateInv'
    OBVIOUS
  <2>1. /\ raised'["drive_started"] = raised["drive_started"]
        /\ raised'["drive_ended"] = raised["drive_ended"]
        /\ raised'["vehicle_falling_asleep"] = raised["vehicle_falling_asleep"]
        /\ raised'["vehicle_asleep"] = raised["vehicle_asleep"]
        /\ raised'["vehicle_woke"] = raised["vehicle_woke"]
    BY DEF StateKept, StateTypes
  <2> QED
    BY <2>1 DEF StateKept, StateInv, TickerMatchesDriving, DrivesPair, WakesFollowSleeps, Seen, Ind
<1>2. ChargeKept /\ ChargeInv => ChargeInv'
  <2> SUFFICES ASSUME ChargeKept, ChargeInv PROVE ChargeInv'
    OBVIOUS
  <2>1. /\ raised'["charging_started"] = raised["charging_started"]
        /\ raised'["charging_completed"] = raised["charging_completed"]
        /\ raised'["charging_interrupted"] = raised["charging_interrupted"]
    BY DEF ChargeKept, ChargeTypes
  <2> QED
    BY <2>1 DEF ChargeKept, ChargeInv, TickerMatchesCharging, ChargesEnd, Seen, Ind
<1>3. FenceKept /\ FenceInv => FenceInv'
  <2> SUFFICES ASSUME FenceKept, FenceInv PROVE FenceInv'
    OBVIOUS
  <2>1. /\ raised'["geofence_entered"] = raised["geofence_entered"]
        /\ raised'["geofence_exited"] = raised["geofence_exited"]
    BY DEF FenceKept, FenceTypes
  <2> QED
    BY <2>1 DEF FenceKept, FenceInv, FencesPair, Seen, Ind
<1>4. PlugKept /\ PlugInv => PlugInv'
  <2> SUFFICES ASSUME PlugKept, PlugInv PROVE PlugInv'
    OBVIOUS
  <2>1. /\ raised'["charger_connected"] = raised["charger_connected"]
        /\ raised'["charger_disconnected"] = raised["charger_disconnected"]
    BY DEF PlugKept, PlugTypes
  <2> QED
    BY <2>1 DEF PlugKept, PlugInv, PlugsPair, Seen, Ind
<1> QED
  BY <1>1, <1>2, <1>3, <1>4

-----------------------------------------------------------------------------
Sessions == StateInv /\ ChargeInv /\ FenceInv /\ PlugInv
SessionInv == TypeOK /\ Sessions

(* A new process knows no session.                                          *)
LEMMA NoSessions ==
  ASSUME NEW names, car = NewCar(names), found = {}, raised = NoEvents
  PROVE  Sessions
<1>0. car.liveActivity = FALSE /\ car.driving = FALSE /\ car.PluggedIn = FALSE
  BY DEF NewCar
<1>1. car.State = "" /\ car.ChargingState = "" /\ car.Geofence = ""
  BY DEF NewCar
<1>2. \A t \in EventTypes : raised[t] = 0
  BY DEF NoEvents
<1>3. "" # "driving" /\ "" # "Charging" /\ "" \notin Sleeping
  BY Zenon DEF Sleeping
<1>4. /\ raised["drive_started"] = 0 /\ raised["drive_ended"] = 0
      /\ raised["vehicle_falling_asleep"] = 0 /\ raised["vehicle_asleep"] = 0
      /\ raised["vehicle_woke"] = 0 /\ raised["charging_started"] = 0
      /\ raised["charging_completed"] = 0 /\ raised["charging_interrupted"] = 0
      /\ raised["geofence_entered"] = 0 /\ raised["geofence_exited"] = 0
      /\ raised["charger_connected"] = 0 /\ raised["charger_disconnected"] = 0
  BY <1>2 DEF EventTypes
<1>5. StateInv
  <2>1. car.State # "driving" /\ car.State \notin Sleeping
    BY <1>1, <1>3, Zenon
  <2>2. TickerMatchesDriving /\ DrivesPair /\ WakesFollowSleeps
    BY <1>0, <1>4, <2>1 DEF TickerMatchesDriving, DrivesPair, WakesFollowSleeps, Ind
  <2> QED
    BY <1>1, <1>4, <2>2 DEF StateInv
<1>6. ChargeInv
  <2>1. car.ChargingState # "Charging"
    BY <1>1, <1>3, Zenon
  <2>2. TickerMatchesCharging /\ ChargesEnd
    BY <1>0, <1>4, <2>1 DEF TickerMatchesCharging, ChargesEnd, Ind
  <2> QED
    BY <1>1, <2>2 DEF ChargeInv
<1>7. FenceInv /\ PlugInv
  <2>1. FencesPair /\ PlugsPair
    BY <1>0, <1>1, <1>4 DEF FencesPair, PlugsPair, Ind
  <2> QED
    BY <1>0, <1>1, <2>1 DEF FenceInv, PlugInv
<1> QED
  BY <1>5, <1>6, <1>7 DEF Sessions

(* The same after a restart.                                                *)
LEMMA NewProcess ==
  ASSUME NEW names, car' = NewCar(names), found' = {}, raised' = NoEvents
  PROVE  Sessions'
<1>0. car'.liveActivity = FALSE /\ car'.driving = FALSE /\ car'.PluggedIn = FALSE
  BY DEF NewCar
<1>1. car'.State = "" /\ car'.ChargingState = "" /\ car'.Geofence = ""
  BY DEF NewCar
<1>2. \A t \in EventTypes : raised'[t] = 0
  BY DEF NoEvents
<1>3. "" # "driving" /\ "" # "Charging" /\ "" \notin Sleeping
  BY Zenon DEF Sleeping
<1>4. /\ raised'["drive_started"] = 0 /\ raised'["drive_ended"] = 0
      /\ raised'["vehicle_falling_asleep"] = 0 /\ raised'["vehicle_asleep"] = 0
      /\ raised'["vehicle_woke"] = 0 /\ raised'["charging_started"] = 0
      /\ raised'["charging_completed"] = 0 /\ raised'["charging_interrupted"] = 0
      /\ raised'["geofence_entered"] = 0 /\ raised'["geofence_exited"] = 0
      /\ raised'["charger_connected"] = 0 /\ raised'["charger_disconnected"] = 0
  BY <1>2 DEF EventTypes
<1>5. StateInv'
  <2>1. car'.State # "driving" /\ car'.State \notin Sleeping
    BY <1>1, <1>3, Zenon
  <2>2. TickerMatchesDriving' /\ DrivesPair' /\ WakesFollowSleeps'
    BY <1>0, <1>4, <2>1 DEF TickerMatchesDriving, DrivesPair, WakesFollowSleeps, Ind
  <2> QED
    BY <1>1, <1>4, <2>2 DEF StateInv
<1>6. ChargeInv'
  <2>1. car'.ChargingState # "Charging"
    BY <1>1, <1>3, Zenon
  <2>2. TickerMatchesCharging' /\ ChargesEnd'
    BY <1>0, <1>4, <2>1 DEF TickerMatchesCharging, ChargesEnd, Ind
  <2> QED
    BY <1>1, <2>2 DEF ChargeInv
<1>7. FenceInv' /\ PlugInv'
  <2>1. FencesPair' /\ PlugsPair'
    BY <1>0, <1>1, <1>4 DEF FencesPair, PlugsPair, Ind
  <2> QED
    BY <1>0, <1>1, <2>1 DEF FenceInv, PlugInv
<1> QED
  BY <1>5, <1>6, <1>7 DEF Sessions

LEMMA SessionInit == Init => SessionInv
  BY TypeInit, NoSessions DEF Init, SessionInv

LEMMA SessionStep == SessionInv /\ [Next]_vars => SessionInv'
<1> SUFFICES ASSUME SessionInv, [Next]_vars PROVE Sessions'
  BY TypeStep DEF SessionInv
<1> USE DEF SessionInv, Sessions
<1>1. ASSUME NEW v \in StateValues, HandleState(v) PROVE Sessions'
  BY <1>1, StateHandler, CrossFrames, KeptInvariants
<1>2. ASSUME NEW v \in ChargingValues, HandleChargingState(v) PROVE Sessions'
  BY <1>2, ChargeHandler, CrossFrames, KeptInvariants
<1>3. ASSUME NEW g \in Geofences, HandleGeofence(g) PROVE Sessions'
  BY <1>3, FenceHandler, CrossFrames, KeptInvariants
<1>4. ASSUME NEW b \in PluggedValues, HandlePluggedIn(b) PROVE Sessions'
  BY <1>4, PlugHandler, CrossFrames, KeptInvariants
<1>5. CASE /\ HandleMessage
           /\ ~ \E v \in StateValues : HandleState(v)
           /\ ~ \E v \in ChargingValues : HandleChargingState(v)
           /\ ~ \E g \in Geofences : HandleGeofence(g)
           /\ ~ \E b \in PluggedValues : HandlePluggedIn(b)
  BY <1>5, OtherHandlers, KeptInvariants DEF SessionsKept
<1>6. ASSUME NEW f \in UnknownFields, HandleUnknownMessage(f) PROVE Sessions'
  <2>1. SessionsKept
    BY <1>6 DEF HandleUnknownMessage, SessionsKept, StateKept, ChargeKept, FenceKept,
       PlugKept, TypeOK, CarState
  <2> QED
    BY <2>1, KeptInvariants DEF SessionsKept
<1>7. CASE UNCHANGED <<car, stopped, raised, found>>
  BY <1>7, KeptInvariants DEF StateKept, ChargeKept, FenceKept, PlugKept
<1>8. CASE Stop
  <2>1. /\ car'.State = car.State /\ car'.ChargingState = car.ChargingState
        /\ car'.Geofence = car.Geofence /\ car'.PluggedIn = car.PluggedIn
        /\ car'.initialized = car.initialized
    BY <1>8 DEF Stop, StopDriving, TypeOK, CarState
  <2>2. stopped' = TRUE /\ raised' = raised /\ found' = found
    BY <1>8 DEF Stop
  <2>3. FenceKept /\ PlugKept
    BY <2>1, <2>2 DEF FenceKept, PlugKept
  <2>4. StateInv' /\ ChargeInv'
    BY <2>1, <2>2 DEF StateInv, ChargeInv, TickerMatchesDriving, TickerMatchesCharging,
       DrivesPair, WakesFollowSleeps, ChargesEnd, Seen, Ind
  <2> QED
    BY <2>3, <2>4, KeptInvariants
<1>9. CASE Restart
  <2>1. car' = NewCar(cache') /\ found' = {} /\ raised' = NoEvents
    BY <1>9 DEF Restart
  <2> QED
    BY <2>1, NewProcess
<1> QED
  BY <1>1, <1>2, <1>3, <1>4, <1>5, <1>6, <1>7, <1>8, <1>9
     DEF Next, DeferredEmit, LiveActivityUpdate, ApplyConfig, MarkConnected, GraceOver, vars

(* drive_started and drive_ended alternate in every run of the process.     *)
THEOREM DrivesAlternate == Spec => []DrivesPair
<1>1. SessionInv => DrivesPair
  BY DEF SessionInv, Sessions, StateInv
<1> QED
  BY <1>1, SessionInit, SessionStep, PTL DEF Spec

(* The driving ticker runs in the drives the process saw begin, only there. *)
THEOREM DrivingTicks == Spec => []TickerMatchesDriving
<1>1. SessionInv => TickerMatchesDriving
  BY DEF SessionInv, Sessions, StateInv
<1> QED
  BY <1>1, SessionInit, SessionStep, PTL DEF Spec

(* No car is reported to wake that was not reported, or found, asleep, and  *)
(* none is awake after a sleep without ever having been reported to wake.   *)
THEOREM WakesAreFromSleep == Spec => []WakesFollowSleeps
<1>1. SessionInv => WakesFollowSleeps
  BY DEF SessionInv, Sessions, StateInv
<1> QED
  BY <1>1, SessionInit, SessionStep, PTL DEF Spec

(* The charging ticker runs exactly while the car charges.                  *)
THEOREM ChargingTicks == Spec => []TickerMatchesCharging
<1>1. SessionInv => TickerMatchesCharging
  BY DEF SessionInv, Sessions, ChargeInv
<1> QED
  BY <1>1, SessionInit, SessionStep, PTL DEF Spec

(* A charge that is over was announced, or found running, and has been      *)
(* closed by an interruption of its own or by a completion.                 *)
THEOREM ChargesAreEnded == Spec => []ChargesEnd
<1>1. SessionInv => ChargesEnd
  BY DEF SessionInv, Sessions, ChargeInv
<1> QED
  BY <1>1, SessionInit, SessionStep, PTL DEF Spec

(* geofence_entered and geofence_exited alternate, whatever geofences there *)
(* are and however often the car moves straight from one into another.      *)
THEOREM FencesAlternate == Spec => []FencesPair
<1>1. SessionInv => FencesPair
  BY DEF SessionInv, Sessions, FenceInv
<1> QED
  BY <1>1, SessionInit, SessionStep, PTL DEF Spec

(* charger_connected and charger_disconnected alternate.                    *)
THEOREM PlugsAlternate == Spec => []PlugsPair
<1>1. SessionInv => PlugsPair
  BY DEF SessionInv, Sessions, PlugInv
<1> QED
  BY <1>1, SessionInit, SessionStep, PTL DEF Spec

-----------------------------------------------------------------------------
(* What a move out of a geofence sends with it is built from the record the *)
(* move leaves, where PreviousGeofence is the geofence the car was in.      *)
LEMMA MoveSends ==
  ASSUME TypeOK, NEW g \in Geofences, HandleGeofence(g),
         NEW p \in out', p.type = "geofence_exited"
  PROVE  p.fence = car.Geofence /\ p.fence \notin {"", car'.Geofence}
<1> DEFINE events == IF Seen("geofence") THEN GeofenceEvents(car.Geofence, g) ELSE {}
<1>1. car'.PreviousGeofence = car.Geofence /\ car'.Geofence = g
  <2>1. Received("geofence") \in CarState
    BY ReceivedType DEF Fields, TypedFields, TypeOK
  <2> QED
    BY <2>1 DEF HandleGeofence, CarState
<1>2. Emit(events, car')
  BY DEF HandleGeofence
<1>3. out' = {BuildPayload(t, car', FALSE) : t \in Ready(events, car')}
  BY <1>2 DEF Emit, Dispatch
<1> HIDE DEF events
<1>4. "geofence_exited" \in events /\ p = BuildPayload("geofence_exited", car', FALSE)
  BY <1>3 DEF Ready, BuildPayload
<1>5. car.Geofence # "" /\ car.Geofence # g
  BY <1>4 DEF events, GeofenceEvents
<1>6. p.fence = ExitedFence(car')
  BY <1>4 DEF BuildPayload
<1> QED
  BY <1>1, <1>5, <1>6 DEF ExitedFence

(* The exit that is announced with the move names the geofence left: that   *)
(* a geofence_exited may name another is due to the deferred ones alone.    *)
THEOREM PromptExitIsRight == Spec => PromptExitNamesFence
<1> DEFINE Right == \A p \in out' : p.type = "geofence_exited" /\ car'.Geofence # car.Geofence =>
                      p.fence = car.Geofence /\ p.fence \notin {"", car'.Geofence}
<1>1. TypeOK /\ [Next]_vars => [Right]_vars
  <2> SUFFICES ASSUME TypeOK, Next PROVE Right
    BY DEF vars
  <2>1. ASSUME NEW g \in Geofences, HandleGeofence(g) PROVE Right
    BY <2>1, MoveSends
  <2>2. CASE FenceKept
    BY <2>2 DEF FenceKept
  <2>3. CASE out' = {}
    BY <2>3
  <2>4. ASSUME NEW t \in EventTypes, DeferredEmit(t) PROVE Right
    BY <2>4 DEF DeferredEmit
  <2>6. ASSUME NEW t \in LiveTypes, LiveActivityUpdate(t) PROVE Right
    BY <2>6 DEF LiveActivityUpdate
  <2>5. HandleMessage => FenceKept \/ \E g \in Geofences : HandleGeofence(g)
    BY OtherHandlers, CrossFrames DEF SessionsKept
  <2> QED
    BY <2>1, <2>2, <2>3, <2>4, <2>5, <2>6
       DEF Next, HandleUnknownMessage, ApplyConfig, MarkConnected, GraceOver, Stop, Restart
<1> QED
  BY <1>1, TypeCorrect, PTL DEF Spec, PromptExitNamesFence
=============================================================================
