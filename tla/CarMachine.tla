----------------------------- MODULE CarMachine -----------------------------
(***************************************************************************)
(* One car of state/machine.go: the CarState record, the topic handlers of *)
(* HandleMessage, the events they raise and the queue of events deferred   *)
(* until the car has a name and a battery level.                           *)
(*                                                                         *)
(* Every handler and every deferredEmit goroutine runs under Manager.mu,   *)
(* so each is one action; which of them runs next is open, because paho is *)
(* configured with SetOrderMatters(false) and calls the handlers on one    *)
(* goroutine per message.  The two ticker goroutines are in LiveActivity;  *)
(* here a ticker is only running or not, and what its ticks send is built  *)
(* from the record like any other payload.                                 *)
(*                                                                         *)
(* A payload is abstracted to what the properties tell apart: its event,   *)
(* the battery level, the geofence and the distance it reports, and the    *)
(* raw fields it carries.                                                  *)
(***************************************************************************)
EXTENDS BatteryThresholds, FiniteSets

CONSTANTS
  StateValues,      (* published values of each topic; a run that is not   *)
  ChargingValues,   (* about a topic gives it the empty set                *)
  BatteryLevels,
  PluggedValues,
  UpdateValues,
  Geofences,
  DisplayNames,
  Models,
  Versions,
  DisplayStates,
  Odometers,
  MalformedFields,  (* topics whose payload may fail to parse              *)
  OtherFields,      (* enrichment topics without any control flow          *)
  UnknownFields,    (* topics outside knownFields                          *)
  RawFlags,         (* values of data.raw_enabled the relay may send       *)
  MaxRawFields,     (* maxRawFields                                        *)
  MaxRaised,        (* bound: events of one type raised in one process     *)
  MaxRestarts       (* bound: restarts of the process                      *)

TypedFields ==
  {"state", "charging_state", "battery_level", "plugged_in",
   "update_available", "geofence", "display_name", "model",
   "update_version", "center_display_state", "odometer", "active_route"}

ASSUME CarAssumption ==
  /\ BatteryLevels \subseteq Int
  /\ DisplayStates \subseteq Int
  /\ Odometers \subseteq Nat \ {0}
  /\ PluggedValues \subseteq BOOLEAN
  /\ UpdateValues \subseteq BOOLEAN
  /\ RawFlags \subseteq BOOLEAN
  /\ OtherFields \cap TypedFields = {}
  /\ MalformedFields \subseteq 
       {"battery_level", "center_display_state", "active_route", "odometer"}
  /\ MaxRawFields \in Nat
  /\ MaxRaised \in Nat
  /\ MaxRestarts \in Nat

EventTypes ==
  {"drive_started", "drive_ended", "vehicle_falling_asleep", "vehicle_asleep",
   "vehicle_woke", "charging_started", "charging_completed",
   "charging_interrupted", "battery_low", "battery_full", "charger_connected",
   "charger_disconnected", "software_update", "geofence_entered",
   "geofence_exited", "sentry_recording"}

(* The updates of a running charge or drive, which no transition raises.    *)
LiveTypes == {"live_activity_update", "live_activity_driving_update"}

Fields == TypedFields \cup OtherFields

VARIABLES
  car,         (* the CarState                                             *)
  pending,     (* CarState.pendingEvents, as a count per event type: the   *)
               (* entries are bare type names, so equal ones are the same  *)
  deferred,    (* deferredEmit goroutines asleep, per event type           *)
  link,        (* connectedAt: "never" set, "fresh" (within                *)
               (* chargingStartGrace) or "settled"                         *)
  rawEnabled,  (* data.raw_enabled as the remote config has it             *)
  cache,       (* this car's entry of the car_names.json file              *)
  stopped,     (* Manager.Stop has run                                     *)
  restarts,    (* process restarts so far (bounds the model)               *)
  raised,      (* history: events detected by this process, per type       *)
  handed,      (* history: events given to the emitter, per type           *)
  out,         (* history: the payloads the last step gave to the emitter  *)
  found        (* history: sessions already open at a topic's first value  *)

history == <<raised, handed, out, found>>
vars == <<car, pending, deferred, link, rawEnabled, cache, stopped, restarts,
          raised, handed, out, found>>

-----------------------------------------------------------------------------
(* The record getOrCreate builds, with the names NewManager restores.       *)
NewCar(names) ==
  [State |-> "", ChargingState |-> "", BatteryLevel |-> 0, PluggedIn |-> FALSE,
   Geofence |-> "", PreviousGeofence |-> "", UpdateAvailable |-> FALSE,
   UpdateVersion |-> "", DisplayName |-> names.DisplayName,
   Model |-> names.Model, CenterDisplayState |-> 0, Odometer |-> 0,
   batteryLowFired |-> FALSE, batteryHighFired |-> FALSE,
   liveActivity |-> FALSE, driving |-> FALSE,
   driveStartOdometer |-> 0,
   initialized |->
     {f \in {"display_name", "model"} :
        \/ f = "display_name" /\ names.DisplayName # ""
        \/ f = "model" /\ names.Model # ""},
   raw |-> {}]

NoNames == [DisplayName |-> "", Model |-> ""]

NoEvents == [t \in EventTypes |-> 0]

Seen(f) == f \in car.initialized

(* A plausible slip: with the flag off, what was recorded is kept.          *)
RecordRawKept(f) ==
  IF rawEnabled /\ Cardinality(car.raw) < MaxRawFields THEN car.raw \cup {f} ELSE car.raw

(* recordRaw: fields known to the raw map after field f arrives.            *)
RecordRaw(f) ==
  IF ~rawEnabled THEN {}
  ELSE IF Cardinality(car.raw) < MaxRawFields THEN car.raw \cup {f}
  ELSE car.raw

(* A plausible slip: the topic is never marked as seen.                     *)
ReceivedUnmarked(f) == [car EXCEPT !.raw = RecordRaw(f)]

(* What HandleMessage does to the record before it looks at the topic.      *)
Received(f) ==
  [car EXCEPT !.initialized = @ \cup {f}, !.raw = RecordRaw(f)]

HasName(c) == c.DisplayName # "" \/ c.Model # ""
IsEnriched(c) == HasName(c) /\ "battery_level" \in c.initialized
IsReadyFor(t, c) ==
  IsEnriched(c) /\ (t = "software_update" => c.UpdateVersion # "")

(* A plausible slip: an odometer unknown when the drive began counts as 0.  *)
DistanceFromZero(c) ==
  IF c.driving /\ c.Odometer > c.driveStartOdometer
    THEN c.Odometer - c.driveStartOdometer
    ELSE 0

(* The distance a payload reports; driveStartTime is set exactly while the  *)
(* driving ticker exists.                                                   *)

Distance(c) ==
  IF c.driving /\ c.driveStartOdometer > 0 /\ c.Odometer > c.driveStartOdometer
    THEN c.Odometer - c.driveStartOdometer
    ELSE 0

ExitedFence(c) == IF c.PreviousGeofence # "" THEN c.PreviousGeofence ELSE c.Geofence

(* buildPayload. "late" marks a payload built by the 30s safety net.        *)
BuildPayload(t, c, late) ==
  [type |-> t, late |-> late, battery |-> c.BatteryLevel,
   fence |-> IF t = "geofence_exited" THEN ExitedFence(c) ELSE c.Geofence,
   distance |-> Distance(c), raw |-> c.raw]

-----------------------------------------------------------------------------
(***************************************************************************)
(* emit, once for each event of a handler, and flushPendingIfEnriched      *)
(* where the handler ends with it.  An event the car is not ready for goes *)
(* to the queue and gets a deferredEmit goroutine of its own.              *)
(***************************************************************************)
Ind(b) == IF b THEN 1 ELSE 0

Ready(events, c) == {t \in events : IsReadyFor(t, c)}
Late(events, c)  == {t \in events : ~IsReadyFor(t, c)}

(* A plausible slip: the event is deferred but not queued.                  *)
QueueForgets(events, c) == pending

(* The queue after the handler's emits, and what a flush takes from it.     *)
Queue(events, c) == [t \in EventTypes |-> pending[t] + Ind(t \in Late(events, c))]
Flushed(queue, c) == {t \in EventTypes : queue[t] > 0 /\ IsReadyFor(t, c)}

(* A plausible slip: one safety net per type of event is thought enough.    *)
TimersOnePerType(events, c) ==
  [t \in EventTypes |-> IF t \in Late(events, c) THEN 1 ELSE deferred[t]]

Timers(events, c) == [t \in EventTypes |-> deferred[t] + Ind(t \in Late(events, c))]

Dispatch(events, flushed, c) ==
  LET queue == Queue(events, c)
  IN  /\ \A t \in events : raised[t] < MaxRaised
      /\ raised' = [t \in EventTypes |-> raised[t] + Ind(t \in events)]
      /\ deferred' = Timers(events, c)
      /\ pending' = [t \in EventTypes |-> IF t \in flushed THEN 0 ELSE queue[t]]
      /\ handed' = [t \in EventTypes |->
                      handed[t] + Ind(t \in Ready(events, c))
                                + (IF t \in flushed THEN queue[t] ELSE 0)]
      /\ out' = {BuildPayload(t, c, FALSE) : t \in Ready(events, c) \cup flushed}

Emit(events, c) == Dispatch(events, {}, c)
EmitAndFlush(events, c) == Dispatch(events, Flushed(Queue(events, c), c), c)

-----------------------------------------------------------------------------
(* The live activity tickers and the drive tracking they carry along.       *)
StartDriving(c) ==
  [c EXCEPT !.driving = TRUE, !.driveStartOdometer = c.Odometer]

(* A plausible slip: the end of a drive leaves its ticker running.          *)
StopDrivingKeepsTicker(c) == [c EXCEPT !.driveStartOdometer = 0]

StopDriving(c) ==
  [c EXCEPT !.driving = FALSE, !.driveStartOdometer = 0]

Sleeping == {"asleep", "suspended", "offline"}

(* Plausible slips: a drive ends only when the car comes to rest online, or *)
(* a car that goes offline is not announced.                                *)
StateEventsParkedOnly(prev, next) ==
  (IF next = "driving" THEN {"drive_started"} ELSE {})
    \cup (IF prev = "driving" /\ next = "online" THEN {"drive_ended"} ELSE {})

StateEventsSilentOffline(prev, next) ==
  (IF next = "asleep" THEN {"vehicle_asleep"} ELSE {})
    \cup (IF prev \in Sleeping /\ next \notin Sleeping THEN {"vehicle_woke"} ELSE {})

(* handleStateTransition: the events of a change from prev to next.         *)
StateEvents(prev, next) ==
  (IF next = "driving" THEN {"drive_started"} ELSE {})
    \cup (IF prev = "driving" THEN {"drive_ended"} ELSE {})
    \cup (IF next = "suspended" THEN {"vehicle_falling_asleep"} ELSE {})
    \cup (IF next \in {"asleep", "offline"} THEN {"vehicle_asleep"} ELSE {})
    \cup (IF prev \in Sleeping /\ next \notin Sleeping THEN {"vehicle_woke"} ELSE {})

(* A plausible slip: any stop is an interruption.                           *)
ChargingEventsAnyStop(prev, next) ==
  (IF next = "Charging" THEN {"charging_started"} ELSE {})
    \cup (IF next = "Complete" THEN {"charging_completed"} ELSE {})
    \cup (IF next \notin {"Complete", "Charging"} THEN {"charging_interrupted"} ELSE {})

(* handleChargingStateTransition.                                           *)
ChargingEvents(prev, next) ==
  (IF next = "Charging" THEN {"charging_started"} ELSE {})
    \cup (IF next = "Complete" THEN {"charging_completed"} ELSE {})
    \cup (IF prev = "Charging" /\ next \notin {"Complete", "Charging"}
            THEN {"charging_interrupted"} ELSE {})

(* A plausible slip: an interrupted charge keeps its ticker.                *)
ChargingTickerKept(running, prev, next) ==
  next = "Charging" \/ (running /\ next # "Complete")

(* Its effect on the charging ticker: started, stopped or left alone.       *)
ChargingTicker(running, prev, next) ==
  IF next = "Charging" THEN TRUE
  ELSE IF next = "Complete" \/ prev = "Charging" THEN FALSE
  ELSE running

(* HandleMessage on charging_state decides by the first value's age.        *)
ChargingEdge(v) ==
  IF Seen("charging_state") THEN car.ChargingState # v
  ELSE v = "Charging" /\ link = "settled"

(* A plausible slip: a move into another geofence is only an exit.          *)
GeofenceEventsExitOnly(prev, next) ==
  IF prev = next THEN {}
  ELSE IF prev # "" THEN {"geofence_exited"} ELSE {"geofence_entered"}

GeofenceEvents(prev, next) ==
  (IF prev # "" /\ prev # next THEN {"geofence_exited"} ELSE {})
    \cup (IF next # "" /\ prev # next THEN {"geofence_entered"} ELSE {})

BatteryEvents(level) ==
  (IF LowFires(level, car.batteryLowFired) THEN {"battery_low"} ELSE {})
    \cup (IF HighFires(level, car.batteryHighFired) THEN {"battery_full"} ELSE {})

(* A session that is already open when its topic is first seen: recorded    *)
(* so that the events that open and close sessions can be paired up.        *)
Found(f, session, open) ==
  found' = IF ~Seen(f) /\ open THEN found \cup {session} ELSE found

(* A plausible slip: the two names are written into each other's field.     *)
CacheCarSwapped(field, value) ==
  cache' = [cache EXCEPT ![IF field = "Model" THEN "DisplayName" ELSE "Model"] = value]

(* cacheCar: Load, change one field, Save.  Save gives up silently, and a   *)
(* Load that fails yields an empty entry that Save then writes.             *)
CacheCar(field, value) ==
  cache' \in {cache, [cache EXCEPT ![field] = value], [NoNames EXCEPT ![field] = value]}

-----------------------------------------------------------------------------
(* HandleMessage, one action per topic.                                     *)
Connected == link # "never"

HandleState(v) ==
  LET moved == Seen("state") /\ car.State # v
      c == [Received("state") EXCEPT !.State = v]
      next == IF moved /\ v = "driving" THEN StartDriving(c)
              ELSE IF moved /\ car.State = "driving" THEN StopDriving(c)
              ELSE c
  IN  /\ Connected
      /\ car' = next
      /\ Emit(IF moved THEN StateEvents(car.State, v) ELSE {}, next)
      /\ Found("state", IF v = "driving" THEN "drive" ELSE "sleep",
               v \in {"driving"} \cup Sleeping)
      /\ UNCHANGED <<link, rawEnabled, cache, stopped, restarts>>

HandleChargingState(v) ==
  LET first == ~Seen("charging_state")
      resume == first /\ v = "Charging"
      prev == IF first THEN "" ELSE car.ChargingState
      moved == ChargingEdge(v)
      next == [Received("charging_state") EXCEPT
                 !.ChargingState = v,
                 !.liveActivity = IF moved \/ resume
                                    THEN ChargingTicker(@, prev, v) ELSE @]
  IN  /\ Connected
      /\ car' = next
      /\ Emit(IF moved THEN ChargingEvents(prev, v) ELSE {}, next)
      /\ Found("charging_state", "charge", resume /\ ~moved)
      /\ UNCHANGED <<link, rawEnabled, cache, stopped, restarts>>

(* The first reading is an initialisation and is not checked; every reading *)
(* ends with a flush.                                                       *)
HandleBatteryLevel(level) ==
  LET checked == Seen("battery_level")
      c == [Received("battery_level") EXCEPT !.BatteryLevel = level]
      next == IF checked
                THEN [c EXCEPT !.batteryLowFired = LowLatch(level, @),
                               !.batteryHighFired = HighLatch(level, @)]
                ELSE c
  IN  /\ Connected
      /\ car' = next
      /\ EmitAndFlush(IF checked THEN BatteryEvents(level) ELSE {}, next)
      /\ UNCHANGED <<link, rawEnabled, cache, stopped, restarts, found>>

HandlePluggedIn(b) ==
  LET moved == Seen("plugged_in") /\ car.PluggedIn # b
      next == [Received("plugged_in") EXCEPT !.PluggedIn = b]
  IN  /\ Connected
      /\ car' = next
      /\ Emit(IF ~moved THEN {}
               ELSE IF b THEN {"charger_connected"} ELSE {"charger_disconnected"}, next)
      /\ Found("plugged_in", "plug", b)
      /\ UNCHANGED <<link, rawEnabled, cache, stopped, restarts>>

HandleUpdateAvailable(b) ==
  LET moved == Seen("update_available") /\ ~car.UpdateAvailable /\ b
      next == [Received("update_available") EXCEPT !.UpdateAvailable = b]
  IN  /\ Connected
      /\ car' = next
      /\ Emit(IF moved THEN {"software_update"} ELSE {}, next)
      /\ UNCHANGED <<link, rawEnabled, cache, stopped, restarts, found>>

HandleGeofence(g) ==
  LET next == [Received("geofence") EXCEPT
                 !.PreviousGeofence = car.Geofence, !.Geofence = g]
  IN  /\ Connected
      /\ car' = next
      /\ Emit(IF Seen("geofence") THEN GeofenceEvents(car.Geofence, g) ELSE {}, next)
      /\ Found("geofence", "fence", g # "")
      /\ UNCHANGED <<link, rawEnabled, cache, stopped, restarts>>

HandleDisplayName(name) ==
  LET next == [Received("display_name") EXCEPT !.DisplayName = name]
  IN  /\ Connected
      /\ car' = next
      /\ CacheCar("DisplayName", name)
      /\ EmitAndFlush({}, next)
      /\ UNCHANGED <<link, rawEnabled, stopped, restarts, found>>

HandleModel(model) ==
  LET next == [Received("model") EXCEPT !.Model = model]
  IN  /\ Connected
      /\ car' = next
      /\ CacheCar("Model", model)
      /\ EmitAndFlush({}, next)
      /\ UNCHANGED <<link, rawEnabled, stopped, restarts, found>>

HandleUpdateVersion(version) ==
  LET next == [Received("update_version") EXCEPT !.UpdateVersion = version]
  IN  /\ Connected
      /\ car' = next
      /\ EmitAndFlush({}, next)
      /\ UNCHANGED <<link, rawEnabled, cache, stopped, restarts, found>>

HandleCenterDisplayState(s) ==
  LET moved == Seen("center_display_state") /\ car.CenterDisplayState # 7 /\ s = 7
      next == [Received("center_display_state") EXCEPT !.CenterDisplayState = s]
  IN  /\ Connected
      /\ car' = next
      /\ Emit(IF moved THEN {"sentry_recording"} ELSE {}, next)
      /\ UNCHANGED <<link, rawEnabled, cache, stopped, restarts, found>>

HandleOdometer(km) ==
  LET next == [Received("odometer") EXCEPT !.Odometer = km]
  IN  /\ Connected
      /\ car' = next
      /\ Emit({}, next)
      /\ UNCHANGED <<link, rawEnabled, cache, stopped, restarts, found>>

(* A payload that does not parse: the early returns leave the topic marked  *)
(* as seen and its value as it was.                                         *)
HandleMalformed(f) ==
  /\ Connected
  /\ car' = Received(f)
  /\ Emit({}, Received(f))
  /\ UNCHANGED <<link, rawEnabled, cache, stopped, restarts, found>>

HandleEnrichment(f) ==
  /\ Connected
  /\ car' = Received(f)
  /\ Emit({}, Received(f))
  /\ UNCHANGED <<link, rawEnabled, cache, stopped, restarts, found>>

(* HandleUnknownMessage records the field, or drops it while the flag is off. *)
HandleUnknownMessage(f) ==
  /\ Connected
  /\ rawEnabled
  /\ car' = [car EXCEPT !.raw = RecordRaw(f)]
  /\ out' = {}
  /\ UNCHANGED <<pending, deferred, link, rawEnabled, cache, stopped, restarts,
                 raised, handed, found>>

-----------------------------------------------------------------------------
(* MarkConnected, on every (re)connect: the grace period starts over.       *)
MarkConnected ==
  /\ link' = "fresh"
  /\ out' = {}
  /\ UNCHANGED <<car, pending, deferred, rawEnabled, cache, stopped, restarts,
                 raised, handed, found>>

(* chargingStartGrace has passed since the last connect.                    *)
GraceOver ==
  /\ link = "fresh"
  /\ link' = "settled"
  /\ out' = {}
  /\ UNCHANGED <<car, pending, deferred, rawEnabled, cache, stopped, restarts,
                 raised, handed, found>>

(* The relay's config sets data.raw_enabled; the cars are not touched.      *)
ApplyConfig(b) ==
  /\ rawEnabled' = b
  /\ out' = {}
  /\ UNCHANGED <<car, pending, deferred, link, cache, stopped, restarts,
                 raised, handed, found>>

(* A plausible slip: the safety net emits without looking for its entry.    *)
DeferredEmitUnchecked(t) ==
  /\ deferred[t] > 0
  /\ deferred' = [deferred EXCEPT ![t] = @ - 1]
  /\ pending' = [pending EXCEPT ![t] = IF @ > 0 THEN @ - 1 ELSE 0]
  /\ handed' = [handed EXCEPT ![t] = @ + 1]
  /\ out' = {BuildPayload(t, car, TRUE)}
  /\ UNCHANGED <<car, link, rawEnabled, cache, stopped, restarts, raised, found>>

(* deferredEmit of type t wakes: it emits one entry of its type, if a flush *)
(* has not taken them all.                                                  *)
DeferredEmit(t) ==
  /\ deferred[t] > 0
  /\ deferred' = [deferred EXCEPT ![t] = @ - 1]
  /\ IF pending[t] > 0
       THEN /\ pending' = [pending EXCEPT ![t] = @ - 1]
            /\ handed' = [handed EXCEPT ![t] = @ + 1]
            /\ out' = {BuildPayload(t, car, TRUE)}
       ELSE /\ out' = {}
            /\ UNCHANGED <<pending, handed>>
  /\ UNCHANGED <<car, link, rawEnabled, cache, stopped, restarts, raised, found>>

(* A tick of the charging or of the driving goroutine, after its recheck.   *)
(* The ticker runs, or did when Stop came: a tick taken before is still sent. *)
LiveActivityUpdate(t) ==
  /\ IF t = "live_activity_update"
       THEN car.ChargingState = "Charging" /\ (car.liveActivity \/ stopped)
       ELSE car.State = "driving" /\ (car.driving \/ stopped)
  /\ out' = {BuildPayload(t, car, FALSE)}
  /\ UNCHANGED <<car, pending, deferred, link, rawEnabled, cache, stopped, restarts,
                 raised, handed, found>>

(* Manager.Stop.  The MQTT client is disconnected after it, so handlers and *)
(* deferred events may still run.                                           *)
Stop ==
  /\ ~stopped
  /\ stopped' = TRUE
  /\ car' = [StopDriving(car) EXCEPT !.liveActivity = FALSE]
  /\ out' = {}
  /\ UNCHANGED <<pending, deferred, link, rawEnabled, cache, restarts,
                 raised, handed, found>>

(* The process ends, by a crash or a shutdown, and a new one starts: only   *)
(* the name cache survives, and not even that without the optional volume.  *)
Restart ==
  /\ restarts < MaxRestarts
  /\ restarts' = restarts + 1
  /\ cache' \in {cache, NoNames}
  /\ car' = NewCar(cache')
  /\ pending' = NoEvents
  /\ deferred' = NoEvents
  /\ link' = "never"
  /\ rawEnabled' = FALSE
  /\ stopped' = FALSE
  /\ raised' = NoEvents
  /\ handed' = NoEvents
  /\ out' = {}
  /\ found' = {}

Init ==
  /\ cache \in [DisplayName : DisplayNames \cup {""}, Model : Models \cup {""}]
  /\ car = NewCar(cache)
  /\ pending = NoEvents
  /\ deferred = NoEvents
  /\ link = "never"
  /\ rawEnabled = FALSE
  /\ stopped = FALSE
  /\ restarts = 0
  /\ raised = NoEvents
  /\ handed = NoEvents
  /\ out = {}
  /\ found = {}

HandleMessage ==
  \/ \E v \in StateValues : HandleState(v)
  \/ \E v \in ChargingValues : HandleChargingState(v)
  \/ \E level \in BatteryLevels : HandleBatteryLevel(level)
  \/ \E b \in PluggedValues : HandlePluggedIn(b)
  \/ \E b \in UpdateValues : HandleUpdateAvailable(b)
  \/ \E g \in Geofences : HandleGeofence(g)
  \/ \E name \in DisplayNames : HandleDisplayName(name)
  \/ \E model \in Models : HandleModel(model)
  \/ \E version \in Versions : HandleUpdateVersion(version)
  \/ \E s \in DisplayStates : HandleCenterDisplayState(s)
  \/ \E km \in Odometers : HandleOdometer(km)
  \/ \E f \in MalformedFields : HandleMalformed(f)
  \/ \E f \in OtherFields : HandleEnrichment(f)

Next ==
  \/ HandleMessage
  \/ \E f \in UnknownFields : HandleUnknownMessage(f)
  \/ \E t \in EventTypes : DeferredEmit(t)
  \/ \E t \in LiveTypes : LiveActivityUpdate(t)
  \/ \E b \in RawFlags : ApplyConfig(b)
  \/ MarkConnected
  \/ GraceOver
  \/ Stop
  \/ Restart

Spec == Init /\ [][Next]_vars

(* A sleeping goroutine is woken by the runtime whatever else happens.      *)
FairSpec == Spec /\ \A t \in EventTypes : WF_vars(DeferredEmit(t))

-----------------------------------------------------------------------------
CarState ==
  [State : StateValues \cup {""}, ChargingState : ChargingValues \cup {""},
   BatteryLevel : BatteryLevels \cup {0}, PluggedIn : BOOLEAN,
   Geofence : Geofences \cup {""}, PreviousGeofence : Geofences \cup {""},
   UpdateAvailable : BOOLEAN, UpdateVersion : Versions \cup {""},
   DisplayName : DisplayNames \cup {""}, Model : Models \cup {""},
   CenterDisplayState : DisplayStates \cup {0}, Odometer : Odometers \cup {0},
   batteryLowFired : BOOLEAN, batteryHighFired : BOOLEAN,
   liveActivity : BOOLEAN, driving : BOOLEAN,
   driveStartOdometer : Odometers \cup {0},
   initialized : SUBSET Fields, raw : SUBSET (Fields \cup UnknownFields)]

Payload ==
  [type : EventTypes \cup LiveTypes, late : BOOLEAN, battery : BatteryLevels \cup {0},
   fence : Geofences \cup {""}, distance : Nat,
   raw : SUBSET (Fields \cup UnknownFields)]

(* The shape of every variable, which is what the operations rely on.       *)
TypeOK ==
  /\ car \in CarState
  /\ pending \in [EventTypes -> Nat]
  /\ deferred \in [EventTypes -> Nat]
  /\ link \in {"never", "fresh", "settled"}
  /\ rawEnabled \in BOOLEAN
  /\ cache \in [DisplayName : DisplayNames \cup {""}, Model : Models \cup {""}]
  /\ stopped \in BOOLEAN
  /\ restarts \in Nat
  /\ raised \in [EventTypes -> Nat]
  /\ handed \in [EventTypes -> Nat]
  /\ \A p \in out : p \in Payload
  /\ found \subseteq {"drive", "sleep", "charge", "plug", "fence"}

(* No event is lost or handed over twice while the process lives: what has  *)
(* been detected has either been handed to the emitter or is waiting in     *)
(* pendingEvents.  A flush and the safety nets compete for the same entry.  *)
EveryEventAccounted == \A t \in EventTypes : raised[t] = handed[t] + pending[t]

(* Every waiting entry has a deferredEmit goroutine left that will find it, *)
(* although a goroutine takes the first entry of its type and not its own.  *)
PendingHasTimer == \A t \in EventTypes : pending[t] <= deferred[t]

Delivery(t) == INSTANCE EventDelivery WITH raised <- raised[t], handed <- handed[t]

(* Each type of event is delivered as EventDelivery promises: in its safety *)
(* part, no event is handed over twice, and none is dropped but by a crash. *)
DeliveryIsSafe ==
  /\ \A t \in EventTypes : Delivery(t)!Init
  /\ [][\A t \in EventTypes : Delivery(t)!Step]_<<raised, handed>>

(* And all of it, \A t \in EventTypes : Delivery(t)!Spec written conjunct by *)
(* conjunct: since a deferredEmit that sleeps wakes up, every event is      *)
(* eventually handed over, whether or not name and battery level arrive.    *)
DeliversEveryEvent ==
  /\ DeliveryIsSafe
  /\ \A t \in EventTypes : Delivery(t)!Fairness

(* The charging ticker runs exactly while the car charges: a charge found   *)
(* running at connect resumes it, and each way out of a charge stops it.    *)
TickerMatchesCharging ==
  ~stopped => (car.liveActivity <=> car.ChargingState = "Charging")

(* The driving ticker runs exactly during the drives the process saw begin. *)
TickerMatchesDriving ==
  ~stopped => (car.driving <=> car.State = "driving" /\ raised["drive_started"] > 0)

(* drive_started and drive_ended alternate: every end closes a drive that   *)
(* was announced, or that was already under way when the state was first    *)
(* seen, and only the drive in progress has no end yet.                     *)
DrivesPair ==
  raised["drive_started"] + Ind("drive" \in found)
    = raised["drive_ended"] + Ind(car.State = "driving")

(* The same for geofence_entered and geofence_exited, through moves from    *)
(* one geofence straight into another.                                      *)
FencesPair ==
  raised["geofence_entered"] + Ind("fence" \in found)
    = raised["geofence_exited"] + Ind(car.Geofence # "")

(* The same for charger_connected and charger_disconnected.                 *)
PlugsPair ==
  raised["charger_connected"] + Ind("plug" \in found)
    = raised["charger_disconnected"] + Ind(car.PluggedIn)

(* A charge that was announced, or found running, is closed by              *)
(* charging_interrupted or charging_completed, and only once by the former; *)
(* charging_completed may also come without a charge.                       *)
ChargesEnd ==
  LET open == raised["charging_started"] + Ind("charge" \in found)
      ended == raised["charging_interrupted"] + Ind(car.ChargingState = "Charging")
  IN  ended <= open /\ open <= ended + raised["charging_completed"]

(* vehicle_woke is only sent for a car that was announced asleep, or found  *)
(* asleep, however it moves among suspended, asleep and offline; and of a   *)
(* car that has slept and is awake, it has been sent at least once.         *)
WakesFollowSleeps ==
  LET slept == raised["vehicle_falling_asleep"] + raised["vehicle_asleep"]
                 + Ind("sleep" \in found)
      ended == raised["vehicle_woke"] + Ind(car.State \in Sleeping)
  IN  ended <= slept /\ (slept > 0 => ended > 0)

(* A payload's distance is the difference of two published odometer values: *)
(* never the whole odometer, although a drive may begin before it is known. *)
DistanceWasDriven ==
  \A p \in out : p.distance = 0 \/ \E from, to \in Odometers : p.distance = to - from

(* What goes out with a message: an event that the handler detected or      *)
(* flushed, and neither the safety net's nor a live activity update.        *)
Prompt(p) == p.type \in EventTypes /\ ~p.late

(* machine.go, recordRaw, "Keep no stale snapshot around after the relay    *)
(* turns the flag off": whatever came before it went off, an event that     *)
(* goes out with a message carries no raw fields.  The safety net and the   *)
(* live activity updates, which no message precedes, may carry old ones.    *)
(* No payload at all carries more fields than the cap.                      *)
RawFollowsFlag ==
  \A p \in out : /\ Prompt(p) /\ p.raw # {} => rawEnabled
                 /\ Cardinality(p.raw) <= MaxRawFields

(* machine.go, emit and flushPendingIfEnriched: an event goes out before    *)
(* its safety net only from a record that has a name and a battery level,   *)
(* and a version for software_update, at the moment it is worded.           *)
OnTimeEventsReady == \A p \in out : Prompt(p) => IsReadyFor(p.type, car)

(* A geofence_exited that goes out with the move itself names the geofence  *)
(* the car was in, and not where it is: what a move sends is worded from    *)
(* PreviousGeofence, and nothing deferred goes along.                       *)
PromptExitNamesFence ==
  [][\A p \in out' : p.type = "geofence_exited" /\ car'.Geofence # car.Geofence =>
       p.fence = car.Geofence /\ p.fence \notin {"", car'.Geofence}]_vars

-----------------------------------------------------------------------------
(* Statements of the repository that the code does not keep.                *)

(* machine.go, isEnriched: "whether we have enough state to build a         *)
(* meaningful notification body".  An event that was not forced out by the  *)
(* safety net reports a battery level that TeslaMate published.             *)
OnTimeEventsKnowBattery == \A p \in out : Prompt(p) => p.battery \in BatteryLevels

(* models.go, EventData.Raw: "Off unless the relay sets data.raw_enabled".  *)
(* No payload carries raw fields while the flag is off.                     *)
RawOffUnlessEnabled == \A p \in out : p.raw # {} => rawEnabled

(* README: geofence_exited is "Vehicle exits a geofence"; CarState keeps    *)
(* the "previous geofence name before update" for it.  The event names a    *)
(* geofence, and not the one the car is in.                                 *)
ExitNamesFenceLeft ==
  \A p \in out : p.type = "geofence_exited" => p.fence \notin {"", car.Geofence}
=============================================================================
