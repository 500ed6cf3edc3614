-------------------------- MODULE CarMachineProofs --------------------------
(***************************************************************************)
(* Proofs about CarMachine, for every choice of published values, of the   *)
(* thresholds and of the bounds.  Each handler ends in Dispatch, so the    *)
(* facts about the counters are proved once, for Dispatch.                 *)
(***************************************************************************)
EXTENDS CarMachine, FiniteSetTheorems, TLAPS

(* The counters alone: what Dispatch needs to be well defined.              *)
CountersOK ==
  /\ pending \in [EventTypes -> Nat]
  /\ deferred \in [EventTypes -> Nat]
  /\ raised \in [EventTypes -> Nat]
  /\ handed \in [EventTypes -> Nat]

(* A raised event is either ready or late, so the two parts of a handler's  *)
(* events add up to them.                                                   *)
LEMMA ReadyOrLate ==
  ASSUME NEW events, NEW c, NEW t
  PROVE  Ind(t \in events) = Ind(t \in Ready(events, c)) + Ind(t \in Late(events, c))
  BY DEF Ind, Ready, Late

(* Dispatch keeps the counters natural numbers.                             *)
LEMMA DispatchCounters ==
  ASSUME CountersOK, NEW events, NEW flushed, NEW c, Dispatch(events, flushed, c)
  PROVE  CountersOK'
<1> DEFINE queue == Queue(events, c)
<1>1. queue \in [EventTypes -> Nat]
  BY DEF Queue, CountersOK, Ind
<1>2. pending' \in [EventTypes -> Nat]
  BY <1>1 DEF Dispatch
<1>3. deferred' \in [EventTypes -> Nat]
  BY DEF Dispatch, Timers, CountersOK, Ind
<1>4. raised' \in [EventTypes -> Nat]
  BY DEF Dispatch, CountersOK, Ind
<1>5. handed' \in [EventTypes -> Nat]
  BY <1>1 DEF Dispatch, CountersOK, Ind
<1> QED
  BY <1>2, <1>3, <1>4, <1>5 DEF CountersOK

(* Whatever a flush takes from the queue it hands over, and an event that   *)
(* is not handed over at once is queued with a safety net of its own.       *)
LEMMA DispatchAccounts ==
  ASSUME CountersOK, EveryEventAccounted, PendingHasTimer,
         NEW events, NEW flushed, NEW c, Dispatch(events, flushed, c)
  PROVE  EveryEventAccounted' /\ PendingHasTimer'
<1> SUFFICES ASSUME NEW t \in EventTypes
             PROVE  /\ raised'[t] = handed'[t] + pending'[t]
                    /\ pending'[t] <= deferred'[t]
  BY DEF EveryEventAccounted, PendingHasTimer
<1> DEFINE ready == Ind(t \in Ready(events, c))
           late  == Ind(t \in Late(events, c))
           queue == Queue(events, c)
<1>1. ready \in {0, 1} /\ late \in {0, 1} /\ Ind(t \in events) = ready + late
  BY ReadyOrLate DEF Ind
<1>2. queue[t] = pending[t] + late
  BY DEF Queue
<1>3. raised'[t] = raised[t] + Ind(t \in events) /\ deferred'[t] = deferred[t] + late
  BY DEF Dispatch, Timers
<1>4. /\ pending'[t] = (IF t \in flushed THEN 0 ELSE queue[t])
      /\ handed'[t] = handed[t] + ready + (IF t \in flushed THEN queue[t] ELSE 0)
  BY DEF Dispatch
<1>5. /\ pending[t] \in Nat /\ deferred[t] \in Nat /\ handed[t] \in Nat
      /\ raised[t] = handed[t] + pending[t]
      /\ pending[t] <= deferred[t]
  BY DEF CountersOK, EveryEventAccounted, PendingHasTimer
<1> HIDE DEF ready, late, queue
<1> QED
  BY <1>1, <1>2, <1>3, <1>4, <1>5

(* Every topic handler ends in one Dispatch, of the record it leaves, and   *)
(* flushes only what that record is ready for.                              *)
Dispatched ==
  \E events, flushed : /\ Dispatch(events, flushed, car')
                       /\ \A t \in flushed : IsReadyFor(t, car')

LEMMA HandlersDispatch ==
  ASSUME HandleMessage
  PROVE  Dispatched
<1>1. ASSUME NEW v \in StateValues, HandleState(v)
      PROVE  Dispatched
  <2>1. \E events : Emit(events, car')
    BY <1>1 DEF HandleState
  <2> QED
    BY <2>1 DEF Emit, Dispatched
<1>2. ASSUME NEW v \in ChargingValues, HandleChargingState(v)
      PROVE  Dispatched
  <2>1. \E events : Emit(events, car')
    BY <1>2 DEF HandleChargingState
  <2> QED
    BY <2>1 DEF Emit, Dispatched
<1>3. ASSUME NEW level \in BatteryLevels, HandleBatteryLevel(level)
      PROVE  Dispatched
  <2>1. \E events : EmitAndFlush(events, car')
    BY <1>3 DEF HandleBatteryLevel
  <2> QED
    BY <2>1 DEF EmitAndFlush, Flushed, Dispatched
<1>4. ASSUME NEW b \in PluggedValues, HandlePluggedIn(b)
      PROVE  Dispatched
  <2>1. \E events : Emit(events, car')
    BY <1>4 DEF HandlePluggedIn
  <2> QED
    BY <2>1 DEF Emit, Dispatched
<1>5. ASSUME NEW b \in UpdateValues, HandleUpdateAvailable(b)
      PROVE  Dispatched
  <2>1. \E events : Emit(events, car')
    BY <1>5 DEF HandleUpdateAvailable
  <2> QED
    BY <2>1 DEF Emit, Dispatched
<1>6. ASSUME NEW g \in Geofences, HandleGeofence(g)
      PROVE  Dispatched
  <2>1. \E events : Emit(events, car')
    BY <1>6 DEF HandleGeofence
  <2> QED
    BY <2>1 DEF Emit, Dispatched
<1>7. ASSUME NEW name \in DisplayNames, HandleDisplayName(name)
      PROVE  Dispatched
  <2>1. \E events : EmitAndFlush(events, car')
    BY <1>7 DEF HandleDisplayName
  <2> QED
    BY <2>1 DEF EmitAndFlush, Flushed, Dispatched
<1>8. ASSUME NEW model \in Models, HandleModel(model)
      PROVE  Dispatched
  <2>1. \E events : EmitAndFlush(events, car')
    BY <1>8 DEF HandleModel
  <2> QED
    BY <2>1 DEF EmitAndFlush, Flushed, Dispatched
<1>9. ASSUME NEW version \in Versions, HandleUpdateVersion(version)
      PROVE  Dispatched
  <2>1. \E events : EmitAndFlush(events, car')
    BY <1>9 DEF HandleUpdateVersion
  <2> QED
    BY <2>1 DEF EmitAndFlush, Flushed, Dispatched
<1>10. ASSUME NEW s \in DisplayStates, HandleCenterDisplayState(s)
       PROVE  Dispatched
  <2>1. \E events : Emit(events, car')
    BY <1>10 DEF HandleCenterDisplayState
  <2> QED
    BY <2>1 DEF Emit, Dispatched
<1>11. ASSUME NEW km \in Odometers, HandleOdometer(km)
       PROVE  Dispatched
  <2>1. \E events : Emit(events, car')
    BY <1>11 DEF HandleOdometer
  <2> QED
    BY <2>1 DEF Emit, Dispatched
<1>12. ASSUME NEW f \in MalformedFields, HandleMalformed(f)
       PROVE  Dispatched
  <2>1. \E events : Emit(events, car')
    BY <1>12 DEF HandleMalformed
  <2> QED
    BY <2>1 DEF Emit, Dispatched
<1>13. ASSUME NEW f \in OtherFields, HandleEnrichment(f)
       PROVE  Dispatched
  <2>1. \E events : Emit(events, car')
    BY <1>13 DEF HandleEnrichment
  <2> QED
    BY <2>1 DEF Emit, Dispatched
<1> QED
  BY <1>1, <1>2, <1>3, <1>4, <1>5, <1>6, <1>7, <1>8, <1>9, <1>10, <1>11,
     <1>12, <1>13 DEF HandleMessage

-----------------------------------------------------------------------------
(* The two delivery invariants are inductive together with the types of the *)
(* counters: a safety net that wakes lowers pending and deferred by one     *)
(* each, or finds pending already at 0.                                     *)
AccountInv == CountersOK /\ EveryEventAccounted /\ PendingHasTimer

LEMMA AccountInit == Init => AccountInv
<1> SUFFICES ASSUME Init PROVE AccountInv
  OBVIOUS
<1>1. pending = NoEvents /\ deferred = NoEvents /\ raised = NoEvents /\ handed = NoEvents
  BY DEF Init
<1>2. NoEvents \in [EventTypes -> Nat] /\ \A t \in EventTypes : NoEvents[t] = 0
  BY DEF NoEvents
<1> QED
  BY <1>1, <1>2 DEF AccountInv, CountersOK, EveryEventAccounted, PendingHasTimer

LEMMA AccountStep == AccountInv /\ [Next]_vars => AccountInv'
<1> SUFFICES ASSUME AccountInv, [Next]_vars PROVE AccountInv'
  OBVIOUS
<1> USE DEF AccountInv
<1>1. CASE HandleMessage
  <2>1. PICK events, flushed : Dispatch(events, flushed, car')
    BY <1>1, HandlersDispatch DEF Dispatched
  <2> QED
    BY <2>1, DispatchCounters, DispatchAccounts
<1>2. ASSUME NEW t \in EventTypes, DeferredEmit(t)
      PROVE  AccountInv'
  <2>1. CASE pending[t] > 0
    BY <1>2, <2>1
       DEF DeferredEmit, CountersOK, EveryEventAccounted, PendingHasTimer
  <2>2. CASE ~(pending[t] > 0)
    BY <1>2, <2>2
       DEF DeferredEmit, CountersOK, EveryEventAccounted, PendingHasTimer
  <2> QED
    BY <2>1, <2>2
<1>3. CASE Restart
  BY <1>3 DEF Restart, NoEvents, CountersOK, EveryEventAccounted, PendingHasTimer
<1>4. CASE UNCHANGED <<pending, deferred, raised, handed>>
  BY <1>4 DEF CountersOK, EveryEventAccounted, PendingHasTimer
<1> QED
  BY <1>1, <1>2, <1>3, <1>4
     DEF Next, HandleUnknownMessage, LiveActivityUpdate, ApplyConfig, MarkConnected,
         GraceOver, Stop, vars

(* In every run of the process every detected event has been handed to the  *)
(* emitter exactly once or is waiting in the queue.                         *)
THEOREM EventsAccounted == Spec => []EveryEventAccounted
<1>1. AccountInv => EveryEventAccounted
  BY DEF AccountInv
<1> QED
  BY <1>1, AccountInit, AccountStep, PTL DEF Spec

(* Every waiting event has a safety net of its own left, so that a flush    *)
(* that never comes cannot strand it.                                       *)
THEOREM PendingTimed == Spec => []PendingHasTimer
<1>1. AccountInv => PendingHasTimer
  BY DEF AccountInv
<1> QED
  BY <1>1, AccountInit, AccountStep, PTL DEF Spec

-----------------------------------------------------------------------------
(* A handler's step, seen by one type of event, is a step of EventDelivery. *)
LEMMA DispatchDelivers ==
  ASSUME CountersOK, EveryEventAccounted, NEW t \in EventTypes,
         NEW events, NEW flushed, NEW c, Dispatch(events, flushed, c)
  PROVE  Delivery(t)!Step
<1>1. /\ raised'[t] = raised[t] + Ind(t \in events)
      /\ handed'[t] = handed[t] + Ind(t \in Ready(events, c))
                       + (IF t \in flushed THEN Queue(events, c)[t] ELSE 0)
      /\ Queue(events, c)[t] = pending[t] + Ind(t \in Late(events, c))
  BY DEF Dispatch, Queue
<1>2. Ind(t \in events) = Ind(t \in Ready(events, c)) + Ind(t \in Late(events, c))
  BY ReadyOrLate
<1>3. /\ Ind(t \in Ready(events, c)) \in {0, 1}
      /\ Ind(t \in Late(events, c)) \in {0, 1}
      /\ Ind(t \in events) \in {0, 1}
  BY DEF Ind
<1>4. /\ raised[t] \in Nat /\ handed[t] \in Nat /\ pending[t] \in Nat
      /\ raised[t] = handed[t] + pending[t]
  BY DEF CountersOK, EveryEventAccounted
<1>5. /\ raised'[t] \in {raised[t], raised[t] + 1}
      /\ handed'[t] \in handed[t] .. raised'[t]
  BY <1>1, <1>2, <1>3, <1>4
<1> QED
  BY <1>4, <1>5 DEF Delivery!Step, Delivery!Next, Delivery!Raise, Delivery!Hand, Delivery!vars

(* CarMachine implements the safety part of EventDelivery: no event of any  *)
(* type is handed to the emitter more often than it was detected, and none  *)
(* is forgotten except by a restart.                                        *)
THEOREM ImplementsDelivery == Spec => DeliveryIsSafe
<1>1. Init => \A t \in EventTypes : Delivery(t)!Init
  BY DEF Init, NoEvents, Delivery!Init
<1>2. AccountInv /\ [Next]_vars
        => [\A t \in EventTypes : Delivery(t)!Step]_<<raised, handed>>
  <2> SUFFICES ASSUME AccountInv, [Next]_vars, NEW t \in EventTypes
               PROVE  Delivery(t)!Step
    OBVIOUS
  <2> USE DEF AccountInv
  <2>1. CASE HandleMessage
    <3>1. PICK events, flushed : Dispatch(events, flushed, car')
      BY <2>1, HandlersDispatch DEF Dispatched
    <3> QED
      BY <3>1, DispatchDelivers
  <2>2. CASE \E u \in EventTypes : DeferredEmit(u)
    <3>1. PICK u \in EventTypes : DeferredEmit(u)
      BY <2>2
    <3>2. CASE u = t /\ pending[u] > 0
      <4>1. raised'[t] = raised[t] /\ handed'[t] = handed[t] + 1
        BY <3>1, <3>2 DEF DeferredEmit, CountersOK
      <4>2. /\ raised[t] \in Nat /\ handed[t] \in Nat /\ pending[t] \in Nat
            /\ raised[t] = handed[t] + pending[t]
        BY DEF CountersOK, EveryEventAccounted
      <4> QED
        BY <4>1, <4>2, <3>2 DEF Delivery!Step, Delivery!Next, Delivery!Hand
    <3>3. CASE ~(u = t /\ pending[u] > 0)
      <4>1. raised'[t] = raised[t] /\ handed'[t] = handed[t]
        BY <3>1, <3>3 DEF DeferredEmit, CountersOK
      <4> QED
        BY <4>1 DEF Delivery!Step, Delivery!vars
    <3> QED
      BY <3>2, <3>3
  <2>3. CASE Restart
    BY <2>3 DEF Restart, NoEvents, Delivery!Step, Delivery!Next, Delivery!Crash
  <2>4. CASE UNCHANGED <<raised, handed>>
    BY <2>4 DEF Delivery!Step, Delivery!vars
  <2> QED
    BY <2>1, <2>2, <2>3, <2>4
       DEF Next, HandleUnknownMessage, LiveActivityUpdate, ApplyConfig, MarkConnected,
         GraceOver, Stop, vars
<1> QED
  BY <1>1, <1>2, AccountInit, AccountStep, PTL DEF Spec, DeliveryIsSafe

-----------------------------------------------------------------------------
(* Type correctness.                                                        *)

(* A payload reports published values only.                                 *)
LEMMA PayloadType ==
  ASSUME CarAssumption, NEW c \in CarState, NEW t \in EventTypes \cup LiveTypes,
         NEW late \in BOOLEAN
  PROVE  BuildPayload(t, c, late) \in Payload
<1>1. Distance(c) \in Nat
  <2>1. c.Odometer \in Nat /\ c.driveStartOdometer \in Nat
    <3>1. c.Odometer \in Odometers \cup {0} /\ c.driveStartOdometer \in Odometers \cup {0}
      BY DEF CarState
    <3>2. Odometers \cup {0} \subseteq Nat
      BY DEF CarAssumption
    <3> QED
      BY <3>1, <3>2
  <2> QED
    BY <2>1 DEF Distance
<1>2. ExitedFence(c) \in Geofences \cup {""}
  BY DEF ExitedFence, CarState
<1> QED
  BY <1>1, <1>2 DEF BuildPayload, Payload, CarState

(* Dispatch keeps the types of all it changes.                              *)
LEMMA DispatchType ==
  ASSUME CarAssumption, CountersOK, NEW c \in CarState,
         NEW events \in SUBSET EventTypes, NEW flushed \in SUBSET EventTypes,
         Dispatch(events, flushed, c)
  PROVE  CountersOK' /\ \A p \in out' : p \in Payload
<1>1. CountersOK'
  BY DispatchCounters
<1>2. \A p \in out' : p \in Payload
  BY PayloadType DEF Dispatch, Ready
<1> QED
  BY <1>1, <1>2

(* The record a process starts with.                                        *)
LEMMA NewCarType ==
  ASSUME NEW names \in [DisplayName : DisplayNames \cup {""}, Model : Models \cup {""}]
  PROVE  NewCar(names) \in CarState
  BY DEF NewCar, CarState, Fields, TypedFields

LEMMA TypeInit == Init => TypeOK
<1> SUFFICES ASSUME Init PROVE TypeOK
  OBVIOUS
<1>1. cache \in [DisplayName : DisplayNames \cup {""}, Model : Models \cup {""}]
  BY DEF Init
<1>2. NewCar(cache) \in CarState
  BY <1>1, NewCarType
<1>3. NoEvents \in [EventTypes -> Nat]
  BY DEF NoEvents
<1> QED
  BY <1>1, <1>2, <1>3 DEF Init, TypeOK

(* A handler that leaves a record behind and dispatches known events.       *)
Handled(events, flushed, c) ==
  /\ c \in CarState /\ car' = c
  /\ events \subseteq EventTypes /\ flushed \subseteq EventTypes
  /\ Dispatch(events, flushed, c)

Surroundings ==
  /\ link \in {"never", "fresh", "settled"}
  /\ rawEnabled \in BOOLEAN
  /\ cache \in [DisplayName : DisplayNames \cup {""}, Model : Models \cup {""}]
  /\ stopped \in BOOLEAN
  /\ restarts \in Nat
  /\ found \subseteq {"drive", "sleep", "charge", "plug", "fence"}

LEMMA TypeHandled ==
  ASSUME TypeOK, Surroundings', NEW events, NEW flushed, NEW c, Handled(events, flushed, c)
  PROVE  TypeOK'
<1>1. CountersOK' /\ (\A p \in out' : p \in Payload)
  <2>1. CountersOK
    BY DEF TypeOK, CountersOK
  <2> QED
    BY <2>1, DispatchType, CarAssumption DEF Handled
<1>2. car' \in CarState
  BY DEF Handled
<1> QED
  BY <1>1, <1>2 DEF TypeOK, CountersOK, Surroundings

(* The updates of the record that the handlers make.                        *)
LEMMA UpdatesWithin ==
  ASSUME NEW c \in CarState,
         NEW Flags \in SUBSET BOOLEAN,
         NEW Kms \in SUBSET (Odometers \cup {0}),
         NEW Fences \in SUBSET (Geofences \cup {""})
  PROVE  /\ \A b \in Flags, km \in Kms :
              [c EXCEPT !.driving = b, !.driveStartOdometer = km] \in CarState
         /\ \A low, high \in Flags :
              [c EXCEPT !.batteryLowFired = low, !.batteryHighFired = high] \in CarState
         /\ \A v \in ChargingValues, b \in Flags :
              [c EXCEPT !.ChargingState = v, !.liveActivity = b] \in CarState
         /\ \A g, h \in Fences :
              [c EXCEPT !.PreviousGeofence = h, !.Geofence = g] \in CarState
         /\ \A b \in Flags : [c EXCEPT !.liveActivity = b] \in CarState
         /\ \A r \in SUBSET (Fields \cup UnknownFields) : [c EXCEPT !.raw = r] \in CarState
<1>1. ASSUME NEW b \in Flags, NEW km \in Kms
      PROVE  [c EXCEPT !.driving = b, !.driveStartOdometer = km] \in CarState
  BY ZenonT(60) DEF CarState
<1>2. ASSUME NEW low \in Flags, NEW high \in Flags
      PROVE  [c EXCEPT !.batteryLowFired = low, !.batteryHighFired = high] \in CarState
  BY ZenonT(60) DEF CarState
<1>3. ASSUME NEW v \in ChargingValues, NEW b \in Flags
      PROVE  [c EXCEPT !.ChargingState = v, !.liveActivity = b] \in CarState
  BY ZenonT(60) DEF CarState
<1>4. ASSUME NEW g \in Fences, NEW h \in Fences
      PROVE  [c EXCEPT !.PreviousGeofence = h, !.Geofence = g] \in CarState
  BY ZenonT(60) DEF CarState
<1>5. ASSUME NEW b \in Flags PROVE [c EXCEPT !.liveActivity = b] \in CarState
  BY ZenonT(60) DEF CarState
<1>6. ASSUME NEW r \in SUBSET (Fields \cup UnknownFields)
      PROVE  [c EXCEPT !.raw = r] \in CarState
  BY ZenonT(60) DEF CarState
<1> QED
  BY <1>1, <1>2, <1>3, <1>4, <1>5, <1>6

LEMMA Updates ==
  ASSUME NEW c \in CarState
  PROVE  /\ \A b \in BOOLEAN, km \in Odometers \cup {0} :
              [c EXCEPT !.driving = b, !.driveStartOdometer = km] \in CarState
         /\ \A low, high \in BOOLEAN :
              [c EXCEPT !.batteryLowFired = low, !.batteryHighFired = high] \in CarState
         /\ \A v \in ChargingValues, b \in BOOLEAN :
              [c EXCEPT !.ChargingState = v, !.liveActivity = b] \in CarState
         /\ \A g, h \in Geofences \cup {""} :
              [c EXCEPT !.PreviousGeofence = h, !.Geofence = g] \in CarState
         /\ \A b \in BOOLEAN : [c EXCEPT !.liveActivity = b] \in CarState
         /\ \A r \in SUBSET (Fields \cup UnknownFields) : [c EXCEPT !.raw = r] \in CarState
<1>1. /\ BOOLEAN \in SUBSET BOOLEAN
      /\ Odometers \cup {0} \in SUBSET (Odometers \cup {0})
      /\ Geofences \cup {""} \in SUBSET (Geofences \cup {""})
  OBVIOUS
<1> QED
  BY <1>1, UpdatesWithin, Zenon

(* A message leaves the record a record.                                    *)
LEMMA ReceivedType ==
  ASSUME car \in CarState, NEW f \in Fields
  PROVE  Received(f) \in CarState
<1>1. RecordRaw(f) \subseteq Fields \cup UnknownFields
  BY DEF RecordRaw, CarState
<1>2. car.initialized \cup {f} \subseteq Fields
  BY DEF CarState
<1> DEFINE seen == car.initialized \cup {f}
           raw == RecordRaw(f)
<1>3. Received(f) = [car EXCEPT !.initialized = seen, !.raw = raw]
  BY DEF Received, CarState
<1> HIDE DEF seen, raw
<1>4. seen \in SUBSET Fields /\ raw \in SUBSET (Fields \cup UnknownFields)
  BY <1>1, <1>2 DEF seen, raw
<1> DEFINE once == [car EXCEPT !.initialized = seen]
<1>5. once \in CarState
  BY <1>4, ZenonT(60) DEF CarState
<1>6. Received(f) = [once EXCEPT !.raw = raw]
  BY <1>3 DEF CarState
<1> HIDE DEF once
<1> QED
  BY <1>4, <1>5, <1>6, Updates

LEMMA DrivingTypes ==
  ASSUME NEW c \in CarState
  PROVE  StartDriving(c) \in CarState /\ StopDriving(c) \in CarState
<1>1. c.Odometer \in Odometers \cup {0} /\ 0 \in Odometers \cup {0}
  BY DEF CarState
<1> QED
  BY <1>1, Updates DEF StartDriving, StopDriving

LEMMA TypeStep == TypeOK /\ [Next]_vars => TypeOK'
<1> SUFFICES ASSUME TypeOK, [Next]_vars PROVE TypeOK'
  OBVIOUS
<1>1. \A f \in TypedFields \cup OtherFields : Received(f) \in CarState
  BY ReceivedType DEF Fields, TypeOK
<1>2. ASSUME NEW v \in StateValues, HandleState(v) PROVE TypeOK'
  <2> DEFINE moved == Seen("state") /\ car.State # v
             c == [Received("state") EXCEPT !.State = v]
             next == IF moved /\ v = "driving" THEN StartDriving(c)
                     ELSE IF moved /\ car.State = "driving" THEN StopDriving(c)
                     ELSE c
             events == IF moved THEN StateEvents(car.State, v) ELSE {}
  <2>1. Received("state") \in CarState
    BY <1>1 DEF TypedFields
  <2>2. c \in CarState
    BY <2>1, ZenonT(60) DEF CarState
  <2>3. next \in CarState
    BY <2>2, DrivingTypes
  <2>4. events \subseteq EventTypes
    BY DEF StateEvents, EventTypes
  <2>5. Handled(events, {}, next)
    BY <1>2, <2>3, <2>4 DEF HandleState, Emit, Handled
  <2>6. Surroundings'
    BY <1>2 DEF HandleState, Found, TypeOK, Surroundings
  <2> QED
    BY <2>5, <2>6, TypeHandled
<1>3. ASSUME NEW v \in ChargingValues, HandleChargingState(v) PROVE TypeOK'
  <2> DEFINE first == ~Seen("charging_state")
             resume == first /\ v = "Charging"
             prev == IF first THEN "" ELSE car.ChargingState
             moved == ChargingEdge(v)
             next == [Received("charging_state") EXCEPT
                        !.ChargingState = v,
                        !.liveActivity = IF moved \/ resume
                                           THEN ChargingTicker(@, prev, v) ELSE @]
             events == IF moved THEN ChargingEvents(prev, v) ELSE {}
  <2>1. Received("charging_state") \in CarState
    BY <1>1 DEF TypedFields
  <2>2. next \in CarState
    <3> DEFINE on == IF moved \/ resume
                       THEN ChargingTicker(Received("charging_state").liveActivity, prev, v)
                       ELSE Received("charging_state").liveActivity
    <3>1. on \in BOOLEAN
      BY <2>1 DEF CarState, ChargingTicker
    <3>2. next = [Received("charging_state") EXCEPT !.ChargingState = v, !.liveActivity = on]
      BY <2>1 DEF CarState
    <3> HIDE DEF on
    <3> QED
      BY <2>1, <3>1, <3>2, Updates
  <2>3. events \subseteq EventTypes
    BY DEF ChargingEvents, EventTypes
  <2>4. Handled(events, {}, next)
    BY <1>3, <2>2, <2>3 DEF HandleChargingState, Emit, Handled
  <2>5. Surroundings'
    BY <1>3 DEF HandleChargingState, Found, TypeOK, Surroundings
  <2> QED
    BY <2>4, <2>5, TypeHandled
<1>4. ASSUME NEW level \in BatteryLevels, HandleBatteryLevel(level) PROVE TypeOK'
  <2> DEFINE checked == Seen("battery_level")
             c == [Received("battery_level") EXCEPT !.BatteryLevel = level]
             next == IF checked
                       THEN [c EXCEPT !.batteryLowFired = LowLatch(level, @),
                                      !.batteryHighFired = HighLatch(level, @)]
                       ELSE c
             events == IF checked THEN BatteryEvents(level) ELSE {}
  <2>1. Received("battery_level") \in CarState
    BY <1>1 DEF TypedFields
  <2>2. next \in CarState
    <3>1. c \in CarState
      BY <2>1, ZenonT(60) DEF CarState
    <3> DEFINE low == LowLatch(level, c.batteryLowFired)
               high == HighLatch(level, c.batteryHighFired)
    <3>2. low \in BOOLEAN /\ high \in BOOLEAN
      BY DEF LowLatch, HighLatch
    <3>3. [c EXCEPT !.batteryLowFired = low, !.batteryHighFired = high] \in CarState
      BY <3>1, <3>2, Updates
    <3>4. [c EXCEPT !.batteryLowFired = low, !.batteryHighFired = high]
            = [c EXCEPT !.batteryLowFired = LowLatch(level, @),
                        !.batteryHighFired = HighLatch(level, @)]
      BY <3>1 DEF CarState
    <3> QED
      BY <3>1, <3>3, <3>4
  <2>3. events \subseteq EventTypes
    BY DEF BatteryEvents, EventTypes
  <2>4. Handled(events, Flushed(Queue(events, next), next), next)
    BY <1>4, <2>2, <2>3 DEF HandleBatteryLevel, EmitAndFlush, Flushed, Handled
  <2>5. Surroundings'
    BY <1>4 DEF HandleBatteryLevel, TypeOK, Surroundings
  <2> QED
    BY <2>4, <2>5, TypeHandled
<1>5. ASSUME NEW b \in PluggedValues, HandlePluggedIn(b) PROVE TypeOK'
  <2> DEFINE moved == Seen("plugged_in") /\ car.PluggedIn # b
             next == [Received("plugged_in") EXCEPT !.PluggedIn = b]
             events == IF ~moved THEN {}
                       ELSE IF b THEN {"charger_connected"} ELSE {"charger_disconnected"}
  <2>1. Received("plugged_in") \in CarState
    BY <1>1 DEF TypedFields
  <2>2. next \in CarState
    BY <2>1, CarAssumption, ZenonT(60) DEF CarState, CarAssumption
  <2>3. events \subseteq EventTypes
    BY DEF EventTypes
  <2>4. Handled(events, {}, next)
    BY <1>5, <2>2, <2>3 DEF HandlePluggedIn, Emit, Handled
  <2>5. Surroundings'
    BY <1>5 DEF HandlePluggedIn, Found, TypeOK, Surroundings
  <2> QED
    BY <2>4, <2>5, TypeHandled
<1>6. ASSUME NEW b \in UpdateValues, HandleUpdateAvailable(b) PROVE TypeOK'
  <2> DEFINE moved == Seen("update_available") /\ ~car.UpdateAvailable /\ b
             next == [Received("update_available") EXCEPT !.UpdateAvailable = b]
             events == IF moved THEN {"software_update"} ELSE {}
  <2>1. Received("update_available") \in CarState
    BY <1>1 DEF TypedFields
  <2>2. next \in CarState
    BY <2>1, CarAssumption, ZenonT(60) DEF CarState, CarAssumption
  <2>3. events \subseteq EventTypes
    BY DEF EventTypes
  <2>4. Handled(events, {}, next)
    BY <1>6, <2>2, <2>3 DEF HandleUpdateAvailable, Emit, Handled
  <2>5. Surroundings'
    BY <1>6 DEF HandleUpdateAvailable, TypeOK, Surroundings
  <2> QED
    BY <2>4, <2>5, TypeHandled
<1>7. ASSUME NEW g \in Geofences, HandleGeofence(g) PROVE TypeOK'
  <2> DEFINE next == [Received("geofence") EXCEPT
                        !.PreviousGeofence = car.Geofence, !.Geofence = g]
             events == IF Seen("geofence") THEN GeofenceEvents(car.Geofence, g) ELSE {}
  <2>1. Received("geofence") \in CarState
    BY <1>1 DEF TypedFields
  <2>2. next \in CarState
    <3>1. car.Geofence \in Geofences \cup {""}
      BY DEF CarState, TypeOK
    <3> QED
      BY <2>1, <3>1, Updates
  <2>3. events \subseteq EventTypes
    BY DEF GeofenceEvents, EventTypes
  <2>4. Handled(events, {}, next)
    BY <1>7, <2>2, <2>3 DEF HandleGeofence, Emit, Handled
  <2>5. Surroundings'
    BY <1>7 DEF HandleGeofence, Found, TypeOK, Surroundings
  <2> QED
    BY <2>4, <2>5, TypeHandled
<1>8. ASSUME NEW name \in DisplayNames, HandleDisplayName(name) PROVE TypeOK'
  <2> DEFINE next == [Received("display_name") EXCEPT !.DisplayName = name]
             events == {}
  <2>1. Received("display_name") \in CarState
    BY <1>1 DEF TypedFields
  <2>2. next \in CarState
    BY <2>1, ZenonT(60) DEF CarState
  <2>3. events \subseteq EventTypes
    BY DEF EventTypes
  <2>4. Handled(events, Flushed(Queue(events, next), next), next)
    BY <1>8, <2>2, <2>3 DEF HandleDisplayName, EmitAndFlush, Flushed, Handled
  <2>5. Surroundings'
    BY <1>8 DEF HandleDisplayName, CacheCar, NoNames, TypeOK, Surroundings
  <2> QED
    BY <2>4, <2>5, TypeHandled
<1>9. ASSUME NEW model \in Models, HandleModel(model) PROVE TypeOK'
  <2> DEFINE next == [Received("model") EXCEPT !.Model = model]
             events == {}
  <2>1. Received("model") \in CarState
    BY <1>1 DEF TypedFields
  <2>2. next \in CarState
    BY <2>1, ZenonT(60) DEF CarState
  <2>3. events \subseteq EventTypes
    BY DEF EventTypes
  <2>4. Handled(events, Flushed(Queue(events, next), next), next)
    BY <1>9, <2>2, <2>3 DEF HandleModel, EmitAndFlush, Flushed, Handled
  <2>5. Surroundings'
    BY <1>9 DEF HandleModel, CacheCar, NoNames, TypeOK, Surroundings
  <2> QED
    BY <2>4, <2>5, TypeHandled
<1>10. ASSUME NEW version \in Versions, HandleUpdateVersion(version) PROVE TypeOK'
  <2> DEFINE next == [Received("update_version") EXCEPT !.UpdateVersion = version]
             events == {}
  <2>1. Received("update_version") \in CarState
    BY <1>1 DEF TypedFields
  <2>2. next \in CarState
    BY <2>1, ZenonT(60) DEF CarState
  <2>3. events \subseteq EventTypes
    BY DEF EventTypes
  <2>4. Handled(events, Flushed(Queue(events, next), next), next)
    BY <1>10, <2>2, <2>3 DEF HandleUpdateVersion, EmitAndFlush, Flushed, Handled
  <2>5. Surroundings'
    BY <1>10 DEF HandleUpdateVersion, TypeOK, Surroundings
  <2> QED
    BY <2>4, <2>5, TypeHandled
<1>11. ASSUME NEW s \in DisplayStates, HandleCenterDisplayState(s) PROVE TypeOK'
  <2> DEFINE moved == Seen("center_display_state") /\ car.CenterDisplayState # 7 /\ s = 7
             next == [Received("center_display_state") EXCEPT !.CenterDisplayState = s]
             events == IF moved THEN {"sentry_recording"} ELSE {}
  <2>1. Received("center_display_state") \in CarState
    BY <1>1 DEF TypedFields
  <2>2. next \in CarState
    BY <2>1, ZenonT(60) DEF CarState
  <2>3. events \subseteq EventTypes
    BY DEF EventTypes
  <2>4. Handled(events, {}, next)
    BY <1>11, <2>2, <2>3 DEF HandleCenterDisplayState, Emit, Handled
  <2>5. Surroundings'
    BY <1>11 DEF HandleCenterDisplayState, TypeOK, Surroundings
  <2> QED
    BY <2>4, <2>5, TypeHandled
<1>12. ASSUME NEW km \in Odometers, HandleOdometer(km) PROVE TypeOK'
  <2> DEFINE next == [Received("odometer") EXCEPT !.Odometer = km]
             events == {}
  <2>1. Received("odometer") \in CarState
    BY <1>1 DEF TypedFields
  <2>2. next \in CarState
    BY <2>1, ZenonT(60) DEF CarState
  <2>3. events \subseteq EventTypes
    BY DEF EventTypes
  <2>4. Handled(events, {}, next)
    BY <1>12, <2>2, <2>3 DEF HandleOdometer, Emit, Handled
  <2>5. Surroundings'
    BY <1>12 DEF HandleOdometer, TypeOK, Surroundings
  <2> QED
    BY <2>4, <2>5, TypeHandled
<1>13. ASSUME NEW f \in MalformedFields, HandleMalformed(f) PROVE TypeOK'
  <2>1. Received(f) \in CarState
    BY <1>1, CarAssumption DEF CarAssumption, TypedFields
  <2>2. Handled({}, {}, Received(f))
    BY <1>13, <2>1 DEF HandleMalformed, Emit, Handled
  <2>3. Surroundings'
    BY <1>13 DEF HandleMalformed, TypeOK, Surroundings
  <2> QED
    BY <2>2, <2>3, TypeHandled
<1>14. ASSUME NEW f \in OtherFields, HandleEnrichment(f) PROVE TypeOK'
  <2>1. Received(f) \in CarState
    BY <1>1
  <2>2. Handled({}, {}, Received(f))
    BY <1>14, <2>1 DEF HandleEnrichment, Emit, Handled
  <2>3. Surroundings'
    BY <1>14 DEF HandleEnrichment, TypeOK, Surroundings
  <2> QED
    BY <2>2, <2>3, TypeHandled
<1>15. CASE HandleMessage
  BY <1>15, <1>2, <1>3, <1>4, <1>5, <1>6, <1>7, <1>8, <1>9, <1>10, <1>11, <1>12, <1>13, <1>14 DEF HandleMessage
<1>16. ASSUME NEW f \in UnknownFields, HandleUnknownMessage(f) PROVE TypeOK'
  <2>1. [car EXCEPT !.raw = RecordRaw(f)] \in CarState
    <3>1. RecordRaw(f) \in SUBSET (Fields \cup UnknownFields)
      BY ZenonT(60) DEF RecordRaw, CarState, TypeOK
    <3> QED
      BY <3>1, Updates DEF TypeOK
  <2> QED
    BY <1>16, <2>1 DEF HandleUnknownMessage, TypeOK
<1>17. ASSUME NEW t \in EventTypes, DeferredEmit(t) PROVE TypeOK'
  <2>1. BuildPayload(t, car, TRUE) \in Payload
    BY PayloadType, CarAssumption DEF TypeOK
  <2>2. CountersOK' /\ \A p \in out' : p \in Payload
    <3>0. CountersOK
      BY DEF TypeOK, CountersOK
    <3>1. CASE pending[t] > 0
      <4>1. out' = {BuildPayload(t, car, TRUE)}
        BY <1>17, <3>1 DEF DeferredEmit
      <4>2. CountersOK'
        BY <1>17, <3>0, <3>1 DEF DeferredEmit, CountersOK
      <4> QED
        BY <2>1, <4>1, <4>2
    <3>2. CASE ~(pending[t] > 0)
      BY <1>17, <3>0, <3>2 DEF DeferredEmit, CountersOK
    <3> QED
      BY <3>1, <3>2
  <2>3. UNCHANGED <<car, link, rawEnabled, cache, stopped, restarts, found>>
    BY <1>17 DEF DeferredEmit
  <2> QED
    BY <2>2, <2>3 DEF TypeOK, CountersOK
<1>18. CASE Stop
  <2>1. [StopDriving(car) EXCEPT !.liveActivity = FALSE] \in CarState
    BY DrivingTypes, Updates DEF TypeOK
  <2> QED
    BY <1>18, <2>1 DEF Stop, TypeOK
<1>19. CASE Restart
  <2>1. cache' \in [DisplayName : DisplayNames \cup {""}, Model : Models \cup {""}]
    <3>1. NoNames \in [DisplayName : DisplayNames \cup {""}, Model : Models \cup {""}]
      BY DEF NoNames
    <3> QED
      BY <1>19, <3>1 DEF Restart, TypeOK
  <2>2. NewCar(cache') \in CarState
    BY <2>1, NewCarType
  <2>3. NoEvents \in [EventTypes -> Nat]
    BY DEF NoEvents
  <2>4. /\ car' = NewCar(cache') /\ link' = "never" /\ rawEnabled' = FALSE
        /\ stopped' = FALSE /\ restarts' = restarts + 1 /\ out' = {} /\ found' = {}
        /\ pending' = NoEvents /\ deferred' = NoEvents
        /\ raised' = NoEvents /\ handed' = NoEvents
    BY <1>19 DEF Restart
  <2>5. restarts' \in Nat
    <3>1. restarts \in Nat
      BY DEF TypeOK
    <3> QED
      BY <2>4, <3>1
  <2> QED
    BY <2>1, <2>2, <2>3, <2>4, <2>5 DEF TypeOK
<1>20. CASE MarkConnected \/ GraceOver \/ \E b \in RawFlags : ApplyConfig(b)
  BY <1>20, CarAssumption DEF MarkConnected, GraceOver, ApplyConfig, TypeOK, CarAssumption
<1>21. ASSUME NEW t \in LiveTypes, LiveActivityUpdate(t) PROVE TypeOK'
  <2>1. BuildPayload(t, car, FALSE) \in Payload
    BY PayloadType, CarAssumption DEF TypeOK
  <2>2. \A p \in out' : p \in Payload
    BY <1>21, <2>1 DEF LiveActivityUpdate
  <2>3. UNCHANGED <<car, pending, deferred, link, rawEnabled, cache, stopped, restarts,
                    raised, handed, found>>
    BY <1>21 DEF LiveActivityUpdate
  <2> QED
    BY <2>2, <2>3 DEF TypeOK
<1>22. CASE UNCHANGED vars
  BY <1>22 DEF vars, TypeOK
<1> QED
  BY <1>15, <1>16, <1>17, <1>18, <1>19, <1>20, <1>21, <1>22 DEF Next

(* The types hold in every reachable state, whatever the broker publishes.  *)
THEOREM TypeCorrect == Spec => []TypeOK
  BY TypeInit, TypeStep, PTL DEF Spec

-----------------------------------------------------------------------------
(* What the payloads of one step carry.                                     *)

(* A handler's payloads are built from the record it leaves, on time, and   *)
(* that record is ready for them.                                           *)
LEMMA HandlersSend ==
  ASSUME HandleMessage
  PROVE  \A p \in out' : \E t : p = BuildPayload(t, car', FALSE) /\ IsReadyFor(t, car')
<1>1. PICK events, flushed : /\ Dispatch(events, flushed, car')
                             /\ \A t \in flushed : IsReadyFor(t, car')
  BY HandlersDispatch DEF Dispatched
<1>2. out' = {BuildPayload(t, car', FALSE) : t \in Ready(events, car') \cup flushed}
  BY <1>1 DEF Dispatch
<1>3. \A t \in Ready(events, car') : IsReadyFor(t, car')
  BY DEF Ready
<1> QED
  BY <1>1, <1>2, <1>3

(* Whatever the topic, a handler leaves the raw map to recordRaw, marks the *)
(* topic as seen and touches the battery level only if it is battery_level. *)
Arrives(f, c) ==
  /\ c \in CarState
  /\ c.raw = RecordRaw(f)
  /\ c.initialized = car.initialized \cup {f}

Recorded ==
  \E f \in Fields :
    /\ Arrives(f, car')
    /\ \/ car'.BatteryLevel \in BatteryLevels
       \/ /\ car'.BatteryLevel = car.BatteryLevel
          /\ f = "battery_level" => f \in MalformedFields

LEMMA HandlersRecord ==
  ASSUME TypeOK, HandleMessage
  PROVE  Recorded /\ rawEnabled' = rawEnabled
<1>1. \A f \in Fields : Arrives(f, Received(f)) /\ Received(f).BatteryLevel = car.BatteryLevel
  BY ReceivedType DEF Received, Arrives, TypeOK, CarState
<1>2. ASSUME NEW v \in StateValues, HandleState(v) PROVE Recorded /\ rawEnabled' = rawEnabled
  <2> DEFINE r == Received("state")
  <2>1. Arrives("state", r) /\ r.BatteryLevel = car.BatteryLevel /\ "state" \in Fields
    BY <1>1 DEF Fields, TypedFields
  <2>2. PICK c \in CarState : /\ Arrives("state", c) /\ c.BatteryLevel = car.BatteryLevel
                              /\ car' \in {c, StartDriving(c), StopDriving(c)}
    <3> DEFINE c == [r EXCEPT !.State = v]
    <3>1. c \in CarState
      BY <2>1, ZenonT(60) DEF Arrives, CarState
    <3>2. Arrives("state", c) /\ c.BatteryLevel = car.BatteryLevel
      BY <2>1, <3>1 DEF Arrives, CarState
    <3>3. car' \in {c, StartDriving(c), StopDriving(c)}
      BY <1>2 DEF HandleState
    <3> HIDE DEF c
    <3> QED
      BY <3>1, <3>2, <3>3
  <2>3. Arrives("state", car') /\ car'.BatteryLevel = car.BatteryLevel
    <3>1. car' \in CarState
      BY <2>2, DrivingTypes
    <3> QED
      BY <2>2, <3>1, ZenonT(60) DEF StartDriving, StopDriving, Arrives, CarState
  <2>4. rawEnabled' = rawEnabled
    BY <1>2 DEF HandleState
  <2> QED
    BY <2>1, <2>3, <2>4 DEF Recorded
<1>3. ASSUME NEW v \in ChargingValues, HandleChargingState(v) PROVE Recorded /\ rawEnabled' = rawEnabled
  <2> DEFINE r == Received("charging_state")
  <2>1. Arrives("charging_state", r) /\ r.BatteryLevel = car.BatteryLevel /\ "charging_state" \in Fields
    BY <1>1 DEF Fields, TypedFields
  <2>2. \E on : car' = [r EXCEPT !.ChargingState = v, !.liveActivity = on]
    BY <1>3, <2>1 DEF HandleChargingState, Arrives, CarState
  <2> HIDE DEF r
  <2>3. Arrives("charging_state", car') /\ car'.BatteryLevel = car.BatteryLevel
    <3>1. car' \in CarState
      BY TypeStep, <1>3 DEF TypeOK, Next, HandleMessage
    <3> QED
      BY <2>1, <2>2, <3>1 DEF Arrives, CarState
  <2>4. rawEnabled' = rawEnabled
    BY <1>3 DEF HandleChargingState
  <2> QED
    BY <2>1, <2>3, <2>4 DEF Recorded
<1>4. ASSUME NEW level \in BatteryLevels, HandleBatteryLevel(level) PROVE Recorded /\ rawEnabled' = rawEnabled
  <2> DEFINE r == Received("battery_level")
  <2>1. Arrives("battery_level", r) /\ r.BatteryLevel = car.BatteryLevel /\ "battery_level" \in Fields
    BY <1>1 DEF Fields, TypedFields
  <2> HIDE DEF r
  <2>2. \/ car' = [[r EXCEPT !.BatteryLevel = level] EXCEPT
                       !.batteryLowFired = LowLatch(level, @),
                       !.batteryHighFired = HighLatch(level, @)]
        \/ car' = [r EXCEPT !.BatteryLevel = level]
    BY <1>4 DEF HandleBatteryLevel, r
  <2>3. Arrives("battery_level", car') /\ car'.BatteryLevel \in BatteryLevels
    <3>1. car' \in CarState
      BY TypeStep, <1>4 DEF TypeOK, Next, HandleMessage
    <3> QED
      BY <2>1, <2>2, <3>1, ZenonT(60) DEF Arrives, CarState
  <2>4. rawEnabled' = rawEnabled
    BY <1>4 DEF HandleBatteryLevel
  <2> QED
    BY <2>1, <2>3, <2>4 DEF Recorded
<1>5. ASSUME NEW b \in PluggedValues, HandlePluggedIn(b) PROVE Recorded /\ rawEnabled' = rawEnabled
  <2> DEFINE r == Received("plugged_in")
  <2>1. Arrives("plugged_in", r) /\ r.BatteryLevel = car.BatteryLevel /\ "plugged_in" \in Fields
    BY <1>1 DEF Fields, TypedFields
  <2>2. car' = [r EXCEPT !.PluggedIn = b]
    BY <1>5 DEF HandlePluggedIn
  <2> HIDE DEF r
  <2>3. Arrives("plugged_in", car') /\ car'.BatteryLevel = car.BatteryLevel
    <3>1. car' \in CarState
      BY TypeStep, <1>5 DEF TypeOK, Next, HandleMessage
    <3> QED
      BY <2>1, <2>2, <3>1 DEF Arrives, CarState
  <2>4. rawEnabled' = rawEnabled
    BY <1>5 DEF HandlePluggedIn
  <2> QED
    BY <2>1, <2>3, <2>4 DEF Recorded
<1>6. ASSUME NEW b \in UpdateValues, HandleUpdateAvailable(b) PROVE Recorded /\ rawEnabled' = rawEnabled
  <2> DEFINE r == Received("update_available")
  <2>1. Arrives("update_available", r) /\ r.BatteryLevel = car.BatteryLevel /\ "update_available" \in Fields
    BY <1>1 DEF Fields, TypedFields
  <2>2. car' = [r EXCEPT !.UpdateAvailable = b]
    BY <1>6 DEF HandleUpdateAvailable
  <2> HIDE DEF r
  <2>3. Arrives("update_available", car') /\ car'.BatteryLevel = car.BatteryLevel
    <3>1. car' \in CarState
      BY TypeStep, <1>6 DEF TypeOK, Next, HandleMessage
    <3> QED
      BY <2>1, <2>2, <3>1 DEF Arrives, CarState
  <2>4. rawEnabled' = rawEnabled
    BY <1>6 DEF HandleUpdateAvailable
  <2> QED
    BY <2>1, <2>3, <2>4 DEF Recorded
<1>7. ASSUME NEW g \in Geofences, HandleGeofence(g) PROVE Recorded /\ rawEnabled' = rawEnabled
  <2> DEFINE r == Received("geofence")
  <2>1. Arrives("geofence", r) /\ r.BatteryLevel = car.BatteryLevel /\ "geofence" \in Fields
    BY <1>1 DEF Fields, TypedFields
  <2>2. car' = [r EXCEPT !.PreviousGeofence = car.Geofence, !.Geofence = g]
    BY <1>7 DEF HandleGeofence
  <2> HIDE DEF r
  <2>3. Arrives("geofence", car') /\ car'.BatteryLevel = car.BatteryLevel
    <3>1. car' \in CarState
      BY TypeStep, <1>7 DEF TypeOK, Next, HandleMessage
    <3> QED
      BY <2>1, <2>2, <3>1 DEF Arrives, CarState
  <2>4. rawEnabled' = rawEnabled
    BY <1>7 DEF HandleGeofence
  <2> QED
    BY <2>1, <2>3, <2>4 DEF Recorded
<1>8. ASSUME NEW name \in DisplayNames, HandleDisplayName(name) PROVE Recorded /\ rawEnabled' = rawEnabled
  <2> DEFINE r == Received("display_name")
  <2>1. Arrives("display_name", r) /\ r.BatteryLevel = car.BatteryLevel /\ "display_name" \in Fields
    BY <1>1 DEF Fields, TypedFields
  <2>2. car' = [r EXCEPT !.DisplayName = name]
    BY <1>8 DEF HandleDisplayName
  <2> HIDE DEF r
  <2>3. Arrives("display_name", car') /\ car'.BatteryLevel = car.BatteryLevel
    <3>1. car' \in CarState
      BY TypeStep, <1>8 DEF TypeOK, Next, HandleMessage
    <3> QED
      BY <2>1, <2>2, <3>1 DEF Arrives, CarState
  <2>4. rawEnabled' = rawEnabled
    BY <1>8 DEF HandleDisplayName
  <2> QED
    BY <2>1, <2>3, <2>4 DEF Recorded
<1>9. ASSUME NEW model \in Models, HandleModel(model) PROVE Recorded /\ rawEnabled' = rawEnabled
  <2> DEFINE r == Received("model")
  <2>1. Arrives("model", r) /\ r.BatteryLevel = car.BatteryLevel /\ "model" \in Fields
    BY <1>1 DEF Fields, TypedFields
  <2>2. car' = [r EXCEPT !.Model = model]
    BY <1>9 DEF HandleModel
  <2> HIDE DEF r
  <2>3. Arrives("model", car') /\ car'.BatteryLevel = car.BatteryLevel
    <3>1. car' \in CarState
      BY TypeStep, <1>9 DEF TypeOK, Next, HandleMessage
    <3> QED
      BY <2>1, <2>2, <3>1 DEF Arrives, CarState
  <2>4. rawEnabled' = rawEnabled
    BY <1>9 DEF HandleModel
  <2> QED
    BY <2>1, <2>3, <2>4 DEF Recorded
<1>10. ASSUME NEW version \in Versions, HandleUpdateVersion(version) PROVE Recorded /\ rawEnabled' = rawEnabled
  <2> DEFINE r == Received("update_version")
  <2>1. Arrives("update_version", r) /\ r.BatteryLevel = car.BatteryLevel /\ "update_version" \in Fields
    BY <1>1 DEF Fields, TypedFields
  <2>2. car' = [r EXCEPT !.UpdateVersion = version]
    BY <1>10 DEF HandleUpdateVersion
  <2> HIDE DEF r
  <2>3. Arrives("update_version", car') /\ car'.BatteryLevel = car.BatteryLevel
    <3>1. car' \in CarState
      BY TypeStep, <1>10 DEF TypeOK, Next, HandleMessage
    <3> QED
      BY <2>1, <2>2, <3>1 DEF Arrives, CarState
  <2>4. rawEnabled' = rawEnabled
    BY <1>10 DEF HandleUpdateVersion
  <2> QED
    BY <2>1, <2>3, <2>4 DEF Recorded
<1>11. ASSUME NEW s \in DisplayStates, HandleCenterDisplayState(s) PROVE Recorded /\ rawEnabled' = rawEnabled
  <2> DEFINE r == Received("center_display_state")
  <2>1. Arrives("center_display_state", r) /\ r.BatteryLevel = car.BatteryLevel /\ "center_display_state" \in Fields
    BY <1>1 DEF Fields, TypedFields
  <2>2. car' = [r EXCEPT !.CenterDisplayState = s]
    BY <1>11 DEF HandleCenterDisplayState
  <2> HIDE DEF r
  <2>3. Arrives("center_display_state", car') /\ car'.BatteryLevel = car.BatteryLevel
    <3>1. car' \in CarState
      BY TypeStep, <1>11 DEF TypeOK, Next, HandleMessage
    <3> QED
      BY <2>1, <2>2, <3>1 DEF Arrives, CarState
  <2>4. rawEnabled' = rawEnabled
    BY <1>11 DEF HandleCenterDisplayState
  <2> QED
    BY <2>1, <2>3, <2>4 DEF Recorded
<1>12. ASSUME NEW km \in Odometers, HandleOdometer(km) PROVE Recorded /\ rawEnabled' = rawEnabled
  <2> DEFINE r == Received("odometer")
  <2>1. Arrives("odometer", r) /\ r.BatteryLevel = car.BatteryLevel /\ "odometer" \in Fields
    BY <1>1 DEF Fields, TypedFields
  <2>2. car' = [r EXCEPT !.Odometer = km]
    BY <1>12 DEF HandleOdometer
  <2> HIDE DEF r
  <2>3. Arrives("odometer", car') /\ car'.BatteryLevel = car.BatteryLevel
    <3>1. car' \in CarState
      BY TypeStep, <1>12 DEF TypeOK, Next, HandleMessage
    <3> QED
      BY <2>1, <2>2, <3>1 DEF Arrives, CarState
  <2>4. rawEnabled' = rawEnabled
    BY <1>12 DEF HandleOdometer
  <2> QED
    BY <2>1, <2>3, <2>4 DEF Recorded
<1>13. ASSUME NEW f \in MalformedFields, HandleMalformed(f) PROVE Recorded /\ rawEnabled' = rawEnabled
  <2>1. f \in Fields
    BY CarAssumption DEF CarAssumption, Fields, TypedFields
  <2>2. car' = Received(f) /\ rawEnabled' = rawEnabled
    BY <1>13 DEF HandleMalformed
  <2> QED
    BY <1>1, <2>1, <2>2 DEF Recorded
<1>14. ASSUME NEW f \in OtherFields, HandleEnrichment(f) PROVE Recorded /\ rawEnabled' = rawEnabled
  <2>1. f \in Fields /\ f # "battery_level"
    BY CarAssumption DEF CarAssumption, Fields, TypedFields
  <2>2. car' = Received(f) /\ rawEnabled' = rawEnabled
    BY <1>14 DEF HandleEnrichment
  <2> QED
    BY <1>1, <2>1, <2>2 DEF Recorded
<1> QED
  BY <1>2, <1>3, <1>4, <1>5, <1>6, <1>7, <1>8, <1>9, <1>10, <1>11, <1>12, <1>13, <1>14 DEF HandleMessage

(* A record's distance is 0 or lies between two odometer values it was told. *)
LEMMA DistanceRange ==
  ASSUME NEW c \in CarState
  PROVE  Distance(c) = 0 \/ \E from, to \in Odometers : Distance(c) = to - from
<1>1. /\ c.Odometer \in Odometers \cup {0} /\ c.driveStartOdometer \in Odometers \cup {0}
  BY DEF CarState
<1>2. Odometers \subseteq Nat
  BY CarAssumption DEF CarAssumption
<1>3. CASE c.driving /\ c.driveStartOdometer > 0 /\ c.Odometer > c.driveStartOdometer
  <2>1. c.driveStartOdometer \in Odometers /\ c.Odometer \in Odometers
    <3> DEFINE from == c.driveStartOdometer
               to == c.Odometer
    <3>1. from > 0 /\ to > from /\ from \in Odometers \cup {0} /\ to \in Odometers \cup {0}
      BY <1>1, <1>3
    <3> HIDE DEF from, to
    <3>2. from \in Odometers /\ to \in Odometers
      BY <1>2, <3>1
    <3> QED
      BY <3>2 DEF from, to
  <2>2. Distance(c) = c.Odometer - c.driveStartOdometer
    BY <1>3 DEF Distance
  <2> QED
    BY <2>1, <2>2
<1>4. CASE ~(c.driving /\ c.driveStartOdometer > 0 /\ c.Odometer > c.driveStartOdometer)
  BY <1>4 DEF Distance
<1> QED
  BY <1>3, <1>4

(* Never the whole odometer: a distance is between two published values.    *)
THEOREM DistancesAreDriven == Spec => []DistanceWasDriven
<1>1. Init => DistanceWasDriven
  BY DEF Init, DistanceWasDriven
<1>2. TypeOK /\ TypeOK' /\ DistanceWasDriven /\ [Next]_vars => DistanceWasDriven'
  <2> SUFFICES ASSUME TypeOK, TypeOK', DistanceWasDriven, [Next]_vars
               PROVE  DistanceWasDriven'
    OBVIOUS
  <2>1. CASE HandleMessage
    <3>1. \A p \in out' : p.distance = Distance(car')
      BY <2>1, HandlersSend DEF BuildPayload
    <3>2. Distance(car') = 0 \/ \E from, to \in Odometers : Distance(car') = to - from
      BY DistanceRange DEF TypeOK
    <3> QED
      BY <3>1, <3>2 DEF DistanceWasDriven
  <2>2. ASSUME NEW t \in EventTypes, DeferredEmit(t) PROVE DistanceWasDriven'
    <3>1. \A p \in out' : p.distance = Distance(car)
      BY <2>2 DEF DeferredEmit, BuildPayload
    <3>2. Distance(car) = 0 \/ \E from, to \in Odometers : Distance(car) = to - from
      BY DistanceRange DEF TypeOK
    <3> QED
      BY <3>1, <3>2 DEF DistanceWasDriven
  <2>3. ASSUME NEW t \in LiveTypes, LiveActivityUpdate(t) PROVE DistanceWasDriven'
    <3>1. \A p \in out' : p.distance = Distance(car)
      BY <2>3 DEF LiveActivityUpdate, BuildPayload
    <3>2. Distance(car) = 0 \/ \E from, to \in Odometers : Distance(car) = to - from
      BY DistanceRange DEF TypeOK
    <3> QED
      BY <3>1, <3>2 DEF DistanceWasDriven
  <2>4. CASE out' = {} \/ out' = out
    BY <2>4 DEF DistanceWasDriven
  <2> QED
    BY <2>1, <2>2, <2>3, <2>4
       DEF Next, HandleUnknownMessage, ApplyConfig, MarkConnected, GraceOver, Stop, Restart, vars
<1> QED
  BY <1>1, <1>2, TypeCorrect, PTL DEF Spec

(* What a safety net or a tick sends is not prompt.                         *)
LEMMA TicksAreNotPrompt ==
  /\ \A t \in EventTypes : DeferredEmit(t) => \A p \in out' : ~Prompt(p)
  /\ \A t \in LiveTypes : LiveActivityUpdate(t) => \A p \in out' : ~Prompt(p)
<1>1. ASSUME NEW t \in EventTypes, DeferredEmit(t) PROVE \A p \in out' : ~Prompt(p)
  <2>1. \A p \in out' : p.late = TRUE
    BY <1>1 DEF DeferredEmit, BuildPayload
  <2> QED
    BY <2>1 DEF Prompt
<1>2. ASSUME NEW t \in LiveTypes, LiveActivityUpdate(t) PROVE \A p \in out' : ~Prompt(p)
  <2>1. \A p \in out' : p.type = t
    BY <1>2 DEF LiveActivityUpdate, BuildPayload
  <2>2. t \notin EventTypes
    BY Zenon DEF LiveTypes, EventTypes
  <2> QED
    BY <2>1, <2>2 DEF Prompt
<1> QED
  BY <1>1, <1>2

(* The raw map never outgrows its cap: recordRaw adds one field at a time,  *)
(* and only below the cap.                                                  *)
RawBounded == IsFiniteSet(car.raw) /\ Cardinality(car.raw) <= MaxRawFields

LEMMA RecordedBounded ==
  ASSUME RawBounded, NEW f
  PROVE  IsFiniteSet(RecordRaw(f)) /\ Cardinality(RecordRaw(f)) <= MaxRawFields
<1>1. MaxRawFields \in Nat
  BY CarAssumption DEF CarAssumption
<1>2. CASE ~rawEnabled
  BY <1>1, <1>2, FS_EmptySet DEF RecordRaw
<1>3. CASE rawEnabled /\ Cardinality(car.raw) < MaxRawFields
  <2>1. RecordRaw(f) = car.raw \cup {f}
    BY <1>3 DEF RecordRaw
  <2>2. Cardinality(car.raw) \in Nat
    BY FS_CardinalityType DEF RawBounded
  <2>3. IsFiniteSet(car.raw \cup {f}) /\ Cardinality(car.raw \cup {f}) <= Cardinality(car.raw) + 1
    BY <2>2, FS_AddElement DEF RawBounded
  <2>4. IsFiniteSet(RecordRaw(f)) /\ Cardinality(RecordRaw(f)) <= Cardinality(car.raw) + 1
    BY <2>1, <2>3
  <2>5. Cardinality(RecordRaw(f)) \in Nat
    BY <2>4, FS_CardinalityType
  <2> QED
    BY <1>1, <1>3, <2>2, <2>4, <2>5
<1>4. CASE rawEnabled /\ ~(Cardinality(car.raw) < MaxRawFields)
  BY <1>4 DEF RecordRaw, RawBounded
<1> QED
  BY <1>2, <1>3, <1>4

LEMMA RawInit == Init => RawBounded /\ RawFollowsFlag
<1> SUFFICES ASSUME Init PROVE RawBounded /\ RawFollowsFlag
  OBVIOUS
<1>1. car.raw = {} /\ out = {}
  BY DEF Init, NewCar
<1>2. MaxRawFields \in Nat
  BY CarAssumption DEF CarAssumption
<1> QED
  BY <1>1, <1>2, FS_EmptySet DEF RawBounded, RawFollowsFlag

LEMMA RawStep ==
  TypeOK /\ RawBounded /\ RawFollowsFlag /\ [Next]_vars => (RawBounded /\ RawFollowsFlag)'
<1> SUFFICES ASSUME TypeOK, RawBounded, RawFollowsFlag, [Next]_vars
             PROVE  RawBounded' /\ RawFollowsFlag'
  OBVIOUS
<1>1. CASE HandleMessage
  <2>1. PICK f : car'.raw = RecordRaw(f)
    BY <1>1, HandlersRecord DEF Recorded, Arrives
  <2>2. RawBounded'
    BY <2>1, RecordedBounded DEF RawBounded
  <2>3. ~rawEnabled' => car'.raw = {}
    BY <1>1, <2>1, HandlersRecord DEF RecordRaw
  <2>4. \A p \in out' : p.raw = car'.raw
    BY <1>1, HandlersSend DEF BuildPayload
  <2> QED
    BY <2>2, <2>3, <2>4 DEF RawBounded, RawFollowsFlag
<1>2. ASSUME NEW f \in UnknownFields, HandleUnknownMessage(f)
      PROVE  RawBounded' /\ RawFollowsFlag'
  <2>1. car'.raw = RecordRaw(f) /\ out' = {}
    BY <1>2 DEF HandleUnknownMessage, TypeOK, CarState
  <2> QED
    BY <2>1, RecordedBounded DEF RawBounded, RawFollowsFlag
<1>3. ASSUME NEW t \in EventTypes, DeferredEmit(t)
      PROVE  RawBounded' /\ RawFollowsFlag'
  <2>1. car' = car /\ \A p \in out' : p.raw = car.raw
    BY <1>3 DEF DeferredEmit, BuildPayload
  <2> QED
    BY <1>3, <2>1, TicksAreNotPrompt DEF RawBounded, RawFollowsFlag
<1>4. CASE Stop
  <2>1. car'.raw = car.raw /\ out' = {}
    BY <1>4 DEF Stop, StopDriving, TypeOK, CarState
  <2> QED
    BY <2>1 DEF RawBounded, RawFollowsFlag
<1>5. CASE Restart
  <2>1. car'.raw = {} /\ out' = {}
    BY <1>5 DEF Restart, NewCar
  <2>2. MaxRawFields \in Nat
    BY CarAssumption DEF CarAssumption
  <2> QED
    BY <2>1, <2>2, FS_EmptySet DEF RawBounded, RawFollowsFlag
<1>6. CASE car' = car /\ out' = {}
  BY <1>6 DEF RawBounded, RawFollowsFlag
<1>7. ASSUME NEW t \in LiveTypes, LiveActivityUpdate(t)
      PROVE  RawBounded' /\ RawFollowsFlag'
  <2>1. car' = car /\ \A p \in out' : p.raw = car.raw
    BY <1>7 DEF LiveActivityUpdate, BuildPayload
  <2> QED
    BY <1>7, <2>1, TicksAreNotPrompt DEF RawBounded, RawFollowsFlag
<1>8. CASE UNCHANGED vars
  BY <1>8 DEF vars, RawBounded, RawFollowsFlag, Prompt
<1> QED
  BY <1>1, <1>2, <1>3, <1>4, <1>5, <1>6, <1>7, <1>8
     DEF Next, ApplyConfig, MarkConnected, GraceOver

(* However the flag goes on and off, an event that goes out with a message  *)
(* carries raw fields only while it is on, and no payload of any kind ever  *)
(* carries more than the cap.                                               *)
THEOREM RawIsFlagged == Spec => []RawFollowsFlag
  BY RawInit, RawStep, TypeCorrect, PTL DEF Spec

-----------------------------------------------------------------------------
(* What is known of a car whose event goes out on time.                     *)

(* An event goes out before its safety net only for a car that is ready for *)
(* it, whatever was received, parsed or removed before.                     *)
THEOREM OnTimeIsReady == Spec => []OnTimeEventsReady
<1>1. Init => OnTimeEventsReady
  BY DEF Init, OnTimeEventsReady
<1>2. OnTimeEventsReady /\ [Next]_vars => OnTimeEventsReady'
  <2> SUFFICES ASSUME OnTimeEventsReady, [Next]_vars PROVE OnTimeEventsReady'
    OBVIOUS
  <2>1. CASE HandleMessage
    <3>1. ASSUME NEW p \in out' PROVE IsReadyFor(p.type, car')
      <4>1. PICK t : p = BuildPayload(t, car', FALSE) /\ IsReadyFor(t, car')
        BY <2>1, HandlersSend
      <4> QED
        BY <4>1 DEF BuildPayload
    <3> QED
      BY <3>1 DEF OnTimeEventsReady
  <2>2. ASSUME NEW t \in EventTypes, DeferredEmit(t) PROVE OnTimeEventsReady'
    BY <2>2, TicksAreNotPrompt DEF OnTimeEventsReady
  <2>3. ASSUME NEW t \in LiveTypes, LiveActivityUpdate(t) PROVE OnTimeEventsReady'
    BY <2>3, TicksAreNotPrompt DEF OnTimeEventsReady
  <2>4. CASE out' = {}
    BY <2>4 DEF OnTimeEventsReady
  <2>5. CASE UNCHANGED vars
    BY <2>5 DEF vars, OnTimeEventsReady, Prompt, IsReadyFor, IsEnriched, HasName
  <2> QED
    BY <2>1, <2>2, <2>3, <2>4, <2>5
       DEF Next, HandleUnknownMessage, ApplyConfig, MarkConnected, GraceOver, Stop, Restart
<1> QED
  BY <1>1, <1>2, PTL DEF Spec

(* A battery level that has been received is one that was published, unless *)
(* the payloads of battery_level may fail to parse.                         *)
BatteryKnown == "battery_level" \in car.initialized => car.BatteryLevel \in BatteryLevels

LEMMA BatteryStep ==
  ASSUME "battery_level" \notin MalformedFields, TypeOK, BatteryKnown, [Next]_vars
  PROVE  BatteryKnown'
<1>1. CASE HandleMessage
  <2>1. PICK f \in Fields :
          /\ Arrives(f, car')
          /\ \/ car'.BatteryLevel \in BatteryLevels
             \/ car'.BatteryLevel = car.BatteryLevel /\ f # "battery_level"
    BY <1>1, HandlersRecord DEF Recorded
  <2> QED
    BY <2>1 DEF BatteryKnown, Arrives
<1>2. ASSUME NEW f \in UnknownFields, HandleUnknownMessage(f) PROVE BatteryKnown'
  BY <1>2 DEF HandleUnknownMessage, BatteryKnown, TypeOK, CarState
<1>3. CASE car' = car
  BY <1>3 DEF BatteryKnown
<1>4. CASE Stop
  BY <1>4 DEF Stop, StopDriving, BatteryKnown, TypeOK, CarState
<1>5. CASE Restart
  <2>1. "battery_level" \notin car'.initialized
    BY <1>5 DEF Restart, NewCar
  <2> QED
    BY <2>1 DEF BatteryKnown
<1> QED
  BY <1>1, <1>2, <1>3, <1>4, <1>5
     DEF Next, DeferredEmit, LiveActivityUpdate, ApplyConfig, MarkConnected, GraceOver, vars

(* Why an event may go out with 0 %: as long as every battery_level parses, *)
(* a battery level in an event that is on time is one TeslaMate published,  *)
(* so the early return that still marks the topic as seen is the only cause. *)
THEOREM BatteryIsKnown ==
  ASSUME "battery_level" \notin MalformedFields
  PROVE  Spec => []OnTimeEventsKnowBattery
<1>1. Init => BatteryKnown /\ OnTimeEventsKnowBattery
  <2> SUFFICES ASSUME Init PROVE BatteryKnown /\ OnTimeEventsKnowBattery
    OBVIOUS
  <2>1. "battery_level" \notin car.initialized /\ out = {}
    BY DEF Init, NewCar
  <2> QED
    BY <2>1 DEF BatteryKnown, OnTimeEventsKnowBattery
<1>2. TypeOK /\ BatteryKnown /\ OnTimeEventsKnowBattery /\ [Next]_vars
        => (BatteryKnown /\ OnTimeEventsKnowBattery)'
  <2> SUFFICES ASSUME TypeOK, BatteryKnown, OnTimeEventsKnowBattery, [Next]_vars
               PROVE  BatteryKnown' /\ OnTimeEventsKnowBattery'
    OBVIOUS
  <2>1. BatteryKnown'
    BY BatteryStep
  <2>2. CASE HandleMessage
    <3>1. ASSUME NEW p \in out' PROVE p.battery \in BatteryLevels
      <4>1. PICK t : p = BuildPayload(t, car', FALSE) /\ IsReadyFor(t, car')
        BY <2>2, HandlersSend
      <4> QED
        BY <2>1, <4>1 DEF BuildPayload, IsReadyFor, IsEnriched, BatteryKnown
    <3> QED
      BY <2>1, <3>1 DEF OnTimeEventsKnowBattery
  <2>3. ASSUME NEW t \in EventTypes, DeferredEmit(t) PROVE OnTimeEventsKnowBattery'
    BY <2>1, <2>3, TicksAreNotPrompt DEF OnTimeEventsKnowBattery
  <2>4. ASSUME NEW t \in LiveTypes, LiveActivityUpdate(t) PROVE OnTimeEventsKnowBattery'
    BY <2>1, <2>4, TicksAreNotPrompt DEF OnTimeEventsKnowBattery
  <2>5. CASE out' = {}
    BY <2>1, <2>5 DEF OnTimeEventsKnowBattery
  <2>6. CASE UNCHANGED out
    BY <2>1, <2>6 DEF OnTimeEventsKnowBattery, Prompt
  <2> QED
    BY <2>1, <2>2, <2>3, <2>4, <2>5, <2>6
       DEF Next, HandleUnknownMessage, ApplyConfig, MarkConnected, GraceOver, Stop, Restart, vars
<1> QED
  BY <1>1, <1>2, TypeCorrect, PTL DEF Spec
=============================================================================
