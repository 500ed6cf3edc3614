------------------------------ MODULE CarNames ------------------------------
(***************************************************************************)
(* How a car gets its name: mqtt/client.go delivers display_name and model,*)
(* HandleMessage of state/machine.go records them and cacheCar puts them   *)
(* in car_names.json (namecache.go, jsonstore.go), from which NewManager   *)
(* restores them.                                                          *)
(*                                                                         *)
(* The broker is external: it keeps the last value of each topic, except   *)
(* that an empty one clears it, and sends what it keeps to a new           *)
(* subscription.  paho runs every message in a goroutine of its own        *)
(* (SetOrderMatters(false)); Manager.mu admits them in any order.  Reading *)
(* and writing the file are steps of their own, each of which may fail or  *)
(* be the last before the process dies.  The other side of these two       *)
(* messages, the deferred events they release, is in CarMachine.           *)
(***************************************************************************)
EXTENDS MqttTopics

CONSTANTS
  Values,         (* names and models, "" among them                       *)
  InitialFiles,   (* car_names.json as an earlier version may have left it *)
  MaxPublished,   (* bound: values published                               *)
  MaxFaults       (* bound: crashes, lost connections and failed calls     *)

CarNamesOf == [CarIDs -> [Fields -> Values]]
Files == [kind : {"absent", "torn", "legacy", "cars"}, cars : CarNamesOf]

ASSUME NamesAssumption ==
  /\ "" \in Values
  /\ InitialFiles \subseteq Files
  /\ MaxPublished \in Nat /\ MaxFaults \in Nat

VARIABLES
  retained,   (* the broker: the value it keeps of each topic, "" for none *)
  link,       (* "down", "connected", "marked", "subscribed", or "deaf"    *)
  inbox,      (* messages whose goroutines wait for Manager.mu             *)
  names,      (* CarState.DisplayName and Model, [car][field]              *)
  handler,    (* the goroutine that holds Manager.mu                       *)
  file,       (* car_names.json                                            *)
  tmp,        (* car_names.json.tmp                                        *)
  up,         (* the process is running                                    *)
  published,  (* history: the messages ever published                      *)
  crowded,    (* history: topics two different values of which waited at   *)
              (* once, since the last subscription                         *)
  spoilt,     (* history: <<car, field>> whose entry a failed call of the  *)
              (* file system cost                                          *)
  count,      (* values published so far                                   *)
  faults      (* faults so far                                             *)

mqtt == <<link, inbox, crowded>>
disk == <<file, tmp>>
broker == <<retained, published, count>>
vars == <<broker, mqtt, names, handler, disk, up, spoilt, faults>>

Nameless == [c \in CarIDs |-> [f \in Fields |-> ""]]
Absent == [kind |-> "absent", cars |-> Nameless]
Torn == [kind |-> "torn", cars |-> Nameless]

NoMessage == [topic |-> <<>>, value |-> ""]
Idle == [at |-> "idle", message |-> NoMessage, cars |-> Nameless, blind |-> FALSE]

Own(message) == <<CarOf(message.topic), FieldOf(message.topic)>>

(* carNameCache.Load: the new format, else the legacy one, which has names  *)
(* only; nothing if the file is not there or not JSON.                      *)
Load(f) ==
  IF f.kind = "cars" THEN f.cars
  ELSE IF f.kind = "legacy"
    THEN [c \in CarIDs |-> [Nameless[c] EXCEPT !["display_name"] = f.cars[c]["display_name"]]]
  ELSE Nameless

Init ==
  /\ retained = [t \in BrokerTopics |-> ""]
  /\ link = "down"
  /\ inbox = {}
  /\ file \in InitialFiles
  /\ tmp = Absent
  /\ names = Load(file)
  /\ handler = Idle
  /\ up = TRUE
  /\ published = {}
  /\ crowded = {}
  /\ spoilt = {}
  /\ count = 0
  /\ faults = 0

Put(cars, c, f, v) == [cars EXCEPT ![c][f] = v]

Fault == faults < MaxFaults /\ faults' = faults + 1

Crowd(messages) ==
  {m.topic : m \in {x \in messages :
     \E y \in messages : y.topic = x.topic /\ y.value # x.value}}

-----------------------------------------------------------------------------
(* The broker: a value is published, kept, and sent to the subscriber.      *)
Publish(t, v) ==
  LET m == [topic |-> t, value |-> v]
  IN  /\ count < MaxPublished
      /\ count' = count + 1
      /\ retained' = [retained EXCEPT ![t] = v]
      /\ published' = published \cup {m}
      /\ inbox' = IF link = "subscribed" /\ Matches(t) THEN inbox \cup {m} ELSE inbox
      /\ crowded' = crowded \cup Crowd(inbox')
      /\ UNCHANGED <<link, names, handler, disk, up, spoilt, faults>>

Connect ==
  /\ up /\ link = "down"
  /\ link' = "connected"
  /\ UNCHANGED <<broker, inbox, crowded, names, handler, disk, up, spoilt, faults>>

(* onConnect calls MarkConnected, which takes Manager.mu, ...               *)
MarkConnected ==
  /\ link = "connected" /\ handler.at = "idle"
  /\ link' = "marked"
  /\ UNCHANGED <<broker, inbox, crowded, names, handler, disk, up, spoilt, faults>>

(* ... and subscribes, upon which the broker sends all it keeps.            *)
Subscribe ==
  /\ link = "marked"
  /\ link' = "subscribed"
  /\ inbox' = inbox \cup
       {[topic |-> t, value |-> retained[t]] :
          t \in {x \in BrokerTopics : Matches(x) /\ retained[x] # ""}}
  /\ crowded' = Crowd(inbox')
  /\ UNCHANGED <<broker, names, handler, disk, up, spoilt, faults>>

(* The subscription is refused: onConnect logs that and returns.            *)
SubscribeFails ==
  /\ link = "marked" /\ Fault
  /\ link' = "deaf"
  /\ UNCHANGED <<broker, inbox, crowded, names, handler, disk, up, spoilt>>

(* The session is clean: what is published meanwhile is not kept for it.    *)
ConnectionLost ==
  /\ link # "down" /\ Fault
  /\ link' = "down"
  /\ UNCHANGED <<broker, inbox, crowded, names, handler, disk, up, spoilt>>

-----------------------------------------------------------------------------
(* Plausible slips: the first value of a field wins, and a removed name is  *)
(* not worth a write.                                                       *)
BeginFirstWins(m) ==
  LET c == CarOf(m.topic)
      f == FieldOf(m.topic)
  IN  /\ handler.at = "idle" /\ m \in inbox
      /\ inbox' = inbox \ {m}
      /\ IF Wanted(m.topic)
           THEN /\ names' = [names EXCEPT ![c][f] = IF @ = "" THEN m.value ELSE @]
                /\ handler' = [Idle EXCEPT !.at = "load", !.message = m]
           ELSE UNCHANGED <<names, handler>>
      /\ UNCHANGED <<broker, link, crowded, disk, up, spoilt, faults>>

BeginKeepsOld(m) ==
  LET c == CarOf(m.topic)
      f == FieldOf(m.topic)
  IN  /\ handler.at = "idle" /\ m \in inbox
      /\ inbox' = inbox \ {m}
      /\ IF Wanted(m.topic)
           THEN /\ names' = Put(names, c, f, m.value)
                /\ handler' = IF m.value = "" THEN handler
                              ELSE [Idle EXCEPT !.at = "load", !.message = m]
           ELSE UNCHANGED <<names, handler>>
      /\ UNCHANGED <<broker, link, crowded, disk, up, spoilt, faults>>

(* onMessage, then HandleMessage under Manager.mu.                          *)
Begin(m) ==
  LET c == CarOf(m.topic)
      f == FieldOf(m.topic)
  IN  /\ handler.at = "idle" /\ m \in inbox
      /\ inbox' = inbox \ {m}
      /\ IF Wanted(m.topic)
           THEN /\ names' = Put(names, c, f, m.value)
                /\ handler' = [Idle EXCEPT !.at = "load", !.message = m]
           ELSE UNCHANGED <<names, handler>>
      /\ UNCHANGED <<broker, link, crowded, disk, up, spoilt, faults>>

(* cacheCar: load, mutate one field of one car, ...                         *)
Cached(cars, m) == Put(cars, CarOf(m.topic), FieldOf(m.topic), m.value)

LoadCars ==
  /\ handler.at = "load"
  /\ handler' = [handler EXCEPT !.at = "write", !.cars = Cached(Load(file), handler.message)]
  /\ UNCHANGED <<broker, mqtt, names, disk, up, spoilt, faults>>

(* A Load that fails returns an empty map, no error: it is "blind".         *)
LoadCarsFails ==
  /\ handler.at = "load" /\ Fault
  /\ handler' = [handler EXCEPT !.at = "write", !.blind = TRUE,
                                !.cars = Cached(Nameless, handler.message)]
  /\ UNCHANGED <<broker, mqtt, names, disk, up, spoilt>>

(* ... and Save: write the temporary file ...                               *)
WriteTmp ==
  /\ handler.at = "write"
  /\ tmp' = [kind |-> "cars", cars |-> handler.cars]
  /\ handler' = [handler EXCEPT !.at = "rename"]
  /\ UNCHANGED <<broker, mqtt, names, file, up, spoilt, faults>>

WriteTmpFails ==
  /\ handler.at = "write" /\ Fault
  /\ tmp' = Torn
  /\ handler' = Idle
  /\ spoilt' = spoilt \cup {Own(handler.message)}
  /\ UNCHANGED <<broker, mqtt, names, file, up>>

(* ... and rename it.                                                       *)
Rename ==
  /\ handler.at = "rename"
  /\ file' = tmp
  /\ tmp' = Absent
  /\ handler' = Idle
  /\ spoilt' = (IF handler.blind THEN CarIDs \X Fields ELSE spoilt)
                 \ {Own(handler.message)}
  /\ UNCHANGED <<broker, mqtt, names, up, faults>>

RenameFails ==
  /\ handler.at = "rename" /\ Fault
  /\ tmp' = Absent
  /\ handler' = Idle
  /\ spoilt' = spoilt \cup {Own(handler.message)}
  /\ UNCHANGED <<broker, mqtt, names, file, up>>

-----------------------------------------------------------------------------
(* A plausible slip: Save writes car_names.json itself.                     *)
CrashInPlace ==
  /\ up /\ Fault
  /\ up' = FALSE
  /\ names' = Nameless
  /\ inbox' = {}
  /\ link' = "down"
  /\ handler' = Idle
  /\ file' \in IF handler.at = "write" THEN {file, Torn} ELSE {file}
  /\ UNCHANGED <<broker, crowded, tmp, spoilt>>

(* The process ends, killed or at the end of main: what was being written   *)
(* may be half there.                                                       *)
Crash ==
  /\ up /\ Fault
  /\ up' = FALSE
  /\ names' = Nameless
  /\ inbox' = {}
  /\ link' = "down"
  /\ handler' = Idle
  /\ tmp' \in IF handler.at = "write" THEN {tmp, Torn} ELSE {tmp}
  /\ UNCHANGED <<broker, crowded, file, spoilt>>

(* NewManager restores what Load returns; that may fail, too.               *)
Restart ==
  /\ ~up
  /\ up' = TRUE
  /\ names' = Load(file)
  /\ spoilt' = {}
  /\ UNCHANGED <<broker, mqtt, handler, disk, faults>>

RestartBlind ==
  /\ ~up /\ Fault
  /\ up' = TRUE
  /\ names' = Nameless
  /\ spoilt' = CarIDs \X Fields
  /\ UNCHANGED <<broker, mqtt, handler, disk>>

Save == WriteTmp \/ WriteTmpFails \/ Rename \/ RenameFails

Next ==
  \/ \E t \in BrokerTopics, v \in Values : Publish(t, v)
  \/ Connect \/ MarkConnected \/ Subscribe \/ SubscribeFails \/ ConnectionLost
  \/ \E m \in inbox : Begin(m)
  \/ LoadCars \/ LoadCarsFails \/ Save
  \/ Crash \/ Restart \/ RestartBlind

Spec == Init /\ [][Next]_vars

(* Goroutines get Manager.mu in the end, and calls of the file system       *)
(* return.                                                                  *)
FairSpec ==
  /\ Spec
  /\ WF_vars(\E m \in inbox : Begin(m))
  /\ WF_vars(LoadCars \/ LoadCarsFails)
  /\ WF_vars(Save)

-----------------------------------------------------------------------------
(* jsonstore.go, "writes are atomic", and machine.go:1205, "keeping the     *)
(* other cars": what a Load returns changes by the renames of cacheCar      *)
(* alone, and only the field whose message was handled, wherever the        *)
(* process dies; except when its Load failed and came back empty.           *)
OnlyOwnEntryChanges ==
  [][\A c \in CarIDs, f \in Fields :
       Load(file')[c][f] # Load(file)[c][f] =>
         handler.at = "rename" /\ (handler.blind \/ <<c, f>> = Own(handler.message))]_vars

(* namecache.go, "per-car naming state persisted across restarts": when no  *)
(* message is being handled, a restart brings every car's name and model    *)
(* back, removed names and legacy files included, unless a call of the file *)
(* system failed for that entry.                                            *)
RestartKeepsNames ==
  up /\ handler.at = "idle" =>
    \A c \in CarIDs, f \in Fields :
      <<c, f>> \notin spoilt => Load(file)[c][f] = names[c][f]

(* topics.go and client.go: a car's name is one that was published for this *)
(* car, for this field, in this namespace, or one the file began with.      *)
NamesAreOwn ==
  \A c \in CarIDs, f \in Fields : names[c][f] # "" =>
    \/ [topic |-> OwnTopic(c, f), value |-> names[c][f]] \in published
    \/ \E g \in InitialFiles : names[c][f] = Load(g)[c][f]

(* client.go, onConnect: a subscription makes up for what was missed.  If   *)
(* the link stays up, the name ends up as the one the broker keeps, unless  *)
(* two of its values waited for the mutex at once, which then goes to       *)
(* either first.                                                            *)
NamesCatchUp ==
  \A c \in CarIDs, f \in Fields :
    OwnTopic(c, f) \in BrokerTopics =>
      (<>[](link = "subscribed") =>
         <>[](\/ retained[OwnTopic(c, f)] \in {"", names[c][f]}
              \/ OwnTopic(c, f) \in crowded))
=============================================================================
