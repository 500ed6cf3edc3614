--------------------------- MODULE CarNamesProofs ---------------------------
(***************************************************************************)
(* For any cars, topics, values and files, and any number of crashes and   *)
(* failed calls: an entry of car_names.json changes by its own messages    *)
(* only, a restart brings the names back, and a name is one that was       *)
(* published for the car.                                                  *)
(*                                                                         *)
(* The invariant follows the map cacheCar carries from its Load to its     *)
(* rename: it is what the file holds but for one field, unless the Load    *)
(* failed; and it follows every value back to its topic.                   *)
(***************************************************************************)
EXTENDS CarNames, SequenceTheorems, TLAPS

Places == {"idle", "load", "write", "rename"}
Messages == [topic : BrokerTopics, value : Values]

Handlers ==
  [at : Places, message : Messages \cup {NoMessage}, cars : CarNamesOf, blind : BOOLEAN]

(* The message handled is for a watched car, and the record has its value.  *)
Handles(m) ==
  /\ m \in Messages /\ Wanted(m.topic)
  /\ names[CarOf(m.topic)][FieldOf(m.topic)] = m.value

TypeInv ==
  /\ retained \in [BrokerTopics -> Values]
  /\ names \in CarNamesOf
  /\ file \in Files /\ tmp \in Files
  /\ inbox \subseteq Messages
  /\ handler \in Handlers
  /\ handler.at # "idle" => up /\ Handles(handler.message)
  /\ ~up => inbox = {} /\ link = "down"

Agrees(cars, except) ==
  \A c \in CarIDs, f \in Fields :
    <<c, f>> \notin except => cars[c][f] = names[c][f]

(* What cacheCar is about to write, and what the file has until then.       *)
CacheInv ==
  /\ handler.at = "idle" /\ up => Agrees(Load(file), spoilt)
  /\ handler.at # "idle" => Agrees(Load(file), spoilt \cup {Own(handler.message)})
  /\ handler.at = "load" => handler.blind = FALSE
  /\ handler.at \in {"write", "rename"} =>
       IF handler.blind
         THEN handler.cars = Cached(Nameless, handler.message)
         ELSE handler.cars = Cached(Load(file), handler.message)
  /\ handler.at = "rename" => tmp = [kind |-> "cars", cars |-> handler.cars]

FileInv == TypeInv /\ CacheInv

LEMMA NamelessType == Nameless \in CarNamesOf /\ Absent \in Files /\ Torn \in Files
BY NamesAssumption DEF Nameless, CarNamesOf, Absent, Torn, Files

LEMMA LoadType ==
  ASSUME NEW g \in Files
  PROVE  Load(g) \in CarNamesOf
<1>1. g.cars \in CarNamesOf /\ g.kind \in {"absent", "torn", "legacy", "cars"}
  BY DEF Files
<1>2. \A c \in CarIDs :
        [Nameless[c] EXCEPT !["display_name"] = g.cars[c]["display_name"]]
          \in [Fields -> Values]
  BY <1>1, NamelessType DEF CarNamesOf, Fields
<1> QED
  BY <1>1, <1>2, NamelessType DEF Load, CarNamesOf

LEMMA LoadOfNew ==
  ASSUME NEW cars
  PROVE  Load([kind |-> "cars", cars |-> cars]) = cars
BY DEF Load

(* What a message changes, in the record or in the map cacheCar loads.      *)
LEMMA OneField ==
  ASSUME NEW cars \in CarNamesOf, NEW c \in CarIDs, NEW f \in Fields, NEW v \in Values
  PROVE  /\ Put(cars, c, f, v) \in CarNamesOf
         /\ Put(cars, c, f, v)[c][f] = v
         /\ \A d \in CarIDs, g \in Fields :
              <<d, g>> # <<c, f>> => Put(cars, c, f, v)[d][g] = cars[d][g]
<1> DEFINE after == [cars EXCEPT ![c][f] = v]
<1>1. after[c] = [cars[c] EXCEPT ![f] = v]
  BY DEF CarNamesOf
<1>2. \A d \in CarIDs \ {c} : after[d] = cars[d]
  BY DEF CarNamesOf
<1>3. after[c] \in [Fields -> Values] /\ after[c][f] = v
      /\ \A g \in Fields \ {f} : after[c][g] = cars[c][g]
  BY <1>1 DEF CarNamesOf
<1>4. after \in CarNamesOf
  BY <1>2, <1>3 DEF CarNamesOf
<1> QED
  BY <1>2, <1>3, <1>4 DEF Put

LEMMA CachedField ==
  ASSUME NEW cars \in CarNamesOf, NEW m, Handles(m)
  PROVE  /\ Cached(cars, m) \in CarNamesOf
         /\ \A c \in CarIDs, f \in Fields :
              Cached(cars, m)[c][f] = IF <<c, f>> = Own(m) THEN names[c][f] ELSE cars[c][f]
<1>1. /\ CarOf(m.topic) \in CarIDs /\ FieldOf(m.topic) \in Fields /\ m.value \in Values
      /\ names[CarOf(m.topic)][FieldOf(m.topic)] = m.value
  BY DEF Handles, Messages, Wanted
<1> QED
  BY <1>1, OneField DEF Cached, Own

LEMMA IdleFields ==
  Idle \in Handlers /\ Idle.at = "idle"
BY NamelessType DEF Idle, Handlers, Places

LEMMA InitFile == Init => FileInv
<1> SUFFICES ASSUME Init PROVE FileInv
  OBVIOUS
<1>1. /\ file \in Files /\ tmp = Absent /\ names = Load(file) /\ handler = Idle /\ up = TRUE
      /\ inbox = {} /\ retained = [t \in BrokerTopics |-> ""] /\ spoilt = {}
  BY NamesAssumption DEF Init
<1>2. TypeInv
  BY <1>1, LoadType, NamelessType, IdleFields, NamesAssumption DEF TypeInv
<1>3. CacheInv
  BY <1>1, IdleFields DEF CacheInv, Agrees
<1> QED
  BY <1>2, <1>3 DEF FileInv

(* The network leaves the record, the handler and the disk alone.           *)
LEMMA NetworkFile ==
  ASSUME FileInv, UNCHANGED <<names, handler, disk, up, spoilt>>,
         retained' \in [BrokerTopics -> Values], inbox' \subseteq Messages,
         ~up => inbox' = {} /\ link' = "down"
  PROVE  FileInv'
<1>1. TypeInv'
  BY DEF FileInv, TypeInv, disk, Handles
<1>2. CacheInv'
  BY DEF FileInv, CacheInv, disk, Agrees
<1> QED
  BY <1>1, <1>2 DEF FileInv

LEMMA PublishFile ==
  ASSUME FileInv, NEW t \in BrokerTopics, NEW v \in Values, Publish(t, v)
  PROVE  FileInv'
<1>1. /\ retained' = [retained EXCEPT ![t] = v] /\ link' = link
      /\ inbox' = IF link = "subscribed" /\ Matches(t)
                    THEN inbox \cup {[topic |-> t, value |-> v]} ELSE inbox
      /\ UNCHANGED <<names, handler, disk, up, spoilt>>
  BY DEF Publish
<1>2. retained' \in [BrokerTopics -> Values] /\ inbox' \subseteq Messages
  BY <1>1 DEF FileInv, TypeInv, Messages
<1>3. ~up => inbox' = {} /\ link' = "down"
  BY <1>1 DEF FileInv, TypeInv
<1> QED
  BY <1>1, <1>2, <1>3, NetworkFile

LEMMA SubscribeFile ==
  ASSUME FileInv, Subscribe
  PROVE  FileInv'
<1>1. /\ link = "marked" /\ UNCHANGED <<retained, names, handler, disk, up, spoilt>>
      /\ inbox' = inbox \cup
           {[topic |-> t, value |-> retained[t]] :
              t \in {x \in BrokerTopics : Matches(x) /\ retained[x] # ""}}
  BY DEF Subscribe, broker
<1>2. inbox' \subseteq Messages /\ retained' \in [BrokerTopics -> Values]
  <2>1. \A t \in BrokerTopics : retained[t] \in Values
    BY DEF FileInv, TypeInv
  <2>2. \A t \in BrokerTopics : [topic |-> t, value |-> retained[t]] \in Messages
    BY <2>1 DEF Messages
  <2> QED
    BY <1>1, <2>2 DEF FileInv, TypeInv
<1>3. up
  BY <1>1 DEF FileInv, TypeInv
<1> QED
  BY <1>1, <1>2, <1>3, NetworkFile

LEMMA LinkFile ==
  ASSUME FileInv, Connect \/ MarkConnected \/ SubscribeFails \/ ConnectionLost
  PROVE  FileInv'
<1>1. UNCHANGED <<retained, inbox, names, handler, disk, up, spoilt>>
  BY DEF Connect, MarkConnected, SubscribeFails, ConnectionLost, broker
<1>2. ~up => link' = "down"
  BY DEF FileInv, TypeInv, Connect, MarkConnected, SubscribeFails, ConnectionLost
<1>3. inbox' \subseteq Messages /\ retained' \in [BrokerTopics -> Values]
      /\ (~up => inbox' = {})
  BY <1>1 DEF FileInv, TypeInv
<1> QED
  BY <1>1, <1>2, <1>3, NetworkFile

(* A message is recorded: its entry in the file is now the one out of date. *)
LEMMA BeginFile ==
  ASSUME FileInv, NEW m \in inbox, Begin(m)
  PROVE  FileInv'
<1> DEFINE c == CarOf(m.topic)
           f == FieldOf(m.topic)
<1>1. /\ handler.at = "idle" /\ inbox' = inbox \ {m} /\ m \in Messages /\ up
      /\ UNCHANGED <<retained, link, disk, up, spoilt>>
  BY DEF Begin, FileInv, TypeInv, broker
<1>2. CASE Wanted(m.topic)
  <2>1. /\ names' = Put(names, c, f, m.value)
        /\ handler' = [Idle EXCEPT !.at = "load", !.message = m]
        /\ c \in CarIDs /\ f \in Fields /\ m.value \in Values
    BY <1>1, <1>2 DEF Begin, Wanted, Messages
  <2>2. /\ handler'.at = "load" /\ handler'.message = m /\ handler'.blind = FALSE
        /\ handler' \in Handlers
    BY <1>1, <2>1, NamelessType DEF Idle, Handlers, Places
  <2>3. names \in CarNamesOf
    BY DEF FileInv, TypeInv
  <2>4. /\ names' \in CarNamesOf /\ names'[c][f] = m.value
        /\ \A d \in CarIDs, g \in Fields :
             <<d, g>> # <<c, f>> => names'[d][g] = names[d][g]
    BY <2>1, <2>3, OneField
  <2>5. Handles(m)'
    BY <1>1, <1>2, <2>4 DEF Handles
  <2>6. TypeInv'
    BY <1>1, <2>2, <2>4, <2>5 DEF FileInv, TypeInv, disk
  <2>7. Agrees(Load(file), spoilt)
    BY <1>1 DEF FileInv, CacheInv
  <2>8. CacheInv'
    BY <1>1, <2>2, <2>4, <2>7 DEF CacheInv, Agrees, disk, Own
  <2> QED
    BY <2>6, <2>8 DEF FileInv
<1>3. CASE ~Wanted(m.topic)
  <2>1. UNCHANGED <<names, handler>>
    BY <1>3 DEF Begin
  <2>2. inbox' \subseteq Messages /\ retained' \in [BrokerTopics -> Values]
    BY <1>1 DEF FileInv, TypeInv
  <2> QED
    BY <1>1, <2>1, <2>2, NetworkFile
<1> QED
  BY <1>2, <1>3

(* The map cacheCar will write differs from what Load returned in one field *)
(* at most.                                                                 *)
LEMMA LoadCarsFile ==
  ASSUME FileInv, LoadCars \/ LoadCarsFails
  PROVE  FileInv'
<1> DEFINE m == handler.message
<1>1. /\ handler.at = "load" /\ handler \in Handlers
      /\ UNCHANGED <<retained, link, inbox, names, disk, up, spoilt>>
  BY DEF LoadCars, LoadCarsFails, broker, mqtt, FileInv, TypeInv
<1>2. Handles(m) /\ up /\ file \in Files /\ handler.blind = FALSE
  BY <1>1 DEF FileInv, TypeInv, CacheInv
<1>3. Cached(Load(file), m) \in CarNamesOf /\ Cached(Nameless, m) \in CarNamesOf
  BY <1>2, CachedField, LoadType, NamelessType
<1>4. /\ handler' \in Handlers /\ handler'.at = "write" /\ handler'.message = m
      /\ IF handler'.blind THEN handler'.cars = Cached(Nameless, m)
                           ELSE handler'.cars = Cached(Load(file), m)
  <2>1. CASE LoadCars
    BY <1>1, <1>2, <1>3, <2>1 DEF LoadCars, Handlers, Places
  <2>2. CASE LoadCarsFails
    BY <1>1, <1>3, <2>2 DEF LoadCarsFails, Handlers, Places
  <2> QED
    BY <2>1, <2>2
<1>5. TypeInv'
  BY <1>1, <1>2, <1>4 DEF FileInv, TypeInv, disk, Handles
<1>6. CacheInv'
  BY <1>1, <1>4 DEF FileInv, CacheInv, Agrees, disk
<1> QED
  BY <1>5, <1>6 DEF FileInv

LEMMA WriteTmpFile ==
  ASSUME FileInv, WriteTmp
  PROVE  FileInv'
<1>1. /\ handler.at = "write" /\ handler \in Handlers
      /\ tmp' = [kind |-> "cars", cars |-> handler.cars]
      /\ handler' = [handler EXCEPT !.at = "rename"]
      /\ UNCHANGED <<retained, link, inbox, names, file, up, spoilt>>
  BY DEF WriteTmp, broker, mqtt, FileInv, TypeInv
<1>2. /\ handler' \in Handlers /\ handler'.at = "rename"
      /\ handler'.message = handler.message /\ handler'.cars = handler.cars
      /\ handler'.blind = handler.blind
  BY <1>1 DEF Handlers, Places
<1>3. tmp' \in Files
  BY <1>1 DEF Handlers, Files
<1>4. TypeInv'
  BY <1>1, <1>2, <1>3 DEF FileInv, TypeInv, Handles
<1>5. CacheInv'
  BY <1>1, <1>2 DEF FileInv, CacheInv, Agrees
<1> QED
  BY <1>4, <1>5 DEF FileInv

(* A save that fails leaves the file as it was, and its own field out of    *)
(* date.                                                                    *)
LEMMA SaveFailsFile ==
  ASSUME FileInv, WriteTmpFails \/ RenameFails
  PROVE  FileInv'
<1>1. /\ handler.at # "idle" /\ handler' = Idle /\ tmp' \in {Absent, Torn}
      /\ spoilt' = spoilt \cup {Own(handler.message)}
      /\ UNCHANGED <<retained, link, inbox, names, file, up>>
  BY DEF WriteTmpFails, RenameFails, broker, mqtt
<1>2. Agrees(Load(file), spoilt \cup {Own(handler.message)})
  BY <1>1 DEF FileInv, CacheInv
<1>3. TypeInv'
  BY <1>1, IdleFields, NamelessType DEF FileInv, TypeInv
<1>4. CacheInv'
  BY <1>1, <1>2, IdleFields DEF CacheInv, Agrees
<1> QED
  BY <1>3, <1>4 DEF FileInv

(* What a rename makes a Load return.                                       *)
LEMMA RenamedEntries ==
  ASSUME FileInv, Rename
  PROVE  /\ handler.at = "rename" /\ Load(file') = handler.cars
         /\ \A c \in CarIDs, f \in Fields :
              Load(file')[c][f] =
                IF <<c, f>> = Own(handler.message) THEN names[c][f]
                ELSE IF handler.blind THEN "" ELSE Load(file)[c][f]
<1>1. /\ handler.at = "rename" /\ file' = tmp /\ handler.blind \in BOOLEAN
      /\ tmp = [kind |-> "cars", cars |-> handler.cars] /\ Handles(handler.message)
      /\ file \in Files
  BY DEF Rename, FileInv, TypeInv, CacheInv, Handlers
<1>2. Load(file') = handler.cars
  BY <1>1, LoadOfNew
<1>3. CASE handler.blind
  <2>1. handler.cars = Cached(Nameless, handler.message)
    BY <1>1, <1>3 DEF FileInv, CacheInv
  <2>2. \A c \in CarIDs, f \in Fields : Nameless[c][f] = ""
    BY DEF Nameless
  <2>3. \A c \in CarIDs, f \in Fields :
          Cached(Nameless, handler.message)[c][f] =
            IF <<c, f>> = Own(handler.message) THEN names[c][f] ELSE Nameless[c][f]
    BY <1>1, CachedField, NamelessType
  <2>4. \A c \in CarIDs, f \in Fields :
          Load(file')[c][f] = IF <<c, f>> = Own(handler.message) THEN names[c][f] ELSE ""
    <3> SUFFICES ASSUME NEW c \in CarIDs, NEW f \in Fields
                 PROVE  Load(file')[c][f] =
                          IF <<c, f>> = Own(handler.message) THEN names[c][f] ELSE ""
      OBVIOUS
    <3>1. Load(file')[c][f] = Cached(Nameless, handler.message)[c][f]
      BY <1>2, <2>1
    <3>2. CASE <<c, f>> = Own(handler.message)
      BY <2>3, <3>1, <3>2
    <3>3. CASE <<c, f>> # Own(handler.message)
      <4>1. Cached(Nameless, handler.message)[c][f] = Nameless[c][f]
        BY <2>3, <3>3
      <4>2. Nameless[c][f] = ""
        BY <2>2
      <4> QED
        BY <3>1, <3>3, <4>1, <4>2
    <3> QED
      BY <3>2, <3>3
  <2>5. \A c \in CarIDs, f \in Fields :
          (IF handler.blind THEN "" ELSE Load(file)[c][f]) = ""
    BY <1>3
  <2> QED
    BY <1>1, <1>2, <2>4, <2>5
<1>4. CASE ~handler.blind
  <2>1. handler.cars = Cached(Load(file), handler.message)
    BY <1>1, <1>4 DEF FileInv, CacheInv
  <2> QED
    BY <1>1, <1>2, <1>4, <2>1, CachedField, LoadType
<1> QED
  BY <1>3, <1>4

LEMMA RenameFile ==
  ASSUME FileInv, Rename
  PROVE  FileInv'
<1>1. /\ file' = tmp /\ tmp' = Absent /\ handler' = Idle
      /\ spoilt' = (IF handler.blind THEN CarIDs \X Fields ELSE spoilt)
                     \ {Own(handler.message)}
      /\ UNCHANGED <<retained, link, inbox, names, up>>
  BY DEF Rename, broker, mqtt
<1>2. TypeInv'
  BY <1>1, IdleFields, NamelessType DEF FileInv, TypeInv
<1>3. \A c \in CarIDs, f \in Fields :
        <<c, f>> \notin spoilt' => Load(file')[c][f] = names[c][f]
  <2> SUFFICES ASSUME NEW c \in CarIDs, NEW f \in Fields, <<c, f>> \notin spoilt'
               PROVE  Load(file')[c][f] = names[c][f]
    OBVIOUS
  <2>1. CASE <<c, f>> = Own(handler.message)
    BY <2>1, RenamedEntries
  <2>2. CASE <<c, f>> # Own(handler.message)
    <3>1. ~handler.blind /\ <<c, f>> \notin spoilt
      BY <1>1, <2>2
    <3>2. Load(file)[c][f] = names[c][f]
      BY <2>2, <3>1, RenamedEntries DEF FileInv, CacheInv, Agrees
    <3> QED
      BY <2>2, <3>1, <3>2, RenamedEntries
  <2> QED
    BY <2>1, <2>2
<1>4. CacheInv'
  BY <1>1, <1>3, IdleFields DEF CacheInv, Agrees
<1> QED
  BY <1>2, <1>4 DEF FileInv

LEMMA ProcessFile ==
  ASSUME FileInv, Crash \/ Restart \/ RestartBlind
  PROVE  FileInv'
<1>1. CASE Crash
  <2>1. /\ up' = FALSE /\ names' = Nameless /\ inbox' = {} /\ link' = "down"
        /\ handler' = Idle /\ tmp' \in {tmp, Torn} /\ UNCHANGED <<retained, file>>
    BY <1>1 DEF Crash, broker
  <2> QED
    BY <2>1, IdleFields, NamelessType DEF FileInv, TypeInv, CacheInv
<1>2. CASE Restart
  <2>1. /\ ~up /\ up' = TRUE /\ names' = Load(file) /\ handler.at = "idle"
        /\ UNCHANGED <<retained, link, inbox, handler, file, tmp>>
    BY <1>2 DEF Restart, broker, mqtt, disk, FileInv, TypeInv
  <2> QED
    BY <2>1, LoadType DEF FileInv, TypeInv, CacheInv, Agrees
<1>3. CASE RestartBlind
  <2>1. /\ ~up /\ up' = TRUE /\ names' = Nameless /\ handler.at = "idle"
        /\ spoilt' = CarIDs \X Fields
        /\ UNCHANGED <<retained, link, inbox, handler, file, tmp>>
    BY <1>3 DEF RestartBlind, broker, mqtt, disk, FileInv, TypeInv
  <2> QED
    BY <2>1, NamelessType DEF FileInv, TypeInv, CacheInv, Agrees
<1> QED
  BY <1>1, <1>2, <1>3

LEMMA NextFile == FileInv /\ [Next]_vars => FileInv'
<1> SUFFICES ASSUME FileInv, [Next]_vars PROVE FileInv'
  OBVIOUS
<1>1. ASSUME NEW t \in BrokerTopics, NEW v \in Values, Publish(t, v) PROVE FileInv'
  BY <1>1, PublishFile
<1>2. CASE Connect \/ MarkConnected \/ SubscribeFails \/ ConnectionLost
  BY <1>2, LinkFile
<1>3. CASE Subscribe
  BY <1>3, SubscribeFile
<1>4. ASSUME NEW m \in inbox, Begin(m) PROVE FileInv'
  BY <1>4, BeginFile
<1>5. CASE LoadCars \/ LoadCarsFails
  BY <1>5, LoadCarsFile
<1>6. CASE Save
  BY <1>6, WriteTmpFile, SaveFailsFile, RenameFile DEF Save
<1>7. CASE Crash \/ Restart \/ RestartBlind
  BY <1>7, ProcessFile
<1>8. CASE UNCHANGED vars
  <2>1. UNCHANGED <<retained, link, inbox, names, handler, disk, up, spoilt>>
    BY <1>8 DEF vars, broker, mqtt
  <2> QED
    BY <2>1, NetworkFile DEF FileInv, TypeInv
<1> QED
  BY <1>1, <1>2, <1>3, <1>4, <1>5, <1>6, <1>7, <1>8 DEF Next

LEMMA FileHolds == Spec => []FileInv
BY InitFile, NextFile, PTL DEF Spec

(* namecache.go: a restart brings back every name and model the record had, *)
(* but for those a failed call of the file system cost; a legacy file and a *)
(* removed name are no exceptions.                                          *)
THEOREM RestartRestores == Spec => []RestartKeepsNames
<1>1. FileInv => RestartKeepsNames
  BY DEF FileInv, CacheInv, Agrees, RestartKeepsNames
<1> QED
  BY <1>1, FileHolds, PTL

(* jsonstore.go, Save, and machine.go, cacheCar: wherever the process dies  *)
(* and whichever call fails, what a Load returns changes by a rename only,  *)
(* and only in the field whose message was handled, or after a blind Load.  *)
THEOREM EntriesAreKept == Spec => OnlyOwnEntryChanges
<1>1. FileInv /\ [Next]_vars =>
        [\A c \in CarIDs, f \in Fields :
           Load(file')[c][f] # Load(file)[c][f] =>
             handler.at = "rename" /\ (handler.blind \/ <<c, f>> = Own(handler.message))]_vars
  <2> SUFFICES ASSUME FileInv, Next, NEW c \in CarIDs, NEW f \in Fields,
                      Load(file')[c][f] # Load(file)[c][f]
               PROVE  handler.at = "rename" /\ (handler.blind \/ <<c, f>> = Own(handler.message))
    OBVIOUS
  <2>1. Rename
    BY DEF Next, Publish, Connect, MarkConnected, Subscribe, SubscribeFails, ConnectionLost,
       Begin, LoadCars, LoadCarsFails, Save, WriteTmp, WriteTmpFails, RenameFails, Crash,
       Restart, RestartBlind, disk
  <2>2. handler.blind \in BOOLEAN
    BY DEF FileInv, TypeInv, Handlers
  <2> QED
    BY <2>1, <2>2, RenamedEntries
<1> QED
  BY <1>1, FileHolds, PTL DEF Spec, OnlyOwnEntryChanges

-----------------------------------------------------------------------------
(* mqtt/topics.go: a topic the subscription lets through, and ParseTopic    *)
(* reads as a watched car's field, is the one TeslaMate publishes that      *)
(* field on.                                                                *)
THEOREM WantedTopicIsOwn ==
  ASSUME NEW t \in BrokerTopics, Matches(t), Wanted(t)
  PROVE  t = OwnTopic(CarOf(t), FieldOf(t))
<1> DEFINE c == CarOf(t)
           f == FieldOf(t)
           pair == <<c, f>>
<1>1. t \in Seq(Levels) /\ Len(t) \in Nat /\ c \in CarIDs /\ c # "cars" /\ c \in Levels
      /\ f \in Levels /\ "teslamate" \in Levels /\ "cars" \in Levels /\ Namespace \in Levels
  BY TopicAssumption, LenProperties DEF Wanted
<1>2. \/ Len(t) = 4 /\ t[1] = "teslamate" /\ t[2] = "cars" /\ c = t[3] /\ f = t[4]
      \/ Len(t) = 5 /\ t[1] = "teslamate" /\ t[3] = "cars" /\ c = t[4] /\ f = t[5]
  BY DEF Wanted, CarLevel, CarOf, FieldOf
<1>3. pair \in Seq(Levels) /\ Len(pair) = 2 /\ pair[1] = c /\ pair[2] = f
  BY <1>1
<1>4. OwnTopic(c, f) = Root \o pair
  BY DEF OwnTopic
<1> HIDE DEF pair
<1>5. CASE Namespace = ""
  <2>1. Root = <<"teslamate", "cars">>
    BY <1>5 DEF Root
  <2>2. t[1] = "teslamate" /\ t[2] = "cars"
    BY <2>1 DEF Matches
  <2>3. Len(t) = 4
    BY <1>2, <1>5, <2>2, TopicAssumption
  <2>4. Len(t) = 4 /\ t[3] = c /\ t[4] = f
    BY <1>2, <2>3
  <2>5. Root \in Seq(Levels) /\ Len(Root) = 2
    BY <1>1, <2>1
  <2>6. /\ OwnTopic(c, f) \in Seq(Levels) /\ Len(OwnTopic(c, f)) = 4
        /\ \A i \in 1..4 : OwnTopic(c, f)[i] = IF i <= 2 THEN Root[i] ELSE pair[i - 2]
    BY <1>3, <1>4, <2>5, ConcatProperties
  <2>7. \A i \in 1..4 : t[i] = OwnTopic(c, f)[i]
    BY <1>3, <2>1, <2>2, <2>4, <2>6
  <2> QED
    BY <1>1, <2>4, <2>6, <2>7, SeqEqual
<1>6. CASE Namespace # ""
  <2>1. Root = <<"teslamate", Namespace, "cars">>
    BY <1>6 DEF Root
  <2>2. t[1] = "teslamate" /\ t[2] = Namespace /\ t[3] = "cars"
    BY <2>1 DEF Matches
  <2>3. Len(t) = 5 /\ t[4] = c /\ t[5] = f
    BY <1>1, <1>2, <2>2
  <2>4. Root \in Seq(Levels) /\ Len(Root) = 3
    BY <1>1, <2>1
  <2>5. /\ Root \o pair \in Seq(Levels) /\ Len(Root \o pair) = Len(Root) + Len(pair)
        /\ \A i \in 1..(Len(Root) + Len(pair)) :
             (Root \o pair)[i] = IF i <= Len(Root) THEN Root[i] ELSE pair[i - Len(Root)]
    BY <1>3, <2>4, ConcatProperties, Zenon
  <2>6. \A i \in 1..5 : i \in {1, 2, 3, 4, 5}
    OBVIOUS
  <2>7. OwnTopic(c, f)[1] = t[1] /\ OwnTopic(c, f)[2] = t[2] /\ OwnTopic(c, f)[3] = t[3]
    BY <1>3, <1>4, <2>1, <2>2, <2>4, <2>5
  <2>8. OwnTopic(c, f)[4] = t[4] /\ OwnTopic(c, f)[5] = t[5]
    BY <1>3, <1>4, <2>3, <2>4, <2>5
  <2> QED
    BY <1>1, <1>3, <1>4, <2>3, <2>4, <2>5, <2>6, <2>7, <2>8, SeqEqual
<1> QED
  BY <1>5, <1>6

(* And every topic TeslaMate publishes for a watched car gets through: the  *)
(* subscription has it, and ParseTopic reads it as that car and that field. *)
THEOREM OwnTopicIsWanted ==
  ASSUME NEW c \in CarIDs, NEW f \in Fields
  PROVE  LET t == OwnTopic(c, f)
         IN  Matches(t) /\ Wanted(t) /\ CarOf(t) = c /\ FieldOf(t) = f
<1> DEFINE t == OwnTopic(c, f)
<1>1. CASE Namespace = ""
  <2>1. Root = <<"teslamate", "cars">>
    BY <1>1 DEF Root
  <2>2. /\ Len(t) = 4 /\ t[1] = "teslamate" /\ t[2] = "cars" /\ t[3] = c /\ t[4] = f
    BY <2>1 DEF OwnTopic
  <2>3. CarLevel(t) = 3
    BY <2>2 DEF CarLevel
  <2>4. Matches(t)
    BY <2>1, <2>2 DEF Matches
  <2> QED
    BY <2>2, <2>3, <2>4 DEF Wanted, CarOf, FieldOf
<1>2. CASE Namespace # ""
  <2>1. Root = <<"teslamate", Namespace, "cars">>
    BY <1>2 DEF Root
  <2>2. /\ Len(t) = 5 /\ t[1] = "teslamate" /\ t[2] = Namespace /\ t[3] = "cars"
        /\ t[4] = c /\ t[5] = f
    BY <2>1 DEF OwnTopic
  <2>3. CarLevel(t) = 4
    BY <2>2 DEF CarLevel
  <2>4. Matches(t)
    BY <2>1, <2>2 DEF Matches
  <2> QED
    BY <2>2, <2>3, <2>4 DEF Wanted, CarOf, FieldOf
<1> QED
  BY <1>1, <1>2

(* A value has a right to be car c's f, given what was ever said.           *)
Known(said, c, f, v) ==
  \/ v = ""
  \/ [topic |-> OwnTopic(c, f), value |-> v] \in said
  \/ \E g \in InitialFiles : v = Load(g)[c][f]

AllKnown(said, cars) == \A c \in CarIDs, f \in Fields : Known(said, c, f, cars[c][f])

Saving(h) == h.at = "write" \/ h.at = "rename"

Said(said, messages) == \A m \in messages : m \in said /\ Matches(m.topic)

KeptWasSaid(said, kept) ==
  \A t \in BrokerTopics : kept[t] # "" => [topic |-> t, value |-> kept[t]] \in said

OriginInv ==
  /\ AllKnown(published, names)
  /\ AllKnown(published, Load(file))
  /\ Saving(handler) => AllKnown(published, handler.cars)
  /\ Said(published, inbox)
  /\ KeptWasSaid(published, retained)

LEMMA NamelessKnown == \A said : AllKnown(said, Nameless)
BY DEF AllKnown, Known, Nameless

(* What was known stays known as more is said.                              *)
LEMMA MoreKnown ==
  ASSUME NEW said, NEW more, said \subseteq more, NEW cars, AllKnown(said, cars)
  PROVE  AllKnown(more, cars)
BY DEF AllKnown, Known

LEMMA InitOrigin == Init => OriginInv
<1> SUFFICES ASSUME Init PROVE OriginInv
  OBVIOUS
<1>1. file \in InitialFiles /\ names = Load(file) /\ handler.at = "idle" /\ inbox = {}
      /\ \A t \in BrokerTopics : retained[t] = ""
  BY IdleFields DEF Init
<1>2. AllKnown(published, Load(file))
  BY <1>1 DEF AllKnown, Known
<1>3. ~Saving(handler)
  BY <1>1 DEF Saving
<1> QED
  BY <1>1, <1>2, <1>3 DEF OriginInv, Said, KeptWasSaid

(* A step that changes neither names nor the file, and what is being        *)
(* written only by not writing it any more.                                 *)
LEMMA SameOrigin ==
  ASSUME OriginInv, published \subseteq published', UNCHANGED <<names, file>>,
         Saving(handler') => Saving(handler) /\ handler'.cars = handler.cars,
         Said(published', inbox'), KeptWasSaid(published', retained')
  PROVE  OriginInv'
<1>1. AllKnown(published', names') /\ AllKnown(published', Load(file'))
  BY MoreKnown DEF OriginInv
<1>2. Saving(handler') => AllKnown(published', handler'.cars)
  BY MoreKnown DEF OriginInv
<1> QED
  BY <1>1, <1>2 DEF OriginInv

(* A message that is handled was published on the car's own topic.          *)
LEMMA HandledIsOwn ==
  ASSUME FileInv, OriginInv, NEW m \in inbox, Wanted(m.topic)
  PROVE  Known(published, CarOf(m.topic), FieldOf(m.topic), m.value)
<1>1. m \in Messages /\ m \in published /\ Matches(m.topic)
  BY DEF FileInv, TypeInv, OriginInv, Said
<1>2. m.topic = OwnTopic(CarOf(m.topic), FieldOf(m.topic))
  BY <1>1, WantedTopicIsOwn DEF Messages
<1>3. m = [topic |-> m.topic, value |-> m.value]
  BY <1>1 DEF Messages
<1> QED
  BY <1>1, <1>2, <1>3 DEF Known

LEMMA BeginOrigin ==
  ASSUME FileInv, OriginInv, NEW m \in inbox, Begin(m)
  PROVE  OriginInv'
<1> DEFINE c == CarOf(m.topic)
           f == FieldOf(m.topic)
<1>1. /\ inbox' \subseteq inbox /\ UNCHANGED <<retained, published, file>> /\ m \in Messages
      /\ handler.at = "idle" /\ names \in CarNamesOf
  BY DEF Begin, broker, disk, FileInv, TypeInv
<1>2. Said(published', inbox') /\ KeptWasSaid(published', retained')
  BY <1>1 DEF OriginInv, Said
<1>3. CASE Wanted(m.topic)
  <2>1. /\ names' = Put(names, c, f, m.value) /\ handler'.at = "load"
        /\ c \in CarIDs /\ f \in Fields /\ m.value \in Values
    BY <1>1, <1>3 DEF Begin, Wanted, Messages, Idle
  <2>2. /\ names'[c][f] = m.value
        /\ \A d \in CarIDs, g \in Fields :
             <<d, g>> # <<c, f>> => names'[d][g] = names[d][g]
    BY <1>1, <2>1, OneField
  <2>3. Known(published, c, f, m.value)
    BY <1>3, HandledIsOwn
  <2>4. AllKnown(published', names')
    <3> SUFFICES ASSUME NEW d \in CarIDs, NEW g \in Fields
                 PROVE  Known(published, d, g, names'[d][g])
      BY <1>1 DEF AllKnown
    <3>1. CASE <<d, g>> = <<c, f>>
      BY <2>2, <2>3, <3>1
    <3>2. CASE <<d, g>> # <<c, f>>
      BY <2>2, <3>2 DEF OriginInv, AllKnown
    <3> QED
      BY <3>1, <3>2
  <2>5. AllKnown(published', Load(file')) /\ ~Saving(handler')
    BY <1>1, <2>1 DEF OriginInv, Saving
  <2> QED
    BY <1>2, <2>4, <2>5 DEF OriginInv
<1>4. CASE ~Wanted(m.topic)
  <2>1. UNCHANGED <<names, handler>>
    BY <1>4 DEF Begin
  <2> QED
    BY <1>1, <1>2, <2>1, SameOrigin
<1> QED
  BY <1>3, <1>4

LEMMA CachedKnown ==
  ASSUME NEW said, NEW cars \in CarNamesOf, AllKnown(said, cars), AllKnown(said, names),
         NEW m, Handles(m)
  PROVE  AllKnown(said, Cached(cars, m))
<1> SUFFICES ASSUME NEW c \in CarIDs, NEW f \in Fields
             PROVE  Known(said, c, f, Cached(cars, m)[c][f])
  BY DEF AllKnown
<1>1. CASE <<c, f>> = Own(m)
  <2>1. Cached(cars, m)[c][f] = names[c][f]
    BY <1>1, CachedField
  <2> QED
    BY <2>1 DEF AllKnown
<1>2. CASE <<c, f>> # Own(m)
  <2>1. Cached(cars, m)[c][f] = cars[c][f]
    BY <1>2, CachedField
  <2> QED
    BY <2>1 DEF AllKnown
<1> QED
  BY <1>1, <1>2

LEMMA LoadCarsOrigin ==
  ASSUME FileInv, OriginInv, LoadCars \/ LoadCarsFails
  PROVE  OriginInv'
<1> DEFINE m == handler.message
<1>1. /\ handler.at = "load" /\ handler \in Handlers /\ Handles(m) /\ file \in Files
      /\ UNCHANGED <<retained, published, inbox, names, file>>
  BY DEF LoadCars, LoadCarsFails, broker, mqtt, disk, FileInv, TypeInv
<1>2. handler'.cars \in {Cached(Load(file), m), Cached(Nameless, m)}
  BY <1>1 DEF LoadCars, LoadCarsFails, Handlers
<1>3. /\ AllKnown(published, Cached(Load(file), m))
      /\ AllKnown(published, Cached(Nameless, m))
  BY <1>1, CachedKnown, LoadType, NamelessType, NamelessKnown DEF OriginInv
<1>4. AllKnown(published', handler'.cars)
  BY <1>1, <1>2, <1>3
<1> QED
  BY <1>1, <1>4 DEF OriginInv

LEMMA SaveOrigin ==
  ASSUME FileInv, OriginInv, Save
  PROVE  OriginInv'
<1>1. UNCHANGED <<retained, published, inbox, names>>
  BY DEF Save, WriteTmp, WriteTmpFails, Rename, RenameFails, broker, mqtt
<1>2. Said(published', inbox') /\ KeptWasSaid(published', retained')
  BY <1>1 DEF OriginInv
<1>3. CASE WriteTmp
  <2>1. handler'.cars = handler.cars /\ Saving(handler) /\ file' = file
    BY <1>3 DEF WriteTmp, FileInv, TypeInv, Handlers, Saving
  <2> QED
    BY <1>1, <1>2, <2>1, SameOrigin
<1>4. CASE WriteTmpFails \/ RenameFails
  <2>1. ~Saving(handler') /\ file' = file
    BY <1>4, IdleFields DEF WriteTmpFails, RenameFails, Saving
  <2> QED
    BY <1>1, <1>2, <2>1, SameOrigin
<1>5. CASE Rename
  <2>1. ~Saving(handler') /\ Saving(handler) /\ Load(file') = handler.cars
    BY <1>5, IdleFields, RenamedEntries DEF Rename, Saving
  <2>2. AllKnown(published', Load(file')) /\ AllKnown(published', names')
    BY <1>1, <2>1 DEF OriginInv
  <2> QED
    BY <1>2, <2>1, <2>2 DEF OriginInv
<1> QED
  BY <1>3, <1>4, <1>5 DEF Save

LEMMA ProcessOrigin ==
  ASSUME FileInv, OriginInv, Crash \/ Restart \/ RestartBlind
  PROVE  OriginInv'
<1>1. UNCHANGED <<retained, published, file>> /\ inbox' \subseteq inbox
  BY DEF Crash, Restart, RestartBlind, broker, mqtt, disk
<1>2. handler'.at = "idle" /\ names' \in {Nameless, Load(file)}
  BY IdleFields DEF Crash, Restart, RestartBlind, FileInv, TypeInv
<1>3. AllKnown(published', names') /\ AllKnown(published', Load(file'))
  BY <1>1, <1>2, NamelessKnown DEF OriginInv
<1>4. ~Saving(handler')
  BY <1>2 DEF Saving
<1> QED
  BY <1>1, <1>3, <1>4 DEF OriginInv, Said

LEMMA NetworkOrigin ==
  ASSUME FileInv, OriginInv,
         \/ Subscribe \/ Connect \/ MarkConnected \/ SubscribeFails \/ ConnectionLost
         \/ \E t \in BrokerTopics, v \in Values : Publish(t, v)
  PROVE  OriginInv'
<1>1. ASSUME NEW t \in BrokerTopics, NEW v \in Values, Publish(t, v)
      PROVE  OriginInv'
  <2>1. /\ retained' = [retained EXCEPT ![t] = v]
        /\ published' = published \cup {[topic |-> t, value |-> v]}
        /\ inbox' = IF link = "subscribed" /\ Matches(t)
                      THEN inbox \cup {[topic |-> t, value |-> v]} ELSE inbox
        /\ UNCHANGED <<names, handler, file>>
    BY <1>1 DEF Publish, disk
  <2>2. Said(published', inbox')
    BY <2>1 DEF OriginInv, Said
  <2>3. KeptWasSaid(published', retained')
    BY <2>1 DEF OriginInv, FileInv, TypeInv, KeptWasSaid
  <2> QED
    BY <2>1, <2>2, <2>3, SameOrigin
<1>2. CASE Subscribe
  <2>1. /\ UNCHANGED <<retained, published, names, handler, file>>
        /\ inbox' = inbox \cup
             {[topic |-> t, value |-> retained[t]] :
                t \in {x \in BrokerTopics : Matches(x) /\ retained[x] # ""}}
    BY <1>2 DEF Subscribe, broker, disk
  <2>2. Said(published', inbox')
    <3> SUFFICES ASSUME NEW m \in inbox' PROVE m \in published' /\ Matches(m.topic)
      BY DEF Said
    <3>1. CASE m \in inbox
      BY <2>1, <3>1 DEF OriginInv, Said
    <3>2. CASE m \notin inbox
      <4>1. PICK t \in BrokerTopics : /\ Matches(t) /\ retained[t] # ""
                                     /\ m = [topic |-> t, value |-> retained[t]]
        BY <2>1, <3>2
      <4> QED
        BY <2>1, <4>1 DEF OriginInv, KeptWasSaid
    <3> QED
      BY <3>1, <3>2
  <2>3. KeptWasSaid(published', retained')
    BY <2>1 DEF OriginInv
  <2> QED
    BY <2>1, <2>2, <2>3, SameOrigin
<1>3. CASE Connect \/ MarkConnected \/ SubscribeFails \/ ConnectionLost
  <2>1. UNCHANGED <<retained, published, inbox, names, handler, file>>
    BY <1>3 DEF Connect, MarkConnected, SubscribeFails, ConnectionLost, broker, disk
  <2> QED
    BY <2>1, SameOrigin DEF OriginInv
<1> QED
  BY <1>1, <1>2, <1>3

LEMMA NextOrigin == FileInv /\ OriginInv /\ [Next]_vars => OriginInv'
<1> SUFFICES ASSUME FileInv, OriginInv, [Next]_vars PROVE OriginInv'
  OBVIOUS
<1>1. CASE UNCHANGED vars
  <2>1. UNCHANGED <<retained, published, inbox, names, handler, file>>
    BY <1>1 DEF vars, broker, mqtt, disk
  <2> QED
    BY <2>1, SameOrigin DEF OriginInv
<1> QED
  BY <1>1, NetworkOrigin, BeginOrigin, LoadCarsOrigin, SaveOrigin, ProcessOrigin DEF Next

(* mqtt/topics.go and client.go: whatever else is on the broker, under any  *)
(* namespace, a car's name is one published for it, or one of the file the  *)
(* notifier began with.                                                     *)
THEOREM NamesHaveOrigin == Spec => []NamesAreOwn
<1>1. OriginInv => NamesAreOwn
  BY DEF OriginInv, AllKnown, Known, NamesAreOwn
<1> QED
  BY <1>1, InitOrigin, NextOrigin, FileHolds, PTL DEF Spec
=============================================================================
