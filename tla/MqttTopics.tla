----------------------------- MODULE MqttTopics -----------------------------
(***************************************************************************)
(* mqtt/topics.go and the filter of mqtt/client.go: which topics reach the *)
(* state manager, and as which car and field.  A topic is the sequence of  *)
(* its levels, without the slashes between them.                           *)
(***************************************************************************)
EXTENDS Integers, Sequences

CONSTANTS
  Levels,       (* what may stand between two slashes                      *)
  Namespace,    (* MQTT_NAMESPACE: one level, or "" for none               *)
  CarIDs,       (* the cars watched                                        *)
  BrokerTopics  (* what is published on the broker, by TeslaMate or others *)

Fields == {"display_name", "model"}   (* of the known fields, the two modelled *)

(* The levels before a car's, in the topics and in the subscription.        *)
Root ==
  IF Namespace = "" THEN <<"teslamate", "cars">> ELSE <<"teslamate", Namespace, "cars">>

(* TopicsForCar: the topics TeslaMate publishes a car's fields on.          *)
OwnTopic(c, f) == Root \o <<c, f>>

(* A plausible slip: one wildcard for every namespace.                      *)
MatchesAnything(topic) == topic[1] = "teslamate"

(* The subscription of onConnect, "teslamate[/ns]/cars/#".                  *)
Matches(topic) ==
  Len(topic) >= Len(Root) /\ \A i \in 1..Len(Root) : topic[i] = Root[i]

(* ParseTopic: where it finds the car; the field is the last level.         *)
CarLevel(topic) ==
  IF Len(topic) = 4 /\ topic[1] = "teslamate" /\ topic[2] = "cars" THEN 3
  ELSE IF Len(topic) = 5 /\ topic[1] = "teslamate" /\ topic[3] = "cars" THEN 4
  ELSE 0

CarOf(topic) == topic[CarLevel(topic)]
FieldOf(topic) == topic[Len(topic)]

(* onMessage passes on known fields of watched cars.                        *)
Wanted(topic) ==
  CarLevel(topic) # 0 /\ CarOf(topic) \in CarIDs /\ FieldOf(topic) \in Fields

(* Topics are not empty, no car is called "cars", and without a namespace   *)
(* of our own nobody else's is called "cars".                               *)
ASSUME TopicAssumption ==
  /\ {"teslamate", "cars", Namespace} \cup CarIDs \cup Fields \subseteq Levels
  /\ "cars" \notin CarIDs
  /\ BrokerTopics \subseteq Seq(Levels) \ {<<>>}
  /\ \A t \in BrokerTopics :
       Namespace = "" /\ Len(t) = 5 => ~(t[2] = "cars" /\ t[3] = "cars")
=============================================================================
