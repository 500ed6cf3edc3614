-------------------------- MODULE NotificationProofs --------------------------
(***************************************************************************)
(* What a recipient reads, for every car and every event: the index given  *)
(* to rangeArg is that of the range in its template, and the first text    *)
(* equal to the battery's is the battery's.                                *)
(***************************************************************************)
EXTENDS Notification, TLAPS

(* A template and its index agree, and the battery comes before the limit.  *)
WellFormed(kinds, rangeAt) ==
  /\ kinds \in Seq({"battery", "place", "range", "energy", "limit", "power", "version"})
  /\ rangeAt \in Int
  /\ rangeAt = NoRange \/ rangeAt + 1 \in 1..Len(kinds)
  /\ \A i \in 1..Len(kinds) : kinds[i] = "range" <=> i = rangeAt + 1
  /\ \A i, j \in 1..Len(kinds) :
       kinds[i] = "battery" /\ kinds[j] \in {"battery", "limit"} => i <= j
  /\ \A j \in 1..Len(kinds) : kinds[j] = "limit" =>
       \E i \in 1..Len(kinds) : kinds[i] = "battery"

LEMMA FirstExists ==
  ASSUME NEW n \in 1..4, NEW holds \in [1..n -> BOOLEAN], holds[n]
  PROVE  \E i \in 1..n : holds[i] /\ \A j \in 1..(i - 1) : ~holds[j]
<1>1. n = 1 \/ n = 2 \/ n = 3 \/ n = 4
  OBVIOUS
<1>2. CASE holds[1]
  BY <1>2
<1>3. CASE n >= 2 /\ ~holds[1] /\ holds[2]
  <2>1. \A j \in 1..(2 - 1) : ~holds[j]
    BY <1>3
  <2> QED
    BY <1>3, <2>1
<1>4. CASE n >= 3 /\ ~holds[1] /\ ~holds[2] /\ holds[3]
  <2>1. \A j \in 1..(3 - 1) : ~holds[j]
    BY <1>4
  <2> QED
    BY <1>4, <2>1
<1>5. CASE n = 4 /\ ~holds[1] /\ ~holds[2] /\ ~holds[3]
  <2>1. \A j \in 1..(4 - 1) : ~holds[j]
    BY <1>5
  <2> QED
    BY <1>5, <2>1
<1> QED
  BY <1>1, <1>2, <1>3, <1>4, <1>5

(* A switch whose last case is the default chooses one of its cases.        *)
LEMMA ChosenIsCase ==
  ASSUME NEW cases, NEW n \in 1..4, DOMAIN cases = 1..n, NEW facts, cases[n].needs = {}
  PROVE  \E i \in 1..n : Chosen(cases, facts) = cases[i]
<1> DEFINE holds == [i \in 1..n |-> cases[i].needs \subseteq facts]
<1>1. \A i \in 1..n : holds[i] = (cases[i].needs \subseteq facts)
  OBVIOUS
<1>a. n \in 1..n /\ cases[n].needs \subseteq facts
  OBVIOUS
<1>b. holds \in [1..n -> BOOLEAN] /\ holds[n]
  BY <1>1, <1>a, Zenon
<1>2. \E i \in 1..n : holds[i] /\ \A j \in 1..(i - 1) : ~holds[j]
  <2> HIDE DEF holds
  <2> QED
    BY <1>b, FirstExists
<1>3. \E i \in DOMAIN cases :
        /\ cases[i].needs \subseteq facts
        /\ \A j \in 1..(i - 1) : ~(cases[j].needs \subseteq facts)
  BY <1>1, <1>2
<1> QED
  BY <1>3 DEF Chosen

LEMMA RestingForms ==
  /\ WellFormed(<<"battery", "place", "range">>, 2)
  /\ WellFormed(<<"battery", "place">>, NoRange)
  /\ WellFormed(<<"battery", "range">>, 1)
  /\ WellFormed(<<"battery">>, NoRange)
BY DEF WellFormed, NoRange

LEMMA DrivingForms ==
  /\ WellFormed(<<"place", "battery", "range">>, 2)
  /\ WellFormed(<<"place", "battery">>, NoRange)
BY DEF WellFormed, NoRange

LEMMA ChargingForms ==
  /\ WellFormed(<<"place", "battery", "limit", "power">>, NoRange)
  /\ WellFormed(<<"battery", "limit", "power">>, NoRange)
  /\ WellFormed(<<"place", "battery", "power">>, NoRange)
  /\ WellFormed(<<"battery", "power">>, NoRange)
  /\ WellFormed(<<"place", "battery", "limit">>, NoRange)
  /\ WellFormed(<<"battery", "limit">>, NoRange)
BY DEF WellFormed, NoRange

LEMMA OtherForms ==
  /\ WellFormed(<<"place", "battery", "energy", "range">>, 3)
  /\ WellFormed(<<"battery", "energy">>, NoRange)
  /\ WellFormed(<<"place">>, NoRange)
  /\ WellFormed(<<>>, NoRange)
  /\ WellFormed(<<"version">>, NoRange)
BY DEF WellFormed, NoRange

(* So every template is well formed, whatever the record knows.             *)
Formed(case) == WellFormed(case.kinds, case.rangeAt)

FourFormed(cases) ==
  /\ DOMAIN cases = 1..4 /\ cases[4].needs = {}
  /\ Formed(cases[1]) /\ Formed(cases[2]) /\ Formed(cases[3]) /\ Formed(cases[4])

LEMMA FourCases ==
  ASSUME NEW cases, FourFormed(cases), NEW facts
  PROVE  Formed(Chosen(cases, facts))
<1>1. PICK i \in 1..4 : Chosen(cases, facts) = cases[i]
  BY ChosenIsCase DEF FourFormed
<1> QED
  BY <1>1 DEF FourFormed

LEMMA CaseFormed ==
  \A needs, key, kinds, rangeAt :
    WellFormed(kinds, rangeAt) => Formed(Case(needs, key, kinds, rangeAt))
BY DEF Formed, Case

LEMMA DefaultNeeds == \A key, kinds, rangeAt : Case({}, key, kinds, rangeAt).needs = {}
BY DEF Case

LEMMA TupleFormed ==
  \A a, b, c, d :
    Formed(a) /\ Formed(b) /\ Formed(c) /\ Formed(d) /\ d.needs = {}
      => FourFormed(<<a, b, c, d>>)
<1> SUFFICES ASSUME NEW a, NEW b, NEW c, NEW d,
                    Formed(a), Formed(b), Formed(c), Formed(d), d.needs = {}
             PROVE  FourFormed(<<a, b, c, d>>)
  OBVIOUS
<1> DEFINE cases == <<a, b, c, d>>
<1>1. DOMAIN cases = 1..4 /\ cases[1] = a /\ cases[2] = b /\ cases[3] = c /\ cases[4] = d
  OBVIOUS
<1> HIDE DEF cases
<1>2. FourFormed(cases)
  BY <1>1 DEF FourFormed
<1> QED
  BY <1>2 DEF cases

LEMMA RestingFormed == FourFormed(Resting)
BY RestingForms, CaseFormed, DefaultNeeds, TupleFormed, Zenon DEF Resting, Default

LEMMA DrivingFormed == FourFormed(Driving)
BY RestingForms, DrivingForms, CaseFormed, DefaultNeeds, TupleFormed, Zenon
   DEF Driving, Default

LEMMA LowFormed == FourFormed(Low)
BY RestingForms, DrivingForms, CaseFormed, DefaultNeeds, TupleFormed, Zenon
   DEF Low, Default

LEMMA ChargingFormed == FourFormed(Charging)
BY ChargingForms, CaseFormed, DefaultNeeds, TupleFormed, Zenon DEF Charging

LEMMA ChargedFormed == FourFormed(Charged)
BY RestingForms, DrivingForms, OtherForms, CaseFormed, DefaultNeeds, TupleFormed, Zenon
   DEF Charged, Default

LEMMA ConnectedFormed == FourFormed(Connected)
BY RestingForms, DrivingForms, ChargingForms, CaseFormed, DefaultNeeds, TupleFormed, Zenon
   DEF Connected, Default

LEMMA SentryFormed ==
  ASSUME NEW facts
  PROVE  Formed(Chosen(Sentry, facts))
<1>1. /\ Formed(Case({"geo"}, "geofence", <<"place">>, NoRange))
      /\ Formed(Case({}, "", <<>>, NoRange))
  BY OtherForms, CaseFormed, Zenon
<1>2. DOMAIN Sentry = 1..2 /\ Formed(Sentry[1]) /\ Formed(Sentry[2])
  <2> DEFINE first == Case({"geo"}, "geofence", <<"place">>, NoRange)
             second == Case({}, "", <<>>, NoRange)
  <2>1. Sentry = <<first, second>>
    BY DEF Sentry
  <2> HIDE DEF first, second
  <2>2. DOMAIN Sentry = 1..2 /\ Sentry[1] = first /\ Sentry[2] = second
    BY <2>1
  <2> QED
    BY <1>1, <2>2 DEF first, second
<1>3. Sentry[2].needs = {}
  BY DEF Sentry, Case
<1>4. PICK i \in 1..2 : Chosen(Sentry, facts) = Sentry[i]
  BY <1>2, <1>3, ChosenIsCase
<1> QED
  BY <1>2, <1>4

LEMMA CrossingFormed ==
  ASSUME NEW facts
  PROVE  Formed(Chosen(Crossing, facts))
<1>1. /\ Formed(Case({"range"}, "range", <<"battery", "range">>, 1))
      /\ Formed(Default)
  BY RestingForms, CaseFormed, Zenon DEF Default
<1>2. DOMAIN Crossing = 1..2 /\ Formed(Crossing[1]) /\ Formed(Crossing[2])
  BY <1>1 DEF Crossing
<1>3. Crossing[2].needs = {}
  BY DEF Crossing, Default, Case
<1>4. PICK i \in 1..2 : Chosen(Crossing, facts) = Crossing[i]
  BY <1>2, <1>3, ChosenIsCase
<1> QED
  BY <1>2, <1>4

LEMMA UpdateFormed ==
  ASSUME NEW facts
  PROVE  Formed(Chosen(Update, facts))
<1>1. Formed(Case({}, "", <<"version">>, NoRange))
  BY OtherForms, CaseFormed, Zenon
<1>2. DOMAIN Update = 1..1 /\ Formed(Update[1])
  <2> DEFINE only == Case({}, "", <<"version">>, NoRange)
  <2>1. Update = <<only>>
    BY DEF Update
  <2> HIDE DEF only
  <2>2. DOMAIN Update = 1..1 /\ Update[1] = only
    BY <2>1
  <2> QED
    BY <1>1, <2>2 DEF only
<1>3. Update[1].needs = {}
  BY DEF Update, Case
<1>4. PICK i \in 1..1 : Chosen(Update, facts) = Update[i]
  BY <1>2, <1>3, ChosenIsCase
<1> QED
  BY <1>2, <1>4

LEMMA ChosenFormed ==
  ASSUME NEW event \in EventTypes, NEW facts
  PROVE  Formed(Chosen(Templates[event], facts))
<1>1. \/ Templates[event] \in {Resting, Driving, Low}
      \/ Templates[event] \in {Charging, Charged, Connected}
      \/ Templates[event] \in {Sentry, Update, Crossing}
  BY DEF EventTypes, Templates
<1>2. Templates[event] \in {Resting, Driving, Low, Charging, Charged, Connected}
        => FourFormed(Templates[event])
  BY RestingFormed, DrivingFormed, LowFormed, ChargingFormed, ChargedFormed, ConnectedFormed
<1>3. Templates[event] \in {Sentry, Update, Crossing} => Formed(Chosen(Templates[event], facts))
  BY SentryFormed, UpdateFormed, CrossingFormed
<1> QED
  BY <1>1, <1>2, <1>3, FourCases
-----------------------------------------------------------------------------
(* The notification is the one built from the car, which does not change.   *)
NoteInv ==
  /\ car \in Cars
  /\ note = Nothing \/ \E event \in EventTypes : note = BuildNotification(event, car)

LEMMA NoteHolds == Spec => []NoteInv
<1>1. Init => NoteInv
  BY DEF Init, NoteInv
<1>2. NoteInv /\ [Next]_vars => NoteInv'
  BY DEF NoteInv, Next, Build, vars, BuildNotification
<1> QED
  BY <1>1, <1>2, PTL DEF Spec

(* What a notification that was built looks like.                           *)
LEMMA BuiltNote ==
  ASSUME NEW event \in EventTypes, car \in Cars, note = BuildNotification(event, car)
  PROVE  \E rangeAt \in Int :
           /\ WellFormed(note.kinds, rangeAt)
           /\ note.args = [i \in 1..Len(note.kinds) |-> ArgText(note.kinds[i], car, DistanceUnit)]
           /\ note.typed =
                {Tag(i, "distance_km", car.RatedRangeKm) : i \in {rangeAt} \ {NoRange}}
                \cup {Tag(i, "battery_percent", car.BatteryLevel) :
                        i \in BatteryAt(note.args, Percent(car.BatteryLevel))}
<1> DEFINE case == Chosen(Templates[event], Has(car))
           args == [i \in 1..Len(case.kinds) |-> ArgText(case.kinds[i], car, DistanceUnit)]
<1>1. WellFormed(case.kinds, case.rangeAt)
  BY ChosenFormed DEF Formed
<1>2. case.rangeAt \in Int
  BY <1>1 DEF WellFormed, NoRange
<1>3. /\ note.kinds = case.kinds /\ note.args = args
      /\ note.typed =
           {Tag(i, "distance_km", car.RatedRangeKm) : i \in {case.rangeAt} \ {NoRange}}
           \cup {Tag(i, "battery_percent", car.BatteryLevel) :
                   i \in BatteryAt(args, Percent(car.BatteryLevel))}
  BY DEF BuildNotification
<1> HIDE DEF case
<1> QED
  BY <1>1, <1>2, <1>3

LEMMA TextOfKind ==
  ASSUME NEW c, NEW unit
  PROVE  /\ ArgText("battery", c, unit) = Percent(c.BatteryLevel)
         /\ ArgText("place", c, unit) = c.Geofence
         /\ ArgText("range", c, unit) = <<c.RatedRangeKm, unit>>
         /\ ArgText("energy", c, unit) = <<c.ChargeEnergyAdded, "">>
         /\ ArgText("power", c, unit) = <<c.ChargerPower, "">>
         /\ ArgText("version", c, unit) \in {c.UpdateVersion, c.UpdateAvailable}
BY DEF ArgText

(* Nothing but a percentage reads like one.                                 *)
LEMMA OtherText ==
  ASSUME car \in Cars, car.Geofence # Percent(car.BatteryLevel),
         NEW kind \in {"place", "range", "energy", "power", "version"}
  PROVE  ArgText(kind, car, DistanceUnit) # Percent(car.BatteryLevel)
<1>1. car.UpdateVersion \in Versions /\ car.UpdateAvailable \in Flags
  BY DEF Cars
<1>2. /\ car.UpdateVersion # Percent(car.BatteryLevel)
      /\ car.UpdateAvailable # Percent(car.BatteryLevel)
  BY <1>1, NotificationAssumption DEF Percent
<1>3. DistanceUnit # "%"
  BY NotificationAssumption
<1>4. /\ <<car.RatedRangeKm, DistanceUnit>> # Percent(car.BatteryLevel)
      /\ <<car.ChargeEnergyAdded, "">> # Percent(car.BatteryLevel)
      /\ <<car.ChargerPower, "">> # Percent(car.BatteryLevel)
  BY <1>3 DEF Percent
<1> QED
  BY <1>2, <1>4, TextOfKind

LEMMA TheOnlyOne ==
  ASSUME NEW S, NEW x, x \in S, \A y \in S : y = x
  PROVE  S # {} /\ (CHOOSE y \in S : TRUE) = x
OBVIOUS

(* rangeArg of buildNotification: in every template, for every record, the  *)
(* relay rewords the range, all of it and nothing else.                     *)
THEOREM RangesAreInOwnUnit == Spec => []RangesInOwnUnit
<1>1. ASSUME NEW event \in EventTypes, car \in Cars, note = BuildNotification(event, car),
             NEW unit \in Units, NEW i \in DOMAIN note.args
      PROVE  /\ Shown({"distance_km"}, unit)[i] =
                  IF note.kinds[i] = "range" THEN <<car.RatedRangeKm, unit>> ELSE note.args[i]
             /\ note.kinds[i] = "range" => Shown(TagTypes, unit)[i] = <<car.RatedRangeKm, unit>>
  <2>1. PICK rangeAt \in Int :
           /\ WellFormed(note.kinds, rangeAt)
           /\ note.args = [j \in 1..Len(note.kinds) |-> ArgText(note.kinds[j], car, DistanceUnit)]
           /\ note.typed =
                {Tag(j, "distance_km", car.RatedRangeKm) : j \in {rangeAt} \ {NoRange}}
                \cup {Tag(j, "battery_percent", car.BatteryLevel) :
                        j \in BatteryAt(note.args, Percent(car.BatteryLevel))}
    BY <1>1, BuiltNote
  <2> DEFINE km == Tag(rangeAt, "distance_km", car.RatedRangeKm)
             tags(known) == {tag \in note.typed : tag.index = i - 1 /\ tag.type \in known}
  <2>2. i \in 1..Len(note.kinds)
    BY <1>1, <2>1
  <2>3. \A tag \in note.typed :
          \/ rangeAt # NoRange /\ tag = km
          \/ tag.type = "battery_percent" /\ tag.index \in BatteryAt(note.args, Percent(car.BatteryLevel))
    BY <2>1 DEF Tag
  <2>4. km.index = rangeAt /\ km.type = "distance_km" /\ km.value = car.RatedRangeKm
    BY DEF Tag
  <2>5. CASE note.kinds[i] = "range"
    <3>1. i = rangeAt + 1 /\ rangeAt # NoRange
      BY <2>1, <2>2, <2>5 DEF WellFormed, NoRange
    <3>2. note.args[i] # Percent(car.BatteryLevel)
      <4>1. note.args[i] = <<car.RatedRangeKm, DistanceUnit>>
        <5>1. note.args[i] = ArgText(note.kinds[i], car, DistanceUnit)
          BY <2>1, <2>2
        <5> QED
          BY <2>5, <5>1, TextOfKind, Zenon
      <4>2. DistanceUnit = "km" \/ DistanceUnit = "mi"
        BY NotificationAssumption
      <4> QED
        BY <4>1, <4>2 DEF Percent
    <3>3. i - 1 \notin BatteryAt(note.args, Percent(car.BatteryLevel))
      BY <2>2, <3>2 DEF BatteryAt
    <3>4. km \in note.typed
      BY <2>1, <3>1
    <3>5. ASSUME NEW known, "distance_km" \in known
          PROVE  Shown(known, unit)[i] = <<car.RatedRangeKm, unit>>
      <4>1. km \in tags(known) /\ \A tag \in tags(known) : tag = km
        BY <2>2, <2>3, <2>4, <3>1, <3>3, <3>4, <3>5
      <4> DEFINE S == tags(known)
      <4>2. S # {} /\ (CHOOSE tag \in S : TRUE) = km
        <5> HIDE DEF S
        <5>1. km \in S /\ \A tag \in S : tag = km
          BY <4>1 DEF S
        <5> QED
          BY <5>1, TheOnlyOne, Zenon
      <4>3. Shown(known, unit)[i] = Reworded(km, unit)
        BY <1>1, <4>2 DEF Shown
      <4> QED
        BY <2>4, <4>3 DEF Reworded
    <3> QED
      BY <2>5, <3>5 DEF TagTypes
  <2>6. CASE note.kinds[i] # "range"
    <3>1. i # rangeAt + 1
      BY <2>1, <2>2, <2>6 DEF WellFormed
    <3>2. tags({"distance_km"}) = {}
      BY <2>2, <2>3, <2>4, <3>1
    <3>3. Shown({"distance_km"}, unit)[i] = note.args[i]
      BY <1>1, <3>2 DEF Shown
    <3> QED
      BY <2>6, <3>3
  <2> QED
    BY <2>5, <2>6
<1>2. note = Nothing => RangesInOwnUnit
  <2>1. note = Nothing => DOMAIN note.args = {}
    <3>1. Nothing.args = <<>>
      BY Zenon DEF Nothing
    <3>2. DOMAIN <<>> = {}
      OBVIOUS
    <3> QED
      BY <3>1, <3>2
  <2> QED
    BY <2>1 DEF RangesInOwnUnit
<1>3. car \in Cars /\ (\E event \in EventTypes : note = BuildNotification(event, car))
        => RangesInOwnUnit
  BY <1>1 DEF RangesInOwnUnit
<1>4. NoteInv => RangesInOwnUnit
  BY <1>2, <1>3 DEF NoteInv
<1> QED
  BY <1>4, NoteHolds, PTL

(* The loop at the end of buildNotification finds the battery in every      *)
(* template that has it, and never the limit.                               *)
THEOREM BatteryAloneReworded == Spec => []OnlyBatteryReworded
<1>1. ASSUME NEW event \in EventTypes, car \in Cars, note = BuildNotification(event, car),
             car.Geofence # Percent(car.BatteryLevel),
             NEW unit \in Units, NEW i \in DOMAIN note.args
      PROVE  Shown({"battery_percent"}, unit)[i] =
               IF note.kinds[i] = "battery" THEN Percent(car.UsableBattery) ELSE note.args[i]
  <2> DEFINE bat == Percent(car.BatteryLevel)
             kinds == note.kinds
             args == note.args
             tags == {tag \in note.typed : tag.index = i - 1 /\ tag.type \in {"battery_percent"}}
             soc == Tag(i - 1, "battery_percent", car.BatteryLevel)
  <2>1. PICK rangeAt \in Int :
           /\ WellFormed(kinds, rangeAt)
           /\ args = [j \in 1..Len(kinds) |-> ArgText(kinds[j], car, DistanceUnit)]
           /\ note.typed =
                {Tag(j, "distance_km", car.RatedRangeKm) : j \in {rangeAt} \ {NoRange}}
                \cup {Tag(j, "battery_percent", car.BatteryLevel) : j \in BatteryAt(args, bat)}
    BY <1>1, BuiltNote
  <2>2. Len(kinds) \in Nat /\ i \in 1..Len(kinds) /\ DOMAIN args = 1..Len(kinds)
    BY <1>1, <2>1 DEF WellFormed
  <2>3. \A j \in 1..Len(kinds) :
          /\ kinds[j] = "battery" => args[j] = bat
          /\ kinds[j] \notin {"battery", "limit"} => args[j] # bat
    <3> SUFFICES ASSUME NEW j \in 1..Len(kinds)
                 PROVE  /\ kinds[j] = "battery" => args[j] = bat
                        /\ kinds[j] \notin {"battery", "limit"} => args[j] # bat
      OBVIOUS
    <3>1. args[j] = ArgText(kinds[j], car, DistanceUnit)
      BY <2>1
    <3>2. kinds[j] \in {"battery", "place", "range", "energy", "limit", "power", "version"}
      BY <2>1 DEF WellFormed
    <3>3. kinds[j] = "battery" => args[j] = bat
      BY <3>1, TextOfKind
    <3>4. kinds[j] \notin {"battery", "limit"} => args[j] # bat
      <4> HIDE DEF kinds, args
      <4> QED
        BY <1>1, <3>1, <3>2, OtherText
    <3> QED
      BY <3>3, <3>4
  <2>4. Len(args) = Len(kinds)
    BY <2>1, <2>2
  <2>5. kinds[i] = "battery" => i - 1 \in BatteryAt(args, bat)
    <3> SUFFICES ASSUME kinds[i] = "battery" PROVE i - 1 \in BatteryAt(args, bat)
      OBVIOUS
    <3>1. i - 1 \in 0..(Len(args) - 1) /\ args[(i - 1) + 1] = bat
      BY <2>2, <2>3, <2>4
    <3>2. ASSUME NEW j \in 0..((i - 1) - 1) PROVE args[j + 1] # bat
      <4>1. j + 1 \in 1..Len(kinds) /\ j + 1 < i
        BY <2>2
      <4>2. kinds[j + 1] \notin {"battery", "limit"}
        BY <2>1, <2>2, <4>1 DEF WellFormed
      <4> QED
        BY <2>3, <4>1, <4>2
    <3> HIDE DEF args, bat
    <3> QED
      BY <3>1, <3>2 DEF BatteryAt
  <2>6. i - 1 \in BatteryAt(args, bat) => kinds[i] = "battery"
    <3> SUFFICES ASSUME i - 1 \in BatteryAt(args, bat), kinds[i] # "battery" PROVE FALSE
      OBVIOUS
    <3>1. args[i] = bat /\ \A j \in 0..(i - 2) : args[j + 1] # bat
      BY <2>2 DEF BatteryAt
    <3>2. kinds[i] = "limit"
      BY <2>2, <2>3, <3>1
    <3>3. PICK k \in 1..Len(kinds) : kinds[k] = "battery"
      BY <2>1, <2>2, <3>2 DEF WellFormed
    <3>4. k < i
      BY <2>1, <2>2, <3>2, <3>3 DEF WellFormed
    <3>5. k - 1 \in 0..(i - 2) /\ (k - 1) + 1 = k
      BY <2>2, <3>3, <3>4
    <3> QED
      BY <2>3, <3>1, <3>3, <3>5
  <2>7. \A tag \in tags : tag = soc /\ i - 1 \in BatteryAt(args, bat)
    BY <2>1 DEF Tag
  <2>8. CASE kinds[i] = "battery"
    <3>1. soc \in tags
      BY <2>1, <2>5, <2>8 DEF Tag
    <3>2. tags # {} /\ (CHOOSE tag \in tags : TRUE) = soc
      <4> HIDE DEF tags, soc
      <4> QED
        BY <2>7, <3>1, TheOnlyOne, Zenon
    <3>3. Shown({"battery_percent"}, unit)[i] = Reworded(soc, unit)
      BY <1>1, <3>2 DEF Shown
    <3> QED
      BY <2>8, <3>3 DEF Reworded, Tag
  <2>9. CASE kinds[i] # "battery"
    <3>1. tags = {}
      BY <2>6, <2>7, <2>9
    <3>2. Shown({"battery_percent"}, unit)[i] = args[i]
      BY <1>1, <3>1 DEF Shown
    <3> QED
      BY <2>9, <3>2
  <2> QED
    BY <2>8, <2>9
<1>2. note = Nothing => OnlyBatteryReworded
  <2>1. note = Nothing => DOMAIN note.args = {}
    <3>1. Nothing.args = <<>>
      BY Zenon DEF Nothing
    <3>2. DOMAIN <<>> = {}
      OBVIOUS
    <3> QED
      BY <3>1, <3>2
  <2> QED
    BY <2>1 DEF OnlyBatteryReworded
<1>3. car \in Cars /\ (\E event \in EventTypes : note = BuildNotification(event, car))
        => OnlyBatteryReworded
  BY <1>1 DEF OnlyBatteryReworded
<1>4. NoteInv => OnlyBatteryReworded
  BY <1>2, <1>3 DEF NoteInv
<1> QED
  BY <1>4, NoteHolds, PTL
=============================================================================
