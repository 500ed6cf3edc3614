------------------------- MODULE BatteryAlertsProofs -------------------------
(***************************************************************************)
(* The battery alerts are exact for every pair of thresholds, every set of *)
(* levels and every length of the history.                                 *)
(*                                                                         *)
(* The latch is what the code keeps of the history: it is set exactly when *)
(* some alert level was read and no recovered level since.  One lemma says *)
(* what a reading does to the episodes and to the latch, for any two       *)
(* disjoint sets of levels; battery_low and battery_full are its instances. *)
(***************************************************************************)
EXTENDS BatteryAlerts, TLAPS

(* An alert level was read among the first m readings of r, and no          *)
(* recovered level since.                                                   *)
InEpisode(r, m, alert, recovered) ==
  \E j \in 1..m : r[j] \in alert /\ \A k \in j..m : r[k] \notin recovered

(* Opens for a history of its own.                                          *)
OpensIn(r, i, alert, recovered) ==
  /\ r[i] \in alert
  /\ \A j \in 1..(i - 1) : r[j] \in alert => \E k \in j..i : r[k] \in recovered

LatchInv ==
  /\ TypeOK
  /\ batteryLowFired <=> InEpisode(reading, n, LowLevels, RechargedFrom)
  /\ batteryHighFired <=> InEpisode(reading, n, HighLevels, UsedFrom)
  /\ LowAlertsExact
  /\ HighAlertsExact

(* A further reading opens an episode exactly when it is an alert level     *)
(* outside one, and leaves the earlier openings as they were.               *)
LEMMA NextOpens ==
  ASSUME NEW alert, NEW recovered, alert \cap recovered = {},
         NEW m \in Nat, NEW r, NEW s,
         \A i \in 1..m : s[i] = r[i]
  PROVE  /\ \A i \in 1..m : OpensIn(s, i, alert, recovered)
                              <=> OpensIn(r, i, alert, recovered)
         /\ OpensIn(s, m + 1, alert, recovered)
              <=> s[m + 1] \in alert /\ ~InEpisode(r, m, alert, recovered)
<1>1. ASSUME NEW i \in 1..m
      PROVE  OpensIn(s, i, alert, recovered) <=> OpensIn(r, i, alert, recovered)
  <2>1. \A j \in 1..i : s[j] = r[j]
    OBVIOUS
  <2>2. \A j \in 1..(i - 1) : \A k \in j..i : s[j] = r[j] /\ s[k] = r[k]
    BY <2>1
  <2> QED
    BY <2>1, <2>2 DEF OpensIn
<1>2. ASSUME s[m + 1] \in alert
      PROVE  OpensIn(s, m + 1, alert, recovered) <=> ~InEpisode(r, m, alert, recovered)
  <2>1. s[m + 1] \notin recovered
    BY <1>2
  <2>2. \A j \in 1..m : (\E k \in j..(m + 1) : s[k] \in recovered)
                          <=> (\E k \in j..m : r[k] \in recovered)
    <3>1. \A k \in Int : k <= m + 1 <=> k <= m \/ k = m + 1
      OBVIOUS
    <3> QED
      BY <2>1, <3>1
  <2> QED
    BY <1>2, <2>2 DEF OpensIn, InEpisode
<1> QED
  BY <1>1, <1>2 DEF OpensIn

(* After it the car is in an episode exactly when the reading is an alert   *)
(* level, or was in one and the level has not recovered.                    *)
LEMMA NextEpisode ==
  ASSUME NEW alert, NEW recovered, alert \cap recovered = {},
         NEW m \in Nat, NEW r, NEW s,
         \A i \in 1..m : s[i] = r[i]
  PROVE  InEpisode(s, m + 1, alert, recovered)
           <=> \/ s[m + 1] \in alert
               \/ InEpisode(r, m, alert, recovered) /\ s[m + 1] \notin recovered
<1>1. CASE s[m + 1] \in alert
  <2>1. \A k \in (m + 1)..(m + 1) : s[k] \notin recovered
    BY <1>1
  <2> QED
    BY <1>1, <2>1 DEF InEpisode
<1>2. CASE s[m + 1] \notin alert
  <2>1. \A j \in 1..m : (\A k \in j..(m + 1) : s[k] \notin recovered)
                          <=> (\A k \in j..m : r[k] \notin recovered)
                                /\ s[m + 1] \notin recovered
    <3>1. \A k \in Int : k <= m + 1 <=> k <= m \/ k = m + 1
      OBVIOUS
    <3> QED
      BY <3>1
  <2>2. \A j \in 1..(m + 1) : s[j] \in alert => j \in 1..m
    BY <1>2
  <2> QED
    BY <1>2, <2>1, <2>2 DEF InEpisode
<1> QED
  BY <1>1, <1>2

LEMMA LevelsApart ==
  LowLevels \cap RechargedFrom = {} /\ HighLevels \cap UsedFrom = {}
<1> DEFINE margin == batteryThresholdReArmMargin
<1>1. \A l \in Levels : /\ ~(l <= LowPct /\ l >= LowPct + margin)
                        /\ ~(l >= HighPct /\ l <= HighPct - margin)
  BY ThresholdAssumption, ReadingsAssumption DEF batteryThresholdReArmMargin
<1> QED
  BY <1>1 DEF LowLevels, RechargedFrom, HighLevels, UsedFrom

LEMMA InitLatch == Init => LatchInv
<1> SUFFICES ASSUME Init PROVE LatchInv
  OBVIOUS
<1>1. TypeOK
  <2>1. 1..n = {}
    BY DEF Init
  <2>2. reading \in [1..n -> Levels]
    BY <2>1 DEF Init
  <2>3. n \in 0..MaxReadings
    BY ReadingsAssumption DEF Init
  <2> QED
    BY <2>2, <2>3 DEF Init, TypeOK
<1>2. \A alert, recovered : /\ ~InEpisode(reading, n, alert, recovered)
                            /\ Openings(alert, recovered) = {}
  <2>1. 1..n = {}
    BY DEF Init
  <2> QED
    BY <2>1 DEF InEpisode, Openings
<1>3. ~batteryLowFired /\ ~batteryHighFired /\ lowAt = {} /\ highAt = {}
  BY DEF Init
<1> QED
  BY <1>1, <1>2, <1>3 DEF LatchInv, LowAlertsExact, HighAlertsExact

LEMMA CheckLatch ==
  ASSUME LatchInv, NEW level \in Levels, Check(level)
  PROVE  LatchInv'
<1> USE DEF LatchInv
<1>1. /\ n \in Nat /\ n' = n + 1 /\ n' \in 0..MaxReadings
      /\ reading' \in [1..n' -> Levels]
      /\ \A i \in 1..n : reading'[i] = reading[i]
      /\ reading'[n + 1] = level
  BY ReadingsAssumption DEF TypeOK, Check
<1>2. TypeOK'
  <2>1. LowLatch(level, batteryLowFired) \in BOOLEAN
          /\ HighLatch(level, batteryHighFired) \in BOOLEAN
    BY DEF LowLatch, HighLatch
  <2> QED
    BY <1>1, <2>1 DEF TypeOK, Check
<1>3. level \in Int /\ LowPct \in Int /\ HighPct \in Int
  BY ReadingsAssumption, ThresholdAssumption
<1>4. /\ LowFires(level, batteryLowFired) <=> level \in LowLevels /\ ~batteryLowFired
      /\ LowLatch(level, batteryLowFired)
           <=> level \in LowLevels \/ (batteryLowFired /\ level \notin RechargedFrom)
  BY <1>3 DEF LowFires, LowLatch, LowLevels, RechargedFrom, batteryThresholdReArmMargin
<1>5. /\ HighFires(level, batteryHighFired) <=> level \in HighLevels /\ ~batteryHighFired
      /\ HighLatch(level, batteryHighFired)
           <=> level \in HighLevels \/ (batteryHighFired /\ level \notin UsedFrom)
  BY <1>3 DEF HighFires, HighLatch, HighLevels, UsedFrom, batteryThresholdReArmMargin
<1>6. /\ (batteryLowFired <=> InEpisode(reading, n, LowLevels, RechargedFrom))'
      /\ (batteryHighFired <=> InEpisode(reading, n, HighLevels, UsedFrom))'
  <2>1. LowLevels' = LowLevels /\ RechargedFrom' = RechargedFrom
          /\ HighLevels' = HighLevels /\ UsedFrom' = UsedFrom
    BY DEF LowLevels, RechargedFrom, HighLevels, UsedFrom
  <2>2. InEpisode(reading', n + 1, LowLevels, RechargedFrom)
          <=> LowLatch(level, batteryLowFired)
    BY <1>1, <1>4, LevelsApart, NextEpisode
  <2>3. InEpisode(reading', n + 1, HighLevels, UsedFrom)
          <=> HighLatch(level, batteryHighFired)
    BY <1>1, <1>5, LevelsApart, NextEpisode
  <2> QED
    BY <1>1, <2>1, <2>2, <2>3 DEF Check, InEpisode
<1>7. ASSUME NEW alert, NEW recovered, alert \cap recovered = {}
      PROVE  Openings(alert, recovered)'
               = Openings(alert, recovered)
                   \cup {i \in {n + 1} : level \in alert
                            /\ ~InEpisode(reading, n, alert, recovered)}
  <2>1. \A i \in 1..n : OpensIn(reading', i, alert, recovered)
                          <=> OpensIn(reading, i, alert, recovered)
    BY <1>1, <1>7, NextOpens
  <2>2. OpensIn(reading', n + 1, alert, recovered)
          <=> level \in alert /\ ~InEpisode(reading, n, alert, recovered)
    BY <1>1, <1>7, NextOpens
  <2>3. Openings(alert, recovered) = {i \in 1..n : OpensIn(reading, i, alert, recovered)}
    BY DEF Openings, Opens, OpensIn
  <2>4. Openings(alert, recovered)'
          = {i \in 1..(n + 1) : OpensIn(reading', i, alert, recovered)}
    BY <1>1 DEF Openings, Opens, OpensIn
  <2>5. 1..(n + 1) = 1..n \cup {n + 1}
    BY <1>1
  <2> QED
    BY <2>1, <2>2, <2>3, <2>4, <2>5
<1>8. LowAlertsExact'
  <2>1. Openings(LowLevels, RechargedFrom)'
          = Openings(LowLevels, RechargedFrom)
              \cup {i \in {n + 1} : LowFires(level, batteryLowFired)}
    BY <1>4, <1>7, LevelsApart
  <2> QED
    BY <2>1 DEF LowAlertsExact, Check, LowLevels, RechargedFrom
<1>9. HighAlertsExact'
  <2>1. Openings(HighLevels, UsedFrom)'
          = Openings(HighLevels, UsedFrom)
              \cup {i \in {n + 1} : HighFires(level, batteryHighFired)}
    BY <1>5, <1>7, LevelsApart
  <2> QED
    BY <2>1 DEF HighAlertsExact, Check, HighLevels, UsedFrom
<1> QED
  BY <1>2, <1>6, <1>8, <1>9

LEMMA Latches == Spec => []LatchInv
<1>1. LatchInv /\ [Next]_vars => LatchInv'
  <2> SUFFICES ASSUME LatchInv, [Next]_vars PROVE LatchInv'
    OBVIOUS
  <2>1. CASE Next
    BY <2>1, CheckLatch DEF Next
  <2>2. CASE UNCHANGED vars
    BY <2>2 DEF vars, LatchInv, TypeOK, InEpisode, LowAlertsExact, HighAlertsExact,
               Openings, Opens, LowLevels, RechargedFrom, HighLevels, UsedFrom
  <2> QED
    BY <2>1, <2>2
<1> QED
  BY <1>1, InitLatch, PTL DEF Spec

(* The history, the latches and the alerts keep their types.                *)
THEOREM AlertsTypeCorrect == Spec => []TypeOK
BY Latches, PTL DEF LatchInv

(* battery_low fires at the readings that open a low episode and at no      *)
(* other, whatever the threshold and however the level moves.               *)
THEOREM LowAlertsAreExact == Spec => []LowAlertsExact
BY Latches, PTL DEF LatchInv

(* And battery_full at those that open a high one.                          *)
THEOREM HighAlertsAreExact == Spec => []HighAlertsExact
BY Latches, PTL DEF LatchInv
=============================================================================
