------------------------- MODULE EventEmitterProofs -------------------------
(***************************************************************************)
(* The debouncing keeps the newest event of every key, for any keys and    *)
(* any number of events.                                                   *)
(*                                                                         *)
(* NewestIsKept alone is not inductive: Emit cancels the timer that the    *)
(* map holds, so one must know that the map holds the newest event of the  *)
(* key and nothing else (MapHoldsNewest), and that only debounced keys     *)
(* ever have a timer.  That a timer is out of the map, or has a second one  *)
(* beside it, is traced to the one callback that ran in between: whoever   *)
(* was called has gone on to be sent, and is not called again              *)
(* (CalledAreSent).                                                        *)
(***************************************************************************)
EXTENDS EventEmitter, TLAPS

TimersAreDebounced == \A i \in Events : status[i] \in {"armed", "expired"} => keyOf[i] \in Keys

CalledAreSent ==
  \A i \in Events : calledAt[i] # 0 => status[i] \in {"sending"} \cup Delivered

EmitterInv ==
  /\ TypeOK
  /\ TimersAreDebounced
  /\ CalledAreSent
  /\ NewestIsKept
  /\ MapHoldsNewest
  /\ UntrackedByRace
  /\ TwoTimersByRace

(* What every action that appends an event leaves of the others.            *)
LEMMA Appended ==
  ASSUME TypeOK, NEW k \in Keys \cup Immediate, NEW st \in Status,
         NEW others \in [Events -> Status], Append(k, st, others)
  PROVE  /\ emitted \in Nat /\ emitted' = emitted + 1 /\ emitted' \in 0..MaxEvents
         /\ Events' = Events \cup {emitted + 1} /\ emitted + 1 \notin Events
         /\ keyOf' \in [Events' -> Keys \cup Immediate]
         /\ status' \in [Events' -> Status]
         /\ keyOf'[emitted + 1] = k /\ status'[emitted + 1] = st
         /\ \A i \in Events : keyOf'[i] = keyOf[i] /\ status'[i] = others[i]
         /\ calledAt' \in [Events' -> 0..emitted'] /\ calledAt'[emitted + 1] = 0
         /\ \A i \in Events : calledAt'[i] = calledAt[i]
<1>1. emitted \in Nat /\ emitted' = emitted + 1 /\ emitted' \in 0..MaxEvents
  BY EmitterAssumption DEF TypeOK, Append
<1>2. Events' = 1..(emitted + 1) /\ Events' = Events \cup {emitted + 1}
        /\ emitted + 1 \notin Events
  BY <1>1 DEF Events
<1>3. \A i \in Events : i # emitted + 1
  BY <1>2
<1>4. keyOf \in [Events -> Keys \cup Immediate]
  BY DEF TypeOK
<1>5. keyOf' \in [Events' -> Keys \cup Immediate]
  BY <1>2, <1>3, <1>4 DEF Append
<1>6. status' \in [Events' -> Status]
  BY <1>2, <1>3 DEF Append
<1>7. keyOf'[emitted + 1] = k /\ status'[emitted + 1] = st
  BY <1>2 DEF Append
<1>8. \A i \in Events : keyOf'[i] = keyOf[i] /\ status'[i] = others[i]
  BY <1>2, <1>3 DEF Append
<1>9. calledAt'[emitted + 1] = 0 /\ \A i \in Events : calledAt'[i] = calledAt[i]
  BY <1>2, <1>3 DEF Append
<1>10. calledAt' \in [Events' -> 0..emitted']
  <2>1. calledAt \in [Events -> 0..emitted] /\ 0 \in 0..emitted' /\ 0..emitted \subseteq 0..emitted'
    BY <1>1 DEF TypeOK
  <2>2. DOMAIN calledAt' = Events' /\ calledAt' = [i \in Events' |-> calledAt'[i]]
    BY <1>2 DEF Append
  <2>3. \A i \in Events' : calledAt'[i] \in 0..emitted'
    BY <1>2, <1>9, <2>1
  <2> QED
    BY <2>2, <2>3
<1> QED
  BY <1>1, <1>2, <1>5, <1>6, <1>7, <1>8, <1>9, <1>10

(* An appended event is newer than all others, and it ends the newest of    *)
(* its own key only.                                                        *)
LEMMA NewestAfter ==
  ASSUME emitted \in Nat, emitted' = emitted + 1,
         NEW k, keyOf'[emitted + 1] = k, \A i \in Events : keyOf'[i] = keyOf[i]
  PROVE  /\ Newest(emitted + 1)'
         /\ \A i \in Events : Newest(i)' <=> Newest(i) /\ keyOf[i] # k
<1>1. Events' = Events \cup {emitted + 1} /\ \A i \in Events : i < emitted + 1 /\ i \in Int
  BY DEF Events
<1>2. Newest(emitted + 1)'
  BY <1>1 DEF Newest
<1>3. ASSUME NEW i \in Events
      PROVE  Newest(i)' <=> Newest(i) /\ keyOf[i] # k
  <2>1. ~(emitted + 1 <= i)
    BY <1>1
  <2> QED
    BY <1>1, <2>1 DEF Newest
<1> QED
  BY <1>2, <1>3

LEMMA InitEmitter == Init => EmitterInv
<1> SUFFICES ASSUME Init PROVE EmitterInv
  OBVIOUS
<1>1. Events = {}
  BY DEF Init, Events
<1>2. emitted \in 0..MaxEvents /\ timers \in [Keys -> 0..emitted] /\ stopped \in BOOLEAN
  <2>1. emitted = 0 /\ 0 \in 0..MaxEvents /\ 0 \in 0..0
    BY EmitterAssumption DEF Init
  <2> QED
    BY <2>1 DEF Init
<1>3. /\ keyOf \in [Events -> Keys \cup Immediate] /\ status \in [Events -> Status]
      /\ calledAt \in [Events -> 0..emitted]
  BY <1>1 DEF Init
<1>4. \A k \in Keys : timers[k] = 0
  BY DEF Init
<1>5. TypeOK
  BY <1>2, <1>3 DEF TypeOK
<1>6. MapHoldsNewest
  BY <1>4 DEF MapHoldsNewest
<1> QED
  BY <1>1, <1>5, <1>6 DEF EmitterInv, TimersAreDebounced, CalledAreSent, NewestIsKept,
     UntrackedByRace, TwoTimersByRace

LEMMA EmitKeeps ==
  ASSUME EmitterInv, NEW k \in Keys, Emit(k)
  PROVE  EmitterInv'
<1> DEFINE new == emitted + 1
           others == [i \in Events |-> IF i = timers[k] THEN Cancelled(status[i]) ELSE status[i]]
<1>0. TypeOK /\ status \in [Events -> Status] /\ timers \in [Keys -> 0..emitted]
        /\ keyOf \in [Events -> Keys \cup Immediate] /\ stopped \in BOOLEAN
  BY DEF EmitterInv, TypeOK
<1>1. others \in [Events -> Status]
  BY <1>0 DEF Cancelled, Status, Waiting, Delivered
<1>2. /\ emitted \in Nat /\ emitted' = new /\ emitted' \in 0..MaxEvents
      /\ Events' = Events \cup {new} /\ new \notin Events
      /\ keyOf' \in [Events' -> Keys \cup Immediate]
      /\ status' \in [Events' -> Status]
      /\ keyOf'[new] = k /\ status'[new] = "armed"
      /\ \A i \in Events : keyOf'[i] = keyOf[i] /\ status'[i] = others[i]
      /\ calledAt' \in [Events' -> 0..emitted'] /\ calledAt'[new] = 0
      /\ \A i \in Events : calledAt'[i] = calledAt[i]
  <2>1. "armed" \in Status /\ k \in Keys \cup Immediate
    BY DEF Status, Waiting
  <2>2. Append(k, "armed", others)
    BY DEF Emit
  <2> HIDE DEF others
  <2> QED
    BY <1>0, <1>1, <2>1, <2>2, Appended
<1>3. Newest(new)' /\ \A i \in Events : Newest(i)' <=> Newest(i) /\ keyOf[i] # k
  BY <1>2, NewestAfter
<1>4. timers' \in [Keys -> 0..emitted'] /\ stopped' = stopped
        /\ timers'[k] = new /\ \A q \in Keys : q # k => timers'[q] = timers[q]
  <2>1. new \in 0..emitted' /\ 0..emitted \subseteq 0..emitted'
    BY <1>2
  <2> QED
    BY <1>0, <2>1 DEF Emit
<1>5. \A i \in Events : status'[i] = IF i = timers[k] /\ status[i] = "armed"
                                        THEN "cancelled" ELSE status[i]
  BY <1>2 DEF Cancelled
<1>6. timers[k] # 0 => /\ timers[k] \in Events /\ keyOf[timers[k]] = k
  BY <1>0, <1>2 DEF EmitterInv, MapHoldsNewest, Events
<1>7. TypeOK'
  BY <1>0, <1>2, <1>4 DEF TypeOK
<1>8. TimersAreDebounced'
  BY <1>2, <1>5 DEF EmitterInv, TimersAreDebounced
<1>9. NewestIsKept'
  <2>1. ASSUME NEW i \in Events, status'[i] = "cancelled" PROVE ~Newest(i)' \/ stopped'
    <3>1. CASE i = timers[k]
      <4>1. i # 0
        BY <1>2 DEF Events
      <4> QED
        BY <1>3, <1>6, <3>1, <4>1
    <3>2. CASE i # timers[k]
      BY <1>3, <1>4, <1>5, <2>1, <3>2 DEF EmitterInv, NewestIsKept
    <3> QED
      BY <3>1, <3>2
  <2> QED
    BY <1>2, <2>1 DEF NewestIsKept
<1>10. MapHoldsNewest'
  <2>1. ASSUME NEW q \in Keys, timers'[q] # 0
        PROVE  /\ keyOf'[timers'[q]] = q
               /\ \A j \in Events' : keyOf'[j] = keyOf'[timers'[q]] => j <= timers'[q]
               /\ status'[timers'[q]] \in {"armed", "expired"}
    <3>1. CASE q = k
      <4>1. timers'[q] = new /\ keyOf'[new] = q /\ status'[new] = "armed"
        BY <1>2, <1>4, <3>1
      <4>2. \A j \in Events' : j <= new
        BY <1>2 DEF Events
      <4> QED
        BY <4>1, <4>2
    <3>2. CASE q # k
      <4>1. timers'[q] = timers[q] /\ timers[q] \in Events
        BY <1>0, <1>2, <1>4, <2>1, <3>2 DEF Events
      <4>2. /\ keyOf[timers[q]] = q /\ Newest(timers[q])
            /\ status[timers[q]] \in {"armed", "expired"}
        BY <2>1, <4>1 DEF EmitterInv, MapHoldsNewest
      <4>3. timers[q] # timers[k]
        BY <1>6, <2>1, <3>2, <4>1, <4>2
      <4> QED
        <5>1. \A j \in Events' : keyOf'[j] = keyOf'[timers[q]] => j <= timers[q]
          BY <1>2, <1>3, <3>2, <4>1, <4>2 DEF Newest
        <5>2. status'[timers[q]] = status[timers[q]]
          BY <1>5, <4>1, <4>3
        <5> QED
          BY <1>2, <4>1, <4>2, <5>1, <5>2
    <3> QED
      BY <3>1, <3>2
  <2> QED
    BY <2>1 DEF MapHoldsNewest, Newest
<1>11. calledAt \in [Events -> 0..emitted] /\ Events = 1..emitted /\ Events' = 1..new
  BY <1>2 DEF EmitterInv, TypeOK, Events
<1>12. CalledAreSent'
  <2>1. ASSUME NEW i \in Events, calledAt[i] # 0
        PROVE  status'[i] \in {"sending"} \cup Delivered
    <3>1. status[i] \in {"sending"} \cup Delivered
      BY <2>1 DEF EmitterInv, CalledAreSent
    <3> QED
      BY <1>5, <3>1 DEF Delivered
  <2> QED
    BY <1>2, <2>1 DEF CalledAreSent
<1>13. UntrackedByRace'
  <2>1. ASSUME NEW i \in Events', status'[i] = "armed", timers'[keyOf'[i]] # i
        PROVE  \E h \in 1..(i - 1) : CalledBetween(h, i, emitted + 1)'
    <3>1. i \in Events
      BY <1>2, <1>4, <2>1
    <3>2. status[i] = "armed" /\ keyOf'[i] = keyOf[i] /\ keyOf[i] \in Keys
      BY <1>2, <1>5, <2>1, <3>1 DEF EmitterInv, TimersAreDebounced
    <3>3. timers[keyOf[i]] # i
      BY <1>4, <1>5, <2>1, <3>1, <3>2
    <3>4. PICK h \in 1..(i - 1) : CalledBetween(h, i, emitted + 1)
      BY <3>1, <3>2, <3>3 DEF EmitterInv, UntrackedByRace
    <3>5. h \in Events /\ i \in Int
      BY <1>2, <1>11, <3>1
    <3>6. calledAt'[h] = calledAt[h] /\ keyOf'[h] = keyOf[h]
      BY <1>2, <3>5
    <3> QED
      BY <1>2, <3>1, <3>2, <3>4, <3>5, <3>6 DEF CalledBetween
  <2> QED
    BY <2>1 DEF UntrackedByRace
<1>14. TwoTimersByRace'
  <2>1. ASSUME NEW i \in Events', NEW j \in Events', i < j, keyOf'[i] = keyOf'[j],
               status'[i] = "armed", status'[j] = "armed"
        PROVE  \E h \in 1..(i - 1) : CalledBetween(h, i, j)'
    <3>1. i \in Events /\ i \in Int /\ j \in Int
      BY <1>2, <1>11, <2>1
    <3>2. status[i] = "armed" /\ keyOf'[i] = keyOf[i] /\ keyOf[i] \in Keys
      BY <1>2, <1>5, <2>1, <3>1 DEF EmitterInv, TimersAreDebounced
    <3>3. PICK h \in 1..(i - 1) : CalledBetween(h, i, j)
      <4>1. CASE j = new
        <5>1. keyOf[i] = k /\ timers[k] # i
          BY <1>2, <1>5, <2>1, <3>1, <3>2, <4>1
        <5> QED
          BY <3>1, <3>2, <4>1, <5>1 DEF EmitterInv, UntrackedByRace
      <4>2. CASE j # new
        <5>1. j \in Events
          BY <1>2, <4>2
        <5>2. status[j] = "armed" /\ keyOf[i] = keyOf[j]
          BY <1>2, <1>5, <2>1, <3>1, <5>1
        <5> QED
          BY <2>1, <3>1, <3>2, <5>1, <5>2 DEF EmitterInv, TwoTimersByRace
      <4> QED
        BY <4>1, <4>2
    <3>4. h \in Events
      BY <1>2, <1>11, <3>1
    <3> QED
      BY <1>2, <3>2, <3>3, <3>4 DEF CalledBetween
  <2> QED
    BY <2>1 DEF TwoTimersByRace
<1> QED
  BY <1>7, <1>8, <1>9, <1>10, <1>12, <1>13, <1>14 DEF EmitterInv

(* An event that only moves on, from st to next, keeps the invariant when   *)
(* the map still is what it was, or has lost the entry of its key.          *)
LEMMA MovesOn ==
  ASSUME EmitterInv, NEW i \in Events, NEW next \in {"expired", "sending"} \cup Delivered,
         status' = [status EXCEPT ![i] = next],
         UNCHANGED <<emitted, keyOf, stopped>>,
         \/ status[i] = "armed" /\ next = "expired" /\ UNCHANGED <<timers, calledAt>>
         \/ /\ status[i] = "expired" /\ next = "sending"
            /\ timers' = [timers EXCEPT ![keyOf[i]] = 0]
            /\ calledAt' = [calledAt EXCEPT ![i] = emitted]
         \/ status[i] = "sending" /\ next \in Delivered /\ UNCHANGED <<timers, calledAt>>
  PROVE  EmitterInv'
<1>0. status \in [Events -> Status] /\ timers \in [Keys -> 0..emitted]
        /\ keyOf \in [Events -> Keys \cup Immediate] /\ stopped \in BOOLEAN
        /\ emitted \in 0..MaxEvents /\ emitted \in Nat
        /\ calledAt \in [Events -> 0..emitted]
  BY EmitterAssumption DEF EmitterInv, TypeOK
<1>1. Events' = Events /\ keyOf' = keyOf /\ \A j \in Events : Newest(j)' <=> Newest(j)
  BY DEF Events, Newest
<1>2. status' \in [Events -> Status] /\ status'[i] = next
        /\ \A j \in Events : j # i => status'[j] = status[j]
  BY <1>0 DEF Status, Waiting, Delivered
<1>3. /\ \A q \in Keys : timers'[q] = timers[q] \/ timers'[q] = 0
      /\ \A q \in Keys : timers'[q] # timers[q] => q = keyOf[i] /\ status[i] = "expired"
      /\ timers' \in [Keys -> 0..emitted]
  BY <1>0
<1>9. /\ calledAt' \in [Events -> 0..emitted]
      /\ \A h \in Events : calledAt[h] # 0 => calledAt'[h] = calledAt[h]
      /\ \A h \in Events : calledAt'[h] # calledAt[h] => h = i /\ next = "sending"
      /\ status[i] = "expired" => calledAt'[i] = emitted
  <2>1. status[i] = "expired" => calledAt[i] = 0
    BY DEF EmitterInv, CalledAreSent, Delivered
  <2>2. emitted \in 0..emitted
    BY <1>0
  <2> QED
    BY <1>0, <2>1, <2>2
<1>4. TypeOK'
  BY <1>0, <1>1, <1>2, <1>3, <1>9 DEF TypeOK
<1>5. TimersAreDebounced'
  BY <1>1, <1>2 DEF EmitterInv, TimersAreDebounced, Delivered
<1>6. NewestIsKept'
  BY <1>1, <1>2 DEF EmitterInv, NewestIsKept, Delivered
<1>7. MapHoldsNewest'
  <2>1. ASSUME NEW q \in Keys, timers'[q] # 0
        PROVE  /\ keyOf[timers[q]] = q /\ Newest(timers[q])
               /\ timers'[q] = timers[q] /\ timers[q] \in Events
               /\ status'[timers[q]] \in {"armed", "expired"}
    <3>1. timers'[q] = timers[q] /\ timers[q] \in Events
      BY <1>0, <1>3, <2>1 DEF Events
    <3>2. /\ keyOf[timers[q]] = q /\ Newest(timers[q])
          /\ status[timers[q]] \in {"armed", "expired"}
      BY <2>1, <3>1 DEF EmitterInv, MapHoldsNewest
    <3>3. CASE timers[q] # i
      BY <1>2, <3>1, <3>2, <3>3
    <3>4. CASE timers[q] = i
      <4>1. status[i] = "armed" \/ (status[i] = "expired" /\ timers' = [timers EXCEPT ![q] = 0])
        BY <3>2, <3>4
      <4>2. status[i] = "armed"
        BY <1>0, <2>1, <4>1
      <4> QED
        BY <1>2, <3>1, <3>2, <3>4, <4>2
    <3> QED
      BY <3>3, <3>4
  <2> QED
    BY <1>1, <2>1 DEF MapHoldsNewest, Newest
<1>8. UntrackedByRace'
  <2>1. ASSUME NEW j \in Events, status'[j] = "armed", timers'[keyOf[j]] # j
        PROVE  \E h \in 1..(j - 1) : CalledBetween(h, j, emitted + 1)'
    <3>1. j # i /\ status[j] = "armed" /\ keyOf[j] \in Keys /\ j \in 1..emitted
      BY <1>2, <2>1 DEF Delivered, EmitterInv, TimersAreDebounced, Events
    <3>2. CASE timers[keyOf[j]] # j
      <4>1. PICK h \in 1..(j - 1) : CalledBetween(h, j, emitted + 1)
        BY <3>1, <3>2 DEF EmitterInv, UntrackedByRace
      <4>2. h \in Events /\ calledAt[h] # 0
        BY <1>0, <3>1, <4>1 DEF Events, CalledBetween
      <4>3. calledAt'[h] = calledAt[h]
        BY <1>9, <4>2
      <4> QED
        BY <1>0, <1>1, <3>1, <4>1, <4>2, <4>3 DEF CalledBetween
    <3>3. CASE timers[keyOf[j]] = j
      <4>1. keyOf[i] = keyOf[j] /\ status[i] = "expired"
        BY <1>3, <2>1, <3>1, <3>3
      <4>2. Newest(j)
        <5>1. timers[keyOf[j]] # 0
          BY <1>0, <3>3 DEF Events
        <5> QED
          BY <3>1, <3>3, <5>1 DEF EmitterInv, MapHoldsNewest
      <4>3. i \in 1..(j - 1)
        BY <1>0, <3>1, <4>1, <4>2 DEF Newest, Events
      <4>4. calledAt'[i] = emitted
        BY <1>9, <4>1
      <4>5. calledAt'[i] \in j..(emitted + 1 - 1)
        BY <1>0, <3>1, <4>4
      <4>6. calledAt'[i] \in j..(emitted' + 1 - 1) /\ keyOf'[i] = keyOf'[j]
        BY <1>1, <4>1, <4>5
      <4> QED
        BY <1>0, <1>1, <3>1, <4>3, <4>6 DEF CalledBetween
    <3> QED
      BY <3>2, <3>3
  <2> QED
    BY <1>1, <2>1 DEF UntrackedByRace
<1>10. TwoTimersByRace'
  <2>1. ASSUME NEW h \in Events, NEW j \in Events, h < j, keyOf[h] = keyOf[j],
               status'[h] = "armed", status'[j] = "armed"
        PROVE  \E c \in 1..(h - 1) : CalledBetween(c, h, j)'
    <3>1. status[h] = "armed" /\ status[j] = "armed" /\ h \in 1..emitted
      BY <1>2, <2>1 DEF Delivered, Events
    <3>2. PICK c \in 1..(h - 1) : CalledBetween(c, h, j)
      BY <2>1, <3>1 DEF EmitterInv, TwoTimersByRace
    <3>3. c \in Events /\ calledAt[c] # 0
      BY <1>0, <3>1, <3>2 DEF Events, CalledBetween
    <3>4. calledAt'[c] = calledAt[c]
      BY <1>9, <3>3
    <3> QED
      BY <1>1, <3>2, <3>4 DEF CalledBetween
  <2> QED
    BY <1>1, <2>1 DEF TwoTimersByRace
<1>11. CalledAreSent'
  <2>1. ASSUME NEW h \in Events, calledAt'[h] # 0
        PROVE  status'[h] \in {"sending"} \cup Delivered
    <3>1. CASE h = i /\ next = "sending"
      BY <1>2, <3>1
    <3>2. CASE calledAt'[h] = calledAt[h]
      <4>1. status[h] \in {"sending"} \cup Delivered
        BY <2>1, <3>2 DEF EmitterInv, CalledAreSent
      <4> QED
        BY <1>2, <4>1 DEF Delivered
    <3> QED
      BY <1>9, <3>1, <3>2
  <2> QED
    BY <1>1, <2>1 DEF CalledAreSent
<1> QED
  BY <1>4, <1>5, <1>6, <1>7, <1>8, <1>10, <1>11 DEF EmitterInv

LEMMA EmitImmediateKeeps ==
  ASSUME EmitterInv, NEW k \in Immediate, EmitImmediate(k)
  PROVE  EmitterInv'
<1> DEFINE new == emitted + 1
<1>0. TypeOK /\ status \in [Events -> Status] /\ timers \in [Keys -> 0..emitted]
        /\ keyOf \in [Events -> Keys \cup Immediate] /\ stopped \in BOOLEAN
  BY DEF EmitterInv, TypeOK
<1>1. /\ emitted \in Nat /\ emitted' = new /\ emitted' \in 0..MaxEvents
      /\ Events' = Events \cup {new} /\ new \notin Events
      /\ keyOf' \in [Events' -> Keys \cup Immediate]
      /\ status' \in [Events' -> Status]
      /\ keyOf'[new] = k /\ status'[new] = "sending"
      /\ \A i \in Events : keyOf'[i] = keyOf[i] /\ status'[i] = status[i]
      /\ calledAt' \in [Events' -> 0..emitted'] /\ calledAt'[new] = 0
      /\ \A i \in Events : calledAt'[i] = calledAt[i]
      /\ Events = 1..emitted
  <2>1. "sending" \in Status /\ k \in Keys \cup Immediate /\ Append(k, "sending", status)
    BY DEF EmitImmediate, Status, Waiting
  <2>2. Events = 1..emitted
    BY DEF Events
  <2> QED
    BY <1>0, <2>1, <2>2, Appended
<1>2. \A i \in Events : Newest(i)' <=> Newest(i) /\ keyOf[i] # k
  BY <1>1, NewestAfter
<1>3. timers' = timers /\ stopped' = stopped /\ k \notin Keys
  BY EmitterAssumption DEF EmitImmediate
<1>4. TypeOK'
  <2>1. 0..emitted \subseteq 0..emitted'
    BY <1>1
  <2> QED
    BY <1>0, <1>1, <1>3, <2>1 DEF TypeOK
<1>5. TimersAreDebounced'
  BY <1>1 DEF EmitterInv, TimersAreDebounced
<1>6. NewestIsKept'
  <2>1. ASSUME NEW i \in Events, status[i] = "cancelled" PROVE ~Newest(i)' \/ stopped
    BY <1>2, <2>1 DEF EmitterInv, NewestIsKept
  <2> QED
    BY <1>1, <1>3, <2>1 DEF NewestIsKept
<1>7. MapHoldsNewest'
  <2>1. ASSUME NEW q \in Keys, timers[q] # 0
        PROVE  /\ keyOf'[timers[q]] = q
               /\ \A j \in Events' : keyOf'[j] = keyOf'[timers[q]] => j <= timers[q]
               /\ status'[timers[q]] \in {"armed", "expired"}
    <3>1. timers[q] \in Events
      BY <1>0, <1>1, <2>1 DEF Events
    <3>2. /\ keyOf[timers[q]] = q /\ Newest(timers[q])
          /\ status[timers[q]] \in {"armed", "expired"}
      BY <2>1 DEF EmitterInv, MapHoldsNewest
    <3> QED
      BY <1>1, <1>3, <3>1, <3>2 DEF Newest
  <2> QED
    BY <1>3, <2>1 DEF MapHoldsNewest, Newest
<1>8. UntrackedByRace'
  <2>1. ASSUME NEW i \in Events', status'[i] = "armed", timers[keyOf'[i]] # i
        PROVE  \E h \in 1..(i - 1) : CalledBetween(h, i, emitted + 1)'
    <3>1. i \in Events /\ status[i] = "armed" /\ keyOf'[i] = keyOf[i] /\ i \in Int
      BY <1>1, <2>1
    <3>2. PICK h \in 1..(i - 1) : CalledBetween(h, i, emitted + 1)
      BY <2>1, <3>1 DEF EmitterInv, UntrackedByRace
    <3>3. h \in Events
      BY <1>1, <3>1
    <3> QED
      BY <1>1, <3>1, <3>2, <3>3 DEF CalledBetween
  <2> QED
    BY <1>3, <2>1 DEF UntrackedByRace
<1>9. TwoTimersByRace'
  <2>1. ASSUME NEW i \in Events', NEW j \in Events', i < j, keyOf'[i] = keyOf'[j],
               status'[i] = "armed", status'[j] = "armed"
        PROVE  \E h \in 1..(i - 1) : CalledBetween(h, i, j)'
    <3>1. /\ i \in Events /\ status[i] = "armed" /\ keyOf'[i] = keyOf[i] /\ i \in Int
          /\ j \in Events /\ status[j] = "armed" /\ keyOf'[j] = keyOf[j]
      BY <1>1, <2>1
    <3>2. PICK h \in 1..(i - 1) : CalledBetween(h, i, j)
      BY <2>1, <3>1 DEF EmitterInv, TwoTimersByRace
    <3>3. h \in Events
      BY <1>1, <3>1
    <3> QED
      BY <1>1, <3>1, <3>2, <3>3 DEF CalledBetween
  <2> QED
    BY <2>1 DEF TwoTimersByRace
<1>10. CalledAreSent'
  BY <1>1 DEF EmitterInv, CalledAreSent
<1> QED
  BY <1>4, <1>5, <1>6, <1>7, <1>8, <1>9, <1>10 DEF EmitterInv

LEMMA StopKeeps ==
  ASSUME EmitterInv, Stop
  PROVE  EmitterInv'
<1>0. TypeOK /\ status \in [Events -> Status] /\ timers \in [Keys -> 0..emitted]
        /\ keyOf \in [Events -> Keys \cup Immediate]
        /\ emitted \in 0..MaxEvents /\ emitted \in Nat
        /\ calledAt \in [Events -> 0..emitted]
  BY EmitterAssumption DEF EmitterInv, TypeOK
<1>1. emitted' = emitted /\ Events' = Events /\ keyOf' = keyOf /\ stopped' = TRUE
        /\ timers' = [q \in Keys |-> 0] /\ calledAt' = calledAt
  BY DEF Stop, Events
<1>2. /\ status' \in [Events -> Status]
      /\ \A i \in Events : status[i] # "armed" => status'[i] = status[i]
      /\ \A i \in Events : status[i] = "armed" => status'[i] \in {"armed", "cancelled"}
      /\ \A i \in Events : status'[i] = "armed" => \A q \in Keys : timers[q] # i
  BY <1>0 DEF Stop, Cancelled, Status, Waiting, Delivered
<1>3. TypeOK'
  BY <1>0, <1>1, <1>2 DEF TypeOK
<1>4. TimersAreDebounced'
  BY <1>1, <1>2 DEF EmitterInv, TimersAreDebounced
<1>5. NewestIsKept'
  BY <1>1 DEF NewestIsKept
<1>6. MapHoldsNewest'
  BY <1>1 DEF MapHoldsNewest
<1>7. UntrackedByRace'
  <2>1. ASSUME NEW i \in Events, status'[i] = "armed"
        PROVE  \E h \in 1..(i - 1) : CalledBetween(h, i, emitted + 1)
    <3>1. status[i] = "armed" /\ keyOf[i] \in Keys
      BY <1>2, <2>1 DEF EmitterInv, TimersAreDebounced
    <3>2. timers[keyOf[i]] # i
      BY <1>2, <2>1, <3>1
    <3> QED
      BY <3>1, <3>2 DEF EmitterInv, UntrackedByRace
  <2> QED
    BY <1>1, <2>1 DEF UntrackedByRace, CalledBetween
<1>8. TwoTimersByRace'
  <2>1. \A i \in Events : status'[i] = "armed" => status[i] = "armed"
    BY <1>2
  <2> QED
    BY <1>1, <2>1 DEF EmitterInv, TwoTimersByRace, CalledBetween
<1>9. CalledAreSent'
  BY <1>1, <1>2 DEF EmitterInv, CalledAreSent, Delivered
<1> QED
  BY <1>3, <1>4, <1>5, <1>6, <1>7, <1>8, <1>9 DEF EmitterInv

LEMMA EmitterInvariant == Spec => []EmitterInv
<1>1. EmitterInv /\ [Next]_vars => EmitterInv'
  <2> SUFFICES ASSUME EmitterInv, [Next]_vars PROVE EmitterInv'
    OBVIOUS
  <2>1. ASSUME NEW k \in Keys, Emit(k) PROVE EmitterInv'
    BY <2>1, EmitKeeps
  <2>2. ASSUME NEW k \in Immediate, EmitImmediate(k) PROVE EmitterInv'
    BY <2>2, EmitImmediateKeeps
  <2>3. ASSUME NEW i \in Events, Expire(i) PROVE EmitterInv'
    BY <2>3, MovesOn DEF Expire
  <2>4. ASSUME NEW i \in Events, Callback(i) PROVE EmitterInv'
    BY <2>4, MovesOn DEF Callback
  <2>5. ASSUME NEW i \in Events, SendEvent(i) PROVE EmitterInv'
    <3>1. PICK result \in Delivered : status' = [status EXCEPT ![i] = result]
      BY <2>5 DEF SendEvent
    <3> QED
      BY <2>5, <3>1, MovesOn DEF SendEvent
  <2>6. ASSUME Stop PROVE EmitterInv'
    BY <2>6, StopKeeps
  <2>7. CASE UNCHANGED vars
    BY <2>7 DEF vars, EmitterInv, TypeOK, TimersAreDebounced, CalledAreSent,
               NewestIsKept, MapHoldsNewest, UntrackedByRace, TwoTimersByRace,
               CalledBetween, Newest, Events
  <2> QED
    BY <2>1, <2>2, <2>3, <2>4, <2>5, <2>6, <2>7 DEF Next
<1> QED
  BY <1>1, InitEmitter, PTL DEF Spec

(* The variables of the emitter keep their types.                           *)
THEOREM EmitterTypeCorrect == Spec => []TypeOK
BY EmitterInvariant, PTL DEF EmitterInv

(* However emits, expiries, callbacks and Stop interleave, an event is given *)
(* up only for a newer one of its key or because of Stop.                   *)
THEOREM NewestIsNeverLost == Spec => []NewestIsKept
BY EmitterInvariant, PTL DEF EmitterInv

(* What the map holds is the newest event of its key, still to be sent.     *)
THEOREM MapIsCurrent == Spec => []MapHoldsNewest
BY EmitterInvariant, PTL DEF EmitterInv

(* A timer escapes the map only by way of the callback of an older event    *)
(* that ran after the timer was armed.                                      *)
THEOREM UntrackedOnlyByRace == Spec => []UntrackedByRace
BY EmitterInvariant, PTL DEF EmitterInv

(* What it takes for a repeat to be sent beside the event it repeats: a     *)
(* callback of a third, older event that ran between the two.               *)
THEOREM TwoTimersOnlyByRace == Spec => []TwoTimersByRace
BY EmitterInvariant, PTL DEF EmitterInv
=============================================================================
