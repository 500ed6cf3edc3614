---------------------------- MODULE EventEmitter ----------------------------
(***************************************************************************)
(* state/events.go: the debouncing between the state machine and the       *)
(* relay.  Emit arms a one-second timer per (carID, eventType) key and     *)
(* stops the one that the map holds for the key.                           *)
(*                                                                         *)
(* A timer made by time.AfterFunc runs its function on a goroutine of its  *)
(* own: between the moment it expires and the moment that goroutine has    *)
(* e.mu, Emit and Stop may run, and Timer.Stop no longer has any effect on *)
(* it.  The function then deletes the map's entry for its key, whichever   *)
(* timer the entry is by then.                                             *)
(*                                                                         *)
(* An emitted event is the number of its timer; its payload travels with   *)
(* it unchanged.                                                           *)
(***************************************************************************)
EXTENDS Integers

CONSTANTS
  Keys,        (* carID + ":" + eventType of the debounced events           *)
  Immediate,   (* and of the live activity updates                          *)
  MaxEvents    (* bound: events emitted by one process                      *)

ASSUME EmitterAssumption ==
  /\ MaxEvents \in Nat
  /\ Keys \cap Immediate = {}

VARIABLES
  emitted,     (* number of events given to the emitter so far              *)
  keyOf,       (* keyOf[i]: the key of the i-th                             *)
  status,      (* status[i]: what has become of its timer and its callback  *)
  timers,      (* EventEmitter.timers: the entry of each key, 0 for none    *)
  stopped,     (* Stop has run                                              *)
  calledAt     (* history: how many events had been emitted when its        *)
               (* callback had e.mu, 0 before that                          *)

vars == <<emitted, keyOf, status, timers, stopped, calledAt>>

Events == 1..emitted

Waiting   == {"armed", "expired", "sending"}
Delivered == {"sent", "failed"}
Status    == Waiting \cup Delivered \cup {"cancelled"}

(* Timer.Stop: it prevents the callback only of a timer that has not expired. *)
Cancelled(st) == IF st = "armed" THEN "cancelled" ELSE st

Init ==
  /\ emitted = 0
  /\ keyOf = [i \in {} |-> 0]
  /\ status = [i \in {} |-> 0]
  /\ timers = [k \in Keys |-> 0]
  /\ stopped = FALSE
  /\ calledAt = [i \in {} |-> 0]

(* A new event of key k, in state st, after the others became others.       *)
Append(k, st, others) ==
  /\ emitted < MaxEvents
  /\ emitted' = emitted + 1
  /\ keyOf' = [i \in 1..(emitted + 1) |-> IF i = emitted + 1 THEN k ELSE keyOf[i]]
  /\ status' = [i \in 1..(emitted + 1) |-> IF i = emitted + 1 THEN st ELSE others[i]]
  /\ calledAt' = [i \in 1..(emitted + 1) |-> IF i = emitted + 1 THEN 0 ELSE calledAt[i]]

(* A plausible slip: the timer that is still armed is thought good enough.  *)
EmitKeepsFirst(k) ==
  /\ IF timers[k] # 0
       THEN /\ Append(k, "cancelled", status)
            /\ UNCHANGED timers
       ELSE /\ Append(k, "armed", status)
            /\ timers' = [timers EXCEPT ![k] = emitted + 1]
  /\ UNCHANGED stopped

(* A plausible slip: the entry is overwritten but its timer not stopped.    *)
EmitStopsNothing(k) ==
  /\ Append(k, "armed", status)
  /\ timers' = [timers EXCEPT ![k] = emitted + 1]
  /\ UNCHANGED stopped

(* Emit.                                                                    *)
Emit(k) ==
  /\ Append(k, "armed",
            [i \in Events |-> IF i = timers[k] THEN Cancelled(status[i]) ELSE status[i]])
  /\ timers' = [timers EXCEPT ![k] = emitted + 1]
  /\ UNCHANGED stopped

(* EmitImmediate: a goroutine sends the update at once.                     *)
EmitImmediate(k) ==
  /\ Append(k, "sending", status)
  /\ UNCHANGED <<timers, stopped>>

(* The second is over: the runtime starts the callback's goroutine.         *)
Expire(i) ==
  /\ status[i] = "armed"
  /\ status' = [status EXCEPT ![i] = "expired"]
  /\ UNCHANGED <<emitted, keyOf, timers, stopped, calledAt>>

(* A plausible slip: the callback forgets to clean up.                      *)
CallbackKeepsEntry(i) ==
  /\ status[i] = "expired"
  /\ status' = [status EXCEPT ![i] = "sending"]
  /\ calledAt' = [calledAt EXCEPT ![i] = emitted]
  /\ UNCHANGED <<emitted, keyOf, timers, stopped>>

(* A plausible slip: the callback waits until the entry is its own.         *)
CallbackOwnEntry(i) ==
  /\ status[i] = "expired"
  /\ timers[keyOf[i]] = i
  /\ status' = [status EXCEPT ![i] = "sending"]
  /\ timers' = [timers EXCEPT ![keyOf[i]] = 0]
  /\ calledAt' = [calledAt EXCEPT ![i] = emitted]
  /\ UNCHANGED <<emitted, keyOf, stopped>>

(* The callback has e.mu, deletes its key's entry and goes on to SendEvent. *)
Callback(i) ==
  /\ status[i] = "expired"
  /\ status' = [status EXCEPT ![i] = "sending"]
  /\ timers' = [timers EXCEPT ![keyOf[i]] = 0]
  /\ calledAt' = [calledAt EXCEPT ![i] = emitted]
  /\ UNCHANGED <<emitted, keyOf, stopped>>

(* SendEvent returns, with an error that is only logged or without one.     *)
SendEvent(i) ==
  /\ status[i] = "sending"
  /\ \E result \in Delivered : status' = [status EXCEPT ![i] = result]
  /\ UNCHANGED <<emitted, keyOf, timers, stopped, calledAt>>

(* A plausible slip: the map is emptied and its timers run on.              *)
StopForgetsTimers ==
  /\ ~stopped
  /\ stopped' = TRUE
  /\ timers' = [k \in Keys |-> 0]
  /\ UNCHANGED <<emitted, keyOf, status, calledAt>>

(* Stop goes through the map.  The machine may emit again after it.         *)
Stop ==
  /\ ~stopped
  /\ stopped' = TRUE
  /\ status' = [i \in Events |->
                  IF \E k \in Keys : timers[k] = i THEN Cancelled(status[i]) ELSE status[i]]
  /\ timers' = [k \in Keys |-> 0]
  /\ UNCHANGED <<emitted, keyOf, calledAt>>

Next ==
  \/ \E k \in Keys : Emit(k)
  \/ \E k \in Immediate : EmitImmediate(k)
  \/ \E i \in Events : Expire(i)
  \/ \E i \in Events : Callback(i)
  \/ \E i \in Events : SendEvent(i)
  \/ Stop

Spec == Init /\ [][Next]_vars

(* Timers expire, a goroutine that waits for e.mu gets it (no holder of it   *)
(* blocks), and SendEvent returns after three attempts of ten seconds each. *)
Fairness ==
  \A i \in 1..MaxEvents :
    /\ WF_vars(i \in Events /\ Expire(i))
    /\ WF_vars(i \in Events /\ Callback(i))
    /\ WF_vars(i \in Events /\ SendEvent(i))

FairSpec == Spec /\ Fairness

-----------------------------------------------------------------------------
TypeOK ==
  /\ emitted \in 0..MaxEvents
  /\ keyOf \in [Events -> Keys \cup Immediate]
  /\ status \in [Events -> Status]
  /\ timers \in [Keys -> 0..emitted]
  /\ stopped \in BOOLEAN
  /\ calledAt \in [Events -> 0..emitted]

Newest(i) == \A j \in Events : keyOf[j] = keyOf[i] => j <= i

(* An event is given up only for a newer one of its key, which then stands  *)
(* for it, or because the emitter was stopped (events.go, debounceDuration: *)
(* "coalesces rapid same-(carID, eventType) repeats").                      *)
NewestIsKept ==
  \A i \in Events : status[i] = "cancelled" => ~Newest(i) \/ stopped

(* The map's entry of a key is the key's newest event, and one whose        *)
(* callback is still to come: what Emit stops is never a timer that is done. *)
MapHoldsNewest ==
  \A k \in Keys : timers[k] # 0 =>
    /\ keyOf[timers[k]] = k
    /\ Newest(timers[k])
    /\ status[timers[k]] \in {"armed", "expired"}

(* The callback of event h had e.mu when event i had been emitted, and event *)
(* j not yet.                                                               *)
CalledBetween(h, i, j) == keyOf[h] = keyOf[i] /\ calledAt[h] \in i..(j - 1)

(* A pending timer is missing from the map only if the callback of an older *)
(* event of its key ran after it was armed.  Where none is that late, every *)
(* pending timer is in the map, and Emit and Stop will find it.             *)
UntrackedByRace ==
  \A i \in Events : status[i] = "armed" /\ timers[keyOf[i]] # i =>
    \E h \in 1..(i - 1) : CalledBetween(h, i, emitted + 1)

(* events.go, Emit, where ResetLeavesOneTimer below fails: two timers of a   *)
(* key run side by side only if a third event's callback, older than both,  *)
(* came so late that it ran after the one was armed and before the other    *)
(* was emitted; two events alone are always coalesced.                      *)
TwoTimersByRace ==
  \A i, j \in Events :
    i < j /\ keyOf[i] = keyOf[j] /\ status[i] = "armed" /\ status[j] = "armed" =>
      \E h \in 1..(i - 1) : CalledBetween(h, i, j)

(* Every event is settled in the end: sent, failed for good, or cancelled.  *)
EveryEventSettles ==
  \A i \in 1..MaxEvents :
    (i \in Events) ~> (i \in Events /\ status[i] \in Delivered \cup {"cancelled"})

-----------------------------------------------------------------------------
(* events.go, Emit: "If the same event type fires again within the window,  *)
(* the timer is reset".  A key never has two timers running.                *)
ResetLeavesOneTimer ==
  \A i, j \in Events :
    keyOf[i] = keyOf[j] /\ status[i] = "armed" /\ status[j] = "armed" => i = j
=============================================================================
