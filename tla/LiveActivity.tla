---------------------------- MODULE LiveActivity ----------------------------
(***************************************************************************)
(* The ticker goroutines of state/machine.go: startLiveActivity and        *)
(* stopLiveActivity for a charge, and their twins for a drive.             *)
(*                                                                         *)
(* The two functions run under Manager.mu.  The goroutine takes it only to *)
(* handle a tick: each time round its loop it evaluates the select's two   *)
(* channels from the CarState with no lock, first the ticker's and then    *)
(* the stop channel, so the fields it reads may be those of a later        *)
(* session, or nil.  A nil ticker has no channel C and panics, which ends  *)
(* the process; a nil stop channel is never ready.                         *)
(*                                                                         *)
(* A session, its goroutine, its ticker and its stop channel share a       *)
(* number.  Stopping or resetting a ticker discards a tick nobody has      *)
(* received (Go 1.23 and later; go.mod asks for 1.27).                     *)
(***************************************************************************)
EXTENDS Integers

CONSTANTS
  Cadences,     (* values of chargingInterval, drivingInterval             *)
  MaxSessions   (* bound: sessions of one process                          *)

ASSUME LiveAssumption == MaxSessions \in Nat /\ Cadences # {}

VARIABLES
  active,       (* ChargingState = "Charging", or State = "driving"        *)
  wanted,       (* the interval for the car's power or speed, by the config *)
  ticker,       (* liveActivityTicker, 0 for nil                           *)
  stopCh,       (* liveActivityStop, 0 for nil                             *)
  period,       (* the period of the current ticker                        *)
  ticks,        (* tickers with a tick to be received                      *)
  closed,       (* stop channels that are closed                           *)
  sessions,     (* sessions begun so far                                   *)
  pc,           (* where each goroutine is                                 *)
  tickerOf,     (* the ticker, and                                         *)
  stopOf,       (* the stop channel it last evaluated                      *)
  interval,     (* its variable interval                                   *)
  stopped,      (* Manager.Stop has run                                    *)
  crashed,      (* a goroutine has panicked                                *)
  updated,      (* history: the last step sent an update                   *)
  setBy         (* history: the goroutine that set the ticker's period     *)

car == <<active, wanted, ticker, stopCh, period>>
chans == <<ticks, closed>>
loop == <<pc, tickerOf, stopOf, interval>>
vars == <<active, wanted, ticker, stopCh, period, ticks, closed, sessions, pc,
          tickerOf, stopOf, interval, stopped, crashed, updated, setBy>>

Sessions == 1..MaxSessions

Init ==
  /\ active = FALSE
  /\ wanted \in Cadences
  /\ ticker = 0
  /\ stopCh = 0
  /\ period = wanted
  /\ ticks = {}
  /\ closed = {}
  /\ sessions = 0
  /\ pc = [g \in Sessions |-> "none"]
  /\ tickerOf = [g \in Sessions |-> 0]
  /\ stopOf = [g \in Sessions |-> 0]
  /\ interval = [g \in Sessions |-> wanted]
  /\ stopped = FALSE
  /\ crashed = FALSE
  /\ updated = FALSE
  /\ setBy = 0

(* The channels after stopLiveActivity.                                     *)
Stopped == /\ closed' = IF stopCh # 0 THEN closed \cup {stopCh} ELSE closed
           /\ ticks' = ticks \ {ticker}

-----------------------------------------------------------------------------
(* A plausible slip: the stop that should precede the new session follows   *)
(* the making of its channels.                                              *)
StartClosesOwn ==
  LET s == sessions + 1
  IN  /\ ~crashed /\ ~active
      /\ sessions < MaxSessions
      /\ active' = TRUE
      /\ closed' = closed \cup {s}
      /\ ticks' = ticks \ {ticker}
      /\ sessions' = s
      /\ ticker' = s
      /\ stopCh' = s
      /\ period' = wanted
      /\ interval' = [interval EXCEPT ![s] = wanted]
      /\ pc' = [pc EXCEPT ![s] = "top"]
      /\ setBy' = s
      /\ updated' = FALSE
      /\ UNCHANGED <<wanted, tickerOf, stopOf, stopped, crashed>>

(* The charge or the drive begins: startLiveActivity.                       *)
Start ==
  LET s == sessions + 1
  IN  /\ ~crashed /\ ~active
      /\ sessions < MaxSessions
      /\ active' = TRUE
      /\ Stopped
      /\ sessions' = s
      /\ ticker' = s
      /\ stopCh' = s
      /\ period' = wanted
      /\ interval' = [interval EXCEPT ![s] = wanted]
      /\ pc' = [pc EXCEPT ![s] = "top"]
      /\ setBy' = s
      /\ updated' = FALSE
      /\ UNCHANGED <<wanted, tickerOf, stopOf, stopped, crashed>>

(* It ends: stopLiveActivity.                                               *)
End ==
  /\ ~crashed /\ active
  /\ active' = FALSE
  /\ Stopped
  /\ ticker' = 0
  /\ stopCh' = 0
  /\ updated' = FALSE
  /\ UNCHANGED <<wanted, period, sessions, loop, stopped, crashed, setBy>>

(* Manager.Stop, while the car goes on charging or driving.                 *)
Stop ==
  /\ ~crashed /\ ~stopped
  /\ stopped' = TRUE
  /\ Stopped
  /\ ticker' = 0
  /\ stopCh' = 0
  /\ updated' = FALSE
  /\ UNCHANGED <<active, wanted, period, sessions, loop, crashed, setBy>>

(* The power or the speed crosses its threshold, or the relay sends a new   *)
(* configuration.                                                           *)
Tune(cadence) ==
  /\ ~crashed /\ cadence # wanted
  /\ wanted' = cadence
  /\ updated' = FALSE
  /\ UNCHANGED <<active, ticker, stopCh, period, chans, sessions, loop, stopped,
                 crashed, setBy>>

(* The ticker fires.                                                        *)
Tick ==
  /\ ~crashed /\ ticker # 0 /\ ticker \notin ticks
  /\ ticks' = ticks \cup {ticker}
  /\ updated' = FALSE
  /\ UNCHANGED <<car, closed, sessions, loop, stopped, crashed, setBy>>

-----------------------------------------------------------------------------
(* The goroutine of session g.                                              *)
At(g, place) == ~crashed /\ pc[g] = place
Goto(g, place) == pc' = [pc EXCEPT ![g] = place]

(* select evaluates car.liveActivityTicker.C ...                            *)
EvalTicker(g) ==
  /\ At(g, "top")
  /\ IF ticker = 0
       THEN /\ crashed' = TRUE
            /\ UNCHANGED <<pc, tickerOf>>
       ELSE /\ tickerOf' = [tickerOf EXCEPT ![g] = ticker]
            /\ Goto(g, "half")
            /\ UNCHANGED crashed
  /\ updated' = FALSE
  /\ UNCHANGED <<car, chans, sessions, stopOf, interval, stopped, setBy>>

(* ... and then car.liveActivityStop.                                       *)
EvalStop(g) ==
  /\ At(g, "half")
  /\ stopOf' = [stopOf EXCEPT ![g] = stopCh]
  /\ Goto(g, "select")
  /\ updated' = FALSE
  /\ UNCHANGED <<car, chans, sessions, tickerOf, interval, stopped, crashed, setBy>>

(* The select is over, and its channels with it.                            *)
Forget(g) ==
  /\ tickerOf' = [tickerOf EXCEPT ![g] = 0]
  /\ stopOf' = [stopOf EXCEPT ![g] = 0]

ReceiveTick(g) ==
  /\ At(g, "select")
  /\ tickerOf[g] \in ticks
  /\ ticks' = ticks \ {tickerOf[g]}
  /\ Goto(g, "ticked")
  /\ Forget(g)
  /\ updated' = FALSE
  /\ UNCHANGED <<car, closed, sessions, interval, stopped, crashed, setBy>>

ReceiveStop(g) ==
  /\ At(g, "select")
  /\ stopOf[g] \in closed
  /\ Goto(g, "done")
  /\ Forget(g)
  /\ updated' = FALSE
  /\ UNCHANGED <<car, chans, sessions, interval, stopped, crashed, setBy>>

(* A plausible slip: the ticker is reset but the new interval not kept.     *)
HandleTickForgets(g) ==
  /\ At(g, "ticked") /\ active /\ ticker # 0
  /\ IF wanted = interval[g]
       THEN UNCHANGED <<period, ticks, setBy>>
       ELSE /\ period' = wanted
            /\ ticks' = ticks \ {ticker}
            /\ setBy' = g
  /\ Goto(g, "send")
  /\ updated' = FALSE
  /\ UNCHANGED <<active, wanted, ticker, stopCh, closed, sessions, tickerOf, stopOf,
                 interval, stopped, crashed>>

(* The tick, under Manager.mu: the goroutine returns if the session is over, *)
(* and else resets the ticker, whichever it is now, if the interval has     *)
(* changed from the one this goroutine knows.                               *)
HandleTick(g) ==
  /\ At(g, "ticked")
  /\ \/ /\ ~active
        /\ Goto(g, "done")
        /\ UNCHANGED <<period, ticks, interval, crashed, setBy>>
     \/ /\ active /\ wanted = interval[g]
        /\ Goto(g, "send")
        /\ UNCHANGED <<period, ticks, interval, crashed, setBy>>
     \/ /\ active /\ wanted # interval[g] /\ ticker # 0
        /\ period' = wanted
        /\ ticks' = ticks \ {ticker}
        /\ interval' = [interval EXCEPT ![g] = wanted]
        /\ setBy' = g
        /\ Goto(g, "send")
        /\ UNCHANGED crashed
     \/ /\ active /\ wanted # interval[g] /\ ticker = 0
        /\ crashed' = TRUE
        /\ UNCHANGED <<pc, period, ticks, interval, setBy>>
  /\ updated' = FALSE
  /\ UNCHANGED <<active, wanted, ticker, stopCh, closed, sessions, tickerOf, stopOf,
                 stopped>>

(* A plausible slip: the goroutine serves a single tick.                    *)
EmitUpdateOnce(g) ==
  /\ At(g, "send")
  /\ Goto(g, "done")
  /\ updated' = TRUE
  /\ UNCHANGED <<car, chans, sessions, tickerOf, stopOf, interval, stopped,
                 crashed, setBy>>

(* EmitImmediate, the lock released, and round the loop again.              *)
EmitUpdate(g) ==
  /\ At(g, "send")
  /\ Goto(g, "top")
  /\ updated' = TRUE
  /\ UNCHANGED <<car, chans, sessions, tickerOf, stopOf, interval, stopped,
                 crashed, setBy>>

Goroutine(g) ==
  \/ EvalTicker(g)
  \/ EvalStop(g)
  \/ ReceiveTick(g)
  \/ ReceiveStop(g)
  \/ HandleTick(g)
  \/ EmitUpdate(g)

Next ==
  \/ Start
  \/ End
  \/ Stop
  \/ \E cadence \in Cadences : Tune(cadence)
  \/ Tick
  \/ \E g \in Sessions : Goroutine(g)

Spec == Init /\ [][Next]_vars

(* A goroutine that can run does, Manager.mu being held by nobody for long, *)
(* and a ticker that is not stopped fires.  When a goroutine and its twin   *)
(* wait for the same tick either may get it.                                *)
FairSpec == /\ Spec
            /\ WF_vars(Tick)
            /\ \A g \in Sessions : WF_vars(Goroutine(g))

-----------------------------------------------------------------------------
(* While the car charges or drives, the goroutine of the session is on its  *)
(* way to the session's ticker or to a tick it will answer: none of the     *)
(* sessions before it, and no restart in between, can have stopped it.      *)
ServedWhileActive ==
  active /\ ~stopped /\ ~crashed =>
    /\ ticker = sessions
    /\ \/ pc[sessions] \in {"top", "ticked", "send"}
       \/ pc[sessions] \in {"half", "select"} /\ tickerOf[sessions] = ticker

(* machine.go:140, "a config change lands on the next tick without          *)
(* restarting anything": the tick leaves the ticker at the interval wanted  *)
(* now, however often it has changed and through whichever sessions, if the *)
(* goroutine that handles it is the one that last set the ticker's period.  *)
(* Two goroutines of one ticker each compare with a copy of their own, and  *)
(* only then can a change fail to land.                                     *)
LandsOnNextTick ==
  [][\A g \in Sessions : pc[g] = "ticked" /\ pc'[g] = "send" /\ setBy = g
       => period' = wanted']_vars

(* The race behind a panic is with the end of a session alone: while the    *)
(* charge or the drive goes on and Manager.Stop has not run, no goroutine,  *)
(* of whatever session, meets a nil ticker.                                 *)
PanicsOnlyAfterEnd == [][crashed' /\ ~crashed => ~active \/ stopped]_vars

(* As long as a charge or a drive lasts, updates keep coming.               *)
UpdatesKeepComing == []<>(~active \/ stopped \/ crashed \/ updated)

-----------------------------------------------------------------------------
(* machine.go, in the goroutine: "Recheck if still charging".  The loop is  *)
(* meant to find the charge over and return; it never panics.               *)
NoPanic == ~crashed
=============================================================================
