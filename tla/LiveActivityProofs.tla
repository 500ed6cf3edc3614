------------------------- MODULE LiveActivityProofs -------------------------
(***************************************************************************)
(* However many sessions follow one another, and wherever their goroutines *)
(* are when they do, the current session is served.                        *)
(*                                                                         *)
(* The invariant follows the current ticker: it belongs to the newest      *)
(* session, as the stop channel does, that channel is open, and the        *)
(* session's own goroutine, once it has evaluated the two, has these two.  *)
(* The period of the ticker is the copy of whichever goroutine set it last. *)
(***************************************************************************)
EXTENDS LiveActivity, TLAPS

Served(t) ==
  /\ pc[t] \in {"top", "half", "select", "ticked", "send"}
  /\ pc[t] \in {"half", "select"} => tickerOf[t] = t
  /\ pc[t] = "select" => stopOf[t] = t

(* The goroutine that set the current period still has it as its copy.      *)
CadenceIsKnown == setBy \in Sessions \cup {0} /\ (setBy # 0 => interval[setBy] = period)

LiveInv ==
  /\ sessions \in 0..MaxSessions
  /\ pc \in [Sessions -> {"none", "top", "half", "select", "ticked", "send", "done"}]
  /\ tickerOf \in [Sessions -> 0..MaxSessions]
  /\ stopOf \in [Sessions -> 0..MaxSessions]
  /\ interval \in [Sessions -> Cadences]
  /\ wanted \in Cadences
  /\ ticker \in {0, sessions} /\ stopCh = ticker
  /\ closed \subseteq 1..sessions /\ ticker \notin closed
  /\ ticker # 0 => active
  /\ active /\ ~stopped => ticker # 0
  /\ ticker # 0 => Served(ticker)
  /\ CadenceIsKnown

LEMMA InitLive == Init => LiveInv
<1> SUFFICES ASSUME Init PROVE LiveInv
  OBVIOUS
<1>1. sessions \in 0..MaxSessions /\ 0 \in 0..MaxSessions
  BY LiveAssumption DEF Init
<1> QED
  BY <1>1 DEF Init, LiveInv, CadenceIsKnown

LEMMA StartLive == LiveInv /\ Start => LiveInv'
<1> SUFFICES ASSUME LiveInv, Start PROVE LiveInv'
  OBVIOUS
<1> DEFINE s == sessions + 1
<1>1. s \in Sessions /\ s \in 0..MaxSessions /\ s # 0 /\ s \notin 1..sessions
        /\ 1..sessions \subseteq 1..s /\ ticker = 0
  BY LiveAssumption DEF LiveInv, Start, Sessions
<1>2. /\ sessions' = s /\ setBy' = s /\ ticker' = s /\ stopCh' = s /\ active' = TRUE /\ closed' = closed
      /\ period' = wanted /\ interval' = [interval EXCEPT ![s] = wanted]
      /\ pc' = [pc EXCEPT ![s] = "top"] /\ UNCHANGED <<tickerOf, stopOf>>
  BY <1>1 DEF Start, Stopped, LiveInv
<1>3. pc'[s] = "top" /\ interval'[s] = wanted
  BY <1>1, <1>2 DEF LiveInv
<1>4. interval' \in [Sessions -> Cadences] /\ wanted' \in Cadences
  BY <1>2 DEF LiveInv, Start
<1>5. pc' \in [Sessions -> {"none", "top", "half", "select", "ticked", "send", "done"}]
  BY <1>2 DEF LiveInv
<1>6. Served(ticker)'
  BY <1>2, <1>3 DEF Served
<1>7. CadenceIsKnown'
  BY <1>1, <1>2, <1>3 DEF CadenceIsKnown
<1>8. closed' \subseteq 1..sessions' /\ ticker' \notin closed'
  BY <1>1, <1>2 DEF LiveInv
<1> QED
  BY <1>1, <1>2, <1>4, <1>5, <1>6, <1>7, <1>8 DEF LiveInv

(* Without a ticker there is nothing to serve.                              *)
LEMMA StoppedLive ==
  ASSUME LiveInv, Stopped, ticker' = 0, stopCh' = 0,
         UNCHANGED <<wanted, period, sessions, loop, setBy>>, active' /\ ~stopped' => FALSE
  PROVE  LiveInv'
<1>1. closed' \subseteq 1..sessions' /\ 0 \notin closed'
  BY LiveAssumption DEF LiveInv, Stopped
<1> QED
  BY <1>1 DEF LiveInv, CadenceIsKnown, loop

(* What a goroutine does that leaves the car's fields alone.                *)
LEMMA GoroutineLive ==
  ASSUME LiveInv, NEW g \in Sessions,
         NEW place \in {"top", "half", "select", "ticked", "send", "done"},
         pc' = [pc EXCEPT ![g] = place],
         tickerOf' \in [Sessions -> 0..MaxSessions], stopOf' \in [Sessions -> 0..MaxSessions],
         \A h \in Sessions : h # g => tickerOf'[h] = tickerOf[h] /\ stopOf'[h] = stopOf[h],
         UNCHANGED <<active, wanted, ticker, stopCh, period, closed, sessions, interval,
                     stopped, setBy>>,
         g = ticker => /\ place # "done"
                       /\ place \in {"half", "select"} => tickerOf'[g] = g
                       /\ place = "select" => stopOf'[g] = g
  PROVE  LiveInv'
<1>1. pc' \in [Sessions -> {"none", "top", "half", "select", "ticked", "send", "done"}]
        /\ pc'[g] = place /\ \A h \in Sessions : h # g => pc'[h] = pc[h]
  BY DEF LiveInv
<1>2. ticker # 0 => ticker \in Sessions
  BY LiveAssumption DEF LiveInv, Sessions
<1>3. ticker # 0 => Served(ticker)'
  <2>1. CASE g = ticker
    BY <1>1, <2>1 DEF Served
  <2>2. CASE g # ticker
    BY <1>1, <1>2, <2>2 DEF LiveInv, Served
  <2> QED
    BY <2>1, <2>2
<1>4. CadenceIsKnown'
  BY DEF LiveInv, CadenceIsKnown
<1> QED
  BY <1>1, <1>3, <1>4 DEF LiveInv

LEMMA TypesOfForgetting ==
  ASSUME LiveInv, NEW g \in Sessions, Forget(g)
  PROVE  /\ tickerOf' \in [Sessions -> 0..MaxSessions] /\ stopOf' \in [Sessions -> 0..MaxSessions]
         /\ \A h \in Sessions : h # g => tickerOf'[h] = tickerOf[h] /\ stopOf'[h] = stopOf[h]
<1>1. 0 \in 0..MaxSessions
  BY LiveAssumption
<1> QED
  BY <1>1 DEF LiveInv, Forget

LEMMA HandleTickLive ==
  ASSUME LiveInv, NEW g \in Sessions, HandleTick(g)
  PROVE  LiveInv'
<1>1. CASE ~active /\ Goto(g, "done") /\ UNCHANGED <<period, ticks, interval, crashed, setBy>>
  <2>1. ticker = 0
    BY <1>1 DEF LiveInv
  <2>2. g # ticker
    BY <2>1 DEF Sessions
  <2> QED
    BY <1>1, <2>2, GoroutineLive DEF HandleTick, Goto, LiveInv
<1>2. CASE /\ active /\ Goto(g, "send")
           /\ UNCHANGED <<period, ticks, interval, crashed, setBy>>
  BY <1>2, GoroutineLive DEF HandleTick, Goto, LiveInv
<1>3. CASE /\ active /\ ticker # 0 /\ period' = wanted
           /\ interval' = [interval EXCEPT ![g] = wanted]
           /\ setBy' = g /\ Goto(g, "send")
  <2>1. /\ pc' \in [Sessions -> {"none", "top", "half", "select", "ticked", "send", "done"}]
        /\ pc'[g] = "send" /\ \A h \in Sessions : h # g => pc'[h] = pc[h]
        /\ interval' \in [Sessions -> Cadences] /\ interval'[g] = wanted
    BY <1>3 DEF LiveInv, Goto
  <2>2. UNCHANGED <<active, wanted, ticker, stopCh, closed, sessions, tickerOf, stopOf, stopped>>
    BY DEF HandleTick
  <2>3. ticker \in Sessions /\ Served(ticker)
    BY <1>3, LiveAssumption DEF LiveInv, Sessions
  <2>4. Served(ticker)'
    BY <2>1, <2>2, <2>3 DEF Served
  <2>5. CadenceIsKnown'
    BY <1>3, <2>1, <2>2 DEF CadenceIsKnown
  <2> QED
    BY <2>1, <2>2, <2>4, <2>5 DEF LiveInv
<1>4. CASE crashed' = TRUE /\ UNCHANGED <<pc, period, ticks, interval, setBy>>
  BY <1>4 DEF HandleTick, LiveInv, Served, CadenceIsKnown
<1> QED
  BY <1>1, <1>2, <1>3, <1>4 DEF HandleTick

LEMMA StepLive == LiveInv /\ [Next]_vars => LiveInv'
<1> SUFFICES ASSUME LiveInv, [Next]_vars PROVE LiveInv'
  OBVIOUS
<1>1. ASSUME Start PROVE LiveInv'
  BY <1>1, StartLive
<1>2. ASSUME End PROVE LiveInv'
  BY <1>2, StoppedLive DEF End
<1>3. ASSUME Stop PROVE LiveInv'
  BY <1>3, StoppedLive DEF Stop
<1>4. ASSUME NEW cadence \in Cadences, Tune(cadence) PROVE LiveInv'
  BY <1>4 DEF Tune, LiveInv, Served, CadenceIsKnown, loop, chans
<1>5. ASSUME Tick PROVE LiveInv'
  BY <1>5 DEF Tick, LiveInv, Served, CadenceIsKnown, loop, car
<1>6. ASSUME NEW g \in Sessions, EvalTicker(g) PROVE LiveInv'
  <2>1. CASE ticker = 0
    BY <1>6, <2>1 DEF EvalTicker, LiveInv, Served, CadenceIsKnown, car, chans
  <2>2. CASE ticker # 0
    <3>1. ticker \in 0..MaxSessions
      BY LiveAssumption DEF LiveInv
    <3>2. tickerOf' = [tickerOf EXCEPT ![g] = ticker]
      BY <1>6, <2>2 DEF EvalTicker
    <3>3. tickerOf' \in [Sessions -> 0..MaxSessions] /\ tickerOf'[g] = ticker
            /\ \A h \in Sessions : h # g => tickerOf'[h] = tickerOf[h]
      BY <3>1, <3>2 DEF LiveInv
    <3> QED
      BY <1>6, <2>2, <3>3, GoroutineLive DEF EvalTicker, Goto, LiveInv, car, chans
  <2> QED
    BY <2>1, <2>2
<1>7. ASSUME NEW g \in Sessions, EvalStop(g) PROVE LiveInv'
  <2>1. stopCh \in 0..MaxSessions
    BY LiveAssumption DEF LiveInv
  <2>2. stopOf' = [stopOf EXCEPT ![g] = stopCh] /\ tickerOf' = tickerOf
    BY <1>7 DEF EvalStop
  <2>3. stopOf' \in [Sessions -> 0..MaxSessions] /\ stopOf'[g] = ticker
          /\ \A h \in Sessions : h # g => stopOf'[h] = stopOf[h]
    BY <2>1, <2>2 DEF LiveInv
  <2>4. g = ticker => tickerOf[g] = g
    BY <1>7 DEF EvalStop, At, LiveInv, Served, Sessions
  <2> QED
    BY <1>7, <2>2, <2>3, <2>4, GoroutineLive DEF EvalStop, Goto, LiveInv, car, chans
<1>8. ASSUME NEW g \in Sessions, ReceiveTick(g) PROVE LiveInv'
  BY <1>8, GoroutineLive, TypesOfForgetting DEF ReceiveTick, Goto, car
<1>9. ASSUME NEW g \in Sessions, ReceiveStop(g) PROVE LiveInv'
  <2>1. g # ticker
    BY <1>9 DEF ReceiveStop, At, LiveInv, Served, Sessions
  <2> QED
    BY <1>9, <2>1, GoroutineLive, TypesOfForgetting DEF ReceiveStop, Goto, car, chans
<1>10. ASSUME NEW g \in Sessions, HandleTick(g) PROVE LiveInv'
  BY <1>10, HandleTickLive
<1>11. ASSUME NEW g \in Sessions, EmitUpdate(g) PROVE LiveInv'
  BY <1>11, GoroutineLive DEF EmitUpdate, Goto, LiveInv, car, chans
<1>12. CASE UNCHANGED vars
  BY <1>12 DEF vars, LiveInv, Served, CadenceIsKnown
<1> QED
  BY <1>1, <1>2, <1>3, <1>4, <1>5, <1>6, <1>7, <1>8, <1>9, <1>10, <1>11, <1>12
     DEF Next, Goroutine

LEMMA LiveInvariant == Spec => []LiveInv
BY InitLive, StepLive, PTL DEF Spec

(* While a charge or a drive lasts its own goroutine serves its ticker, for *)
(* any number of earlier sessions whose goroutines are still about.         *)
THEOREM ActiveIsServed == Spec => []ServedWhileActive
<1>1. LiveInv => ServedWhileActive
  BY DEF LiveInv, Served, ServedWhileActive
<1> QED
  BY <1>1, LiveInvariant, PTL

(* A change of the wanted interval lands on the next tick that is handled   *)
(* by the goroutine that set the ticker's period: in every charge or drive  *)
(* whose ticks no goroutine of an earlier one has taken, that is each tick. *)
THEOREM CadenceLands == Spec => LandsOnNextTick
<1>1. LiveInv /\ [Next]_vars =>
        [\A g \in Sessions : pc[g] = "ticked" /\ pc'[g] = "send" /\ setBy = g
           => period' = wanted']_vars
  <2> SUFFICES ASSUME LiveInv, Next, NEW g \in Sessions,
                      pc[g] = "ticked", pc'[g] = "send", setBy = g
               PROVE  period' = wanted'
    OBVIOUS
  <2>1. ASSUME HandleTick(g) PROVE period' = wanted'
    <3>1. CASE active /\ wanted = interval[g] /\ UNCHANGED period
      <4>1. g # 0 /\ wanted' = wanted
        BY <2>1 DEF Sessions, HandleTick
      <4> QED
        BY <3>1, <4>1 DEF LiveInv, CadenceIsKnown
    <3>2. CASE period' = wanted
      BY <2>1, <3>2 DEF HandleTick
    <3> QED
      BY <2>1, <3>1, <3>2 DEF HandleTick, Goto, LiveInv, At
  <2>2. ASSUME NEW h \in Sessions, h # g, Goto(h, "top") \/ Goto(h, "half")
                 \/ Goto(h, "select") \/ Goto(h, "ticked") \/ Goto(h, "done")
                 \/ Goto(h, "send")
        PROVE  FALSE
    BY <2>2 DEF Goto, LiveInv
  <2> QED
    BY <2>1, <2>2
       DEF Next, Goroutine, Start, End, Stop, Tune, Tick, EvalTicker, EvalStop, ReceiveTick,
       ReceiveStop, HandleTick, EmitUpdate, At, Goto, LiveInv, loop
<1> QED
  BY <1>1, LiveInvariant, PTL DEF LandsOnNextTick, Spec

(* The exact reach of the race behind a panic: a goroutine can meet a nil   *)
(* ticker only once its car's session is over or the manager is stopped.    *)
THEOREM PanicNeedsEnd == Spec => PanicsOnlyAfterEnd
<1>1. LiveInv /\ [Next]_vars => [crashed' /\ ~crashed => ~active \/ stopped]_vars
  <2> SUFFICES ASSUME LiveInv, Next, crashed', ~crashed PROVE ~active \/ stopped
    OBVIOUS
  <2>1. ticker = 0 => ~active \/ stopped
    BY DEF LiveInv
  <2>2. ASSUME NEW g \in Sessions, EvalTicker(g) PROVE ticker = 0
    BY <2>2 DEF EvalTicker
  <2>3. ASSUME NEW g \in Sessions, HandleTick(g) PROVE ticker = 0
    BY <2>3 DEF HandleTick
  <2> QED
    BY <2>1, <2>2, <2>3
       DEF Next, Goroutine, Start, End, Stop, Tune, Tick, EvalStop, ReceiveTick, ReceiveStop,
       EmitUpdate
<1> QED
  BY <1>1, LiveInvariant, PTL DEF PanicsOnlyAfterEnd, Spec
=============================================================================
