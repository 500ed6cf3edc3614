---------------------------- MODULE EventDelivery ----------------------------
(***************************************************************************)
(* What the state machine promises about one type of event of one car:     *)
(* every event it detects is handed to the emitter exactly once, at once   *)
(* or later, as long as the process lives.  A crash forgets the events     *)
(* that were waiting.  CarMachine is shown to implement this.              *)
(***************************************************************************)
EXTENDS Naturals

VARIABLES
  raised,  (* events detected                                              *)
  handed   (* events handed to the emitter                                 *)

vars == <<raised, handed>>

Init == raised = 0 /\ handed = 0

Raise == raised' = raised + 1 /\ handed' \in handed .. raised + 1

Hand == handed < raised /\ raised' = raised /\ handed' \in handed + 1 .. raised

Crash == raised' = 0 /\ handed' = 0

Next == Raise \/ Hand \/ Crash

Step == Next \/ UNCHANGED vars

(* Some waiting event is handed over, perhaps as another one is detected.   *)
Deliver == handed < raised /\ (Hand \/ (Raise /\ handed' > handed))

Fairness == WF_vars(Deliver)

Spec == Init /\ [][Next]_vars /\ Fairness
=============================================================================
