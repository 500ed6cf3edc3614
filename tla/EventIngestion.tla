---------------------------- MODULE EventIngestion ----------------------------
(***************************************************************************)
(* What SendEvent promises about one event, with a relay that keeps to the *)
(* event_id: "exactly-once ingestion" (relay/models.go).  The event takes  *)
(* effect once at most; it is reported as sent only when it has; and the   *)
(* report, which always comes, is final.  An event reported as failed may  *)
(* have taken effect, or may do so yet.  RelayClient is shown to implement *)
(* this, for each of its events.                                           *)
(***************************************************************************)
EXTENDS Naturals

VARIABLES
  outcome,  (* of SendEvent: "none" before the call, "open" during it,     *)
            (* "sent" or "failed" after it                                 *)
  effects   (* how often the event took effect at the relay                *)

vars == <<outcome, effects>>

Init == outcome = "none" /\ effects = 0

Call == outcome = "none" /\ outcome' = "open" /\ UNCHANGED effects

(* A request may arrive long after SendEvent has given up.                  *)
Ingest == outcome # "none" /\ effects = 0 /\ effects' = 1 /\ UNCHANGED outcome

Report ==
  /\ outcome = "open"
  /\ outcome' \in {"sent", "failed"}
  /\ outcome' = "sent" => effects = 1
  /\ UNCHANGED effects

Next == Call \/ Ingest \/ Report

Step == Next \/ UNCHANGED vars

Fairness == WF_vars(Report)

Spec == Init /\ [][Next]_vars /\ Fairness
=============================================================================
