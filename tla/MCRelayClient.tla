---------------------------- MODULE MCRelayClient ----------------------------
(***************************************************************************)
(* RelayClient for TLC.  Two concurrent events with all their attempts are *)
(* explored without a reader, and a reader with one of the events and no   *)
(* retries: the two sides meet only in the store.                          *)
(***************************************************************************)
EXTENDS RelayClient, FiniteSets

Number(n) == [kind |-> "int", n |-> n]
Word(w) == [kind |-> w, n |-> 0]

Config(slow, fast, above, raw) ==
  [k \in Keys |-> CASE k = "slow"  -> slow
                    [] k = "fast"  -> fast
                    [] k = "above" -> above
                    [] k = "raw"   -> raw]

(* A plain configuration; one below and above every bound; one where 410    *)
(* and 450 seconds overflow the width, and a NaN.                           *)
Plain == Config(Number(10), Number(20), Number(60), Word("true"))

SomeConfigs ==
  {Plain,
   Config(Number(1), Number(200), Number(900), Word("garbage")),
   Config(Number(410), Number(450), Word("nan"), None)}

NoReader == asking = <<>> /\ \A k \in Keys : foundIn[k] = NotYet

InOrder == \A s, t \in Sends : s < t /\ eventID[t] # 0 => eventID[s] # 0

OneSubject ==
  /\ InOrder
  /\ \/ /\ NoReader
        /\ Cardinality(requests) <= 2
        /\ configs \in {<<>>, <<Plain>>}
     \/ /\ \A s \in Sends : Len(answers[s]) <= 1 /\ pc[s] # "failed"
        /\ \A s \in Sends : pc[s] \in {"post", "wait"} => answers[s] = <<>>
=============================================================================
