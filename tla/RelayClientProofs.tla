-------------------------- MODULE RelayClientProofs --------------------------
(***************************************************************************)
(* For any number of concurrent sends and any configurations: an event     *)
(* takes effect once, is reported as sent only then, and is given up only  *)
(* with cause; the store keeps the newest configuration, and no reader can *)
(* be led to an interval the tickers cannot use.                           *)
(*                                                                         *)
(* Three invariants: one follows the event_ids through the network and the *)
(* relay, one the answers of each loop, one the store and its reader.      *)
(***************************************************************************)
EXTENDS RelayClient, SequenceTheorems, TLAPS

Answers == Results \cup {"error"}

(* An event_id belongs to one event, which is in a request only with it; an *)
(* event has taken effect exactly if its event_id is among the processed.   *)
IdInv ==
  /\ pc \in [Sends -> {"idle", "post", "wait", "sent", "failed"}]
  /\ eventID \in [Sends -> Nat] /\ minted \in Nat
  /\ processed \in [Sends -> Nat]
  /\ \A s \in Sends : eventID[s] <= minted /\ (pc[s] = "idle" <=> eventID[s] = 0)
  /\ \A s, t \in Sends : eventID[s] = eventID[t] /\ eventID[s] # 0 => s = t
  /\ \A q \in requests :
       q.event \in Sends /\ q.id = eventID[q.event] /\ q.id # 0
  /\ ids \subseteq 1..minted
  /\ \A s \in Sends : processed[s] = IF eventID[s] \in ids THEN 1 ELSE 0
  /\ \A r \in replies :
       r.event \in Sends /\ (r.result = "ok" => eventID[r.event] \in ids)
  /\ \A s \in Sends : pc[s] = "sent" => eventID[s] \in ids

LEMMA AfterIsPlace ==
  ASSUME NEW s, NEW answer
  PROVE  /\ After(s, answer) \in {"sent", "failed", "post"}
         /\ After(s, answer) = "sent" <=> answer = "ok"
BY DEF After

LEMMA InitId == Init => IdInv
BY DEF Init, IdInv

LEMMA SendEventId ==
  ASSUME IdInv, NEW s \in Sends, SendEvent(s)
  PROVE  IdInv'
<1>1. /\ eventID' = [eventID EXCEPT ![s] = minted + 1] /\ minted' = minted + 1
      /\ pc' = [pc EXCEPT ![s] = "post"] /\ pc[s] = "idle" /\ eventID[s] = 0
      /\ UNCHANGED <<requests, replies, ids, processed>>
  BY DEF SendEvent, IdInv, relay
<1>2. /\ eventID' \in [Sends -> Nat] /\ minted' \in Nat /\ ids' \subseteq 1..minted'
      /\ pc' \in [Sends -> {"idle", "post", "wait", "sent", "failed"}]
      /\ processed' \in [Sends -> Nat]
  BY <1>1 DEF IdInv
<1>3. eventID'[s] = minted + 1 /\ pc'[s] = "post" /\ minted + 1 \notin ids
  BY <1>1 DEF IdInv
<1>4. \A t \in Sends \ {s} : eventID'[t] = eventID[t] /\ pc'[t] = pc[t]
  BY <1>1 DEF IdInv
<1>5. \A t \in Sends : eventID'[t] <= minted' /\ (pc'[t] = "idle" <=> eventID'[t] = 0)
  BY <1>1, <1>3, <1>4 DEF IdInv
<1>6. \A t, u \in Sends : eventID'[t] = eventID'[u] /\ eventID'[t] # 0 => t = u
  BY <1>1, <1>3, <1>4 DEF IdInv
<1>7. \A q \in requests' : q.event \in Sends /\ q.id = eventID'[q.event] /\ q.id # 0
  BY <1>1, <1>3, <1>4 DEF IdInv
<1>8. 0 \notin ids
  BY DEF IdInv
<1>9. \A t \in Sends : processed'[t] = IF eventID'[t] \in ids' THEN 1 ELSE 0
  BY <1>1, <1>3, <1>4, <1>8 DEF IdInv
<1>10. \A r \in replies' :
         r.event \in Sends /\ (r.result = "ok" => eventID'[r.event] \in ids')
  BY <1>1, <1>4, <1>8 DEF IdInv
<1>11. \A t \in Sends : pc'[t] = "sent" => eventID'[t] \in ids'
  BY <1>1, <1>3, <1>4 DEF IdInv
<1> QED
  BY <1>2, <1>5, <1>6, <1>7, <1>9, <1>10, <1>11 DEF IdInv

LEMMA PostId ==
  ASSUME IdInv, NEW s \in Sends, Post(s)
  PROVE  IdInv'
<1>1. /\ requests' = requests \cup
           {[event |-> s, attempt |-> Attempt(s), id |-> eventID[s]]}
      /\ pc' = [pc EXCEPT ![s] = "wait"] /\ pc[s] = "post"
      /\ UNCHANGED <<eventID, minted, replies, ids, processed>>
  BY DEF Post, relay
<1>2. eventID[s] # 0
  BY <1>1 DEF IdInv
<1>3. \A q \in requests' : q.event \in Sends /\ q.id = eventID'[q.event] /\ q.id # 0
  BY <1>1, <1>2 DEF IdInv
<1> QED
  BY <1>1, <1>3 DEF IdInv

(* An answer ends a wait; "ok" is among the answers only of the processed.  *)
LEMMA AnsweredId ==
  ASSUME IdInv, NEW s \in Sends, NEW answer, pc[s] = "wait", Answered(s, answer),
         answer = "ok" => eventID[s] \in ids,
         UNCHANGED <<eventID, minted, requests, ids, processed>>,
         replies' \subseteq replies
  PROVE  IdInv'
<1>1. pc' = [pc EXCEPT ![s] = After(s, answer)]
  BY DEF Answered
<1>2. pc' \in [Sends -> {"idle", "post", "wait", "sent", "failed"}]
  BY <1>1, AfterIsPlace DEF IdInv
<1>3. pc'[s] = After(s, answer) /\ pc'[s] # "idle" /\ pc[s] # "idle"
  BY <1>1, AfterIsPlace DEF IdInv
<1>4. \A t \in Sends \ {s} : pc'[t] = pc[t]
  BY <1>1 DEF IdInv
<1>5. \A t \in Sends : pc'[t] = "idle" <=> eventID'[t] = 0
  BY <1>3, <1>4 DEF IdInv
<1>6. \A t \in Sends : pc'[t] = "sent" => eventID'[t] \in ids'
  BY <1>3, <1>4, AfterIsPlace DEF IdInv
<1> QED
  BY <1>2, <1>5, <1>6 DEF IdInv

(* An event that cannot be posted is not reported as sent.                  *)
LEMMA CannotPostId ==
  ASSUME IdInv, NEW s \in Sends, CannotPost(s)
  PROVE  IdInv'
<1>1. /\ pc' = [pc EXCEPT ![s] = "failed"] /\ pc[s] = "post"
      /\ UNCHANGED <<eventID, minted, requests, replies, ids, processed>>
  BY DEF CannotPost, relay
<1>2. /\ pc' \in [Sends -> {"idle", "post", "wait", "sent", "failed"}]
      /\ pc'[s] = "failed" /\ \A t \in Sends \ {s} : pc'[t] = pc[t]
  BY <1>1 DEF IdInv
<1>3. \A t \in Sends : (pc'[t] = "idle" <=> pc[t] = "idle") /\ (pc'[t] = "sent" => pc[t] = "sent")
  BY <1>1, <1>2
<1> QED
  BY <1>1, <1>2, <1>3 DEF IdInv

LEMMA RequestFailsId ==
  ASSUME IdInv, NEW s \in Sends, RequestFails(s)
  PROVE  IdInv'
BY AnsweredId DEF RequestFails, relay

LEMMA ReceiveId ==
  ASSUME IdInv, NEW s \in Sends, Receive(s)
  PROVE  IdInv'
<1>1. PICK r \in replies :
        /\ r.event = s /\ pc[s] = "wait" /\ Answered(s, r.result)
        /\ replies' = replies \ {r}
        /\ UNCHANGED <<eventID, minted, requests, ids, processed>>
  BY DEF Receive, relay
<1>2. r.result = "ok" => eventID[s] \in ids
  BY <1>1 DEF IdInv
<1> QED
  BY <1>1, <1>2, AnsweredId

LEMMA RelayHandlesId ==
  ASSUME IdInv, NEW q \in requests, RelayHandles(q)
  PROVE  IdInv'
<1>1. PICK result \in Results, v \in {0, Len(configs)}, works, bare \in BOOLEAN :
        /\ result = "ok" => works
        /\ requests' = requests \ {q}
        /\ IF works /\ q.id \notin ids
             THEN /\ ids' = ids \cup {q.id}
                  /\ processed' = [processed EXCEPT ![q.event] = @ + 1]
             ELSE UNCHANGED <<ids, processed>>
        /\ replies' =
             IF pc[q.event] = "wait" /\ q.attempt = Attempt(q.event)
               THEN replies \cup
                      {[event |-> q.event, result |-> result, version |-> v, bare |-> bare]}
               ELSE replies
        /\ UNCHANGED <<pc, eventID, minted>>
  BY DEF RelayHandles, client
<1>2. q.event \in Sends /\ q.id = eventID[q.event] /\ q.id \in 1..minted
  BY DEF IdInv
<1>3. /\ \/ /\ q.id \notin ids /\ ids' = ids \cup {q.id}
            /\ processed' = [processed EXCEPT ![q.event] = @ + 1]
         \/ UNCHANGED <<ids, processed>>
      /\ works => q.id \in ids'
  BY <1>1, Zenon
<1>4. ids \subseteq ids' /\ ids' \subseteq 1..minted
  BY <1>2, <1>3 DEF IdInv
<1>5. /\ processed' \in [Sends -> Nat]
      /\ \A s \in Sends : processed'[s] = IF eventID[s] \in ids' THEN 1 ELSE 0
  <2>1. CASE /\ q.id \notin ids /\ ids' = ids \cup {q.id}
             /\ processed' = [processed EXCEPT ![q.event] = @ + 1]
    <3>1. processed[q.event] = 0
      BY <1>2, <2>1 DEF IdInv
    <3>2. \A s \in Sends : eventID[s] = q.id => s = q.event
      BY <1>2 DEF IdInv
    <3>3. processed'[q.event] = 1 /\ processed' \in [Sends -> Nat]
      BY <1>2, <2>1, <3>1 DEF IdInv
    <3>4. \A s \in Sends \ {q.event} : processed'[s] = processed[s]
      BY <2>1 DEF IdInv
    <3> QED
      BY <1>2, <2>1, <3>2, <3>3, <3>4 DEF IdInv
  <2>2. CASE UNCHANGED <<ids, processed>>
    BY <2>2 DEF IdInv
  <2> QED
    BY <1>3, <2>1, <2>2
<1>6. \A r \in replies' :
        r.event \in Sends /\ (r.result = "ok" => eventID[r.event] \in ids')
  <2>1. result = "ok" => q.id \in ids'
    BY <1>1, <1>3, Zenon
  <2> QED
    BY <1>1, <1>2, <1>4, <2>1 DEF IdInv
<1> QED
  BY <1>1, <1>4, <1>5, <1>6 DEF IdInv

LEMMA NextId == IdInv /\ [Next]_vars => IdInv'
<1> SUFFICES ASSUME IdInv, [Next]_vars PROVE IdInv'
  OBVIOUS
<1>1. ASSUME NEW s \in Sends, SendEvent(s) PROVE IdInv'
  BY <1>1, SendEventId
<1>2. ASSUME NEW s \in Sends, Post(s) PROVE IdInv'
  BY <1>2, PostId
<1>3. ASSUME NEW s \in Sends, RequestFails(s) PROVE IdInv'
  BY <1>3, RequestFailsId
<1>4. ASSUME NEW s \in Sends, Receive(s) PROVE IdInv'
  BY <1>4, ReceiveId
<1>5. ASSUME NEW q \in requests, LoseRequest(q) PROVE IdInv'
  BY <1>5 DEF LoseRequest, client, relay, IdInv
<1>6. ASSUME NEW q \in requests, RelayHandles(q) PROVE IdInv'
  BY <1>6, RelayHandlesId
<1>7. CASE NewConfig \/ ReadConfig \/ UNCHANGED vars
  BY <1>7 DEF NewConfig, ReadConfig, vars, client, relay, IdInv
<1>8. ASSUME NEW s \in Sends, CannotPost(s) PROVE IdInv'
  BY <1>8, CannotPostId
<1> QED
  BY <1>1, <1>2, <1>3, <1>4, <1>5, <1>6, <1>7, <1>8 DEF Next

LEMMA IdHolds == Spec => []IdInv
BY InitId, NextId, PTL DEF Spec

(* However often an event is posted, lost, answered late or posted again,   *)
(* it takes effect at the relay once (SendEvent mints its event_id once,    *)
(* before the loop).                                                        *)
THEOREM EventsProcessedOnce == Spec => []ProcessedAtMostOnce
<1>1. IdInv => ProcessedAtMostOnce
  BY DEF IdInv, ProcessedAtMostOnce
<1> QED
  BY <1>1, IdHolds, PTL

(* SendEvent returns nil only for an event that has taken effect: no two    *)
(* events share an event_id, so the relay took none for a replay of another. *)
THEOREM SentEventsProcessed == Spec => []SentMeansProcessed
<1>1. IdInv => SentMeansProcessed
  BY DEF IdInv, SentMeansProcessed
<1> QED
  BY <1>1, IdHolds, PTL

-----------------------------------------------------------------------------
(* What each place of SendEvent is from outside.                            *)
LEMMA Outcomes ==
  ASSUME NEW s \in Sends
  PROVE  /\ pc[s] = "idle" => Outcome(s) = "none"
         /\ pc[s] \in {"post", "wait"} => Outcome(s) = "open"
         /\ pc[s] \in {"sent", "failed"} => Outcome(s) = pc[s]
         /\ pc'[s] = "idle" => Outcome(s)' = "none"
         /\ pc'[s] \in {"post", "wait"} => Outcome(s)' = "open"
         /\ pc'[s] \in {"sent", "failed"} => Outcome(s)' = pc'[s]
BY DEF Outcome

(* An event that a step leaves alone.                                       *)
LEMMA Stutters ==
  ASSUME NEW s \in Sends, pc'[s] = pc[s], processed'[s] = processed[s]
  PROVE  Ingestion(s)!Step
BY DEF Outcome, Ingestion!Step, Ingestion!vars

(* The end of an attempt is the report, which is true, or passes unseen.    *)
LEMMA AnsweredReports ==
  ASSUME IdInv, NEW s \in Sends, NEW t \in Sends, NEW answer,
         pc[s] = "wait", Answered(s, answer), answer = "ok" => eventID[s] \in ids,
         UNCHANGED processed
  PROVE  Ingestion(t)!Step
<1>1. /\ pc'[s] = After(s, answer)
      /\ t # s => pc'[t] = pc[t]
  BY DEF Answered, IdInv
<1>2. CASE t # s
  BY <1>1, <1>2, Stutters
<1>3. CASE t = s /\ pc'[s] = "post"
  BY <1>3, Outcomes DEF Ingestion!Step, Ingestion!vars
<1>4. CASE t = s /\ pc'[s] \in {"sent", "failed"}
  <2>1. Outcome(s) = "open" /\ Outcome(s)' = pc'[s]
    BY <1>4, Outcomes
  <2>2. pc'[s] = "sent" => processed[s] = 1
    <3>1. pc'[s] = "sent" => answer = "ok"
      BY <1>1, AfterIsPlace, Zenon
    <3>2. eventID[s] \in ids => processed[s] = 1
      BY DEF IdInv
    <3> QED
      BY <3>1, <3>2
  <2> QED
    BY <1>4, <2>1, <2>2 DEF Ingestion!Step, Ingestion!Next, Ingestion!Report
<1> QED
  BY <1>1, <1>2, <1>3, <1>4, AfterIsPlace

(* The relay acts on an event whose call has begun and that it has not yet  *)
(* acted on, or it does nothing that counts.                                *)
LEMMA RelayHandlesIngests ==
  ASSUME IdInv, NEW q \in requests, RelayHandles(q), NEW t \in Sends
  PROVE  Ingestion(t)!Step
<1>1. /\ UNCHANGED pc
      /\ \/ /\ q.id \notin ids
            /\ processed' = [processed EXCEPT ![q.event] = @ + 1]
         \/ UNCHANGED processed
  BY DEF RelayHandles, client
<1>2. q.event \in Sends /\ q.id = eventID[q.event] /\ q.id # 0
  BY DEF IdInv
<1>3. CASE /\ t = q.event /\ q.id \notin ids
           /\ processed' = [processed EXCEPT ![q.event] = @ + 1]
  <2>1. processed[t] = 0 /\ processed'[t] = 1
    BY <1>2, <1>3 DEF IdInv
  <2>2. Outcome(t) # "none" /\ Outcome(t)' = Outcome(t)
    BY <1>1, <1>2, <1>3 DEF IdInv, Outcome
  <2> QED
    BY <2>1, <2>2 DEF Ingestion!Step, Ingestion!Next, Ingestion!Ingest
<1>4. CASE processed'[t] = processed[t]
  BY <1>1, <1>4, Stutters
<1>5. t # q.event => processed'[t] = processed[t]
  BY <1>1 DEF IdInv
<1> QED
  BY <1>1, <1>3, <1>4, <1>5

(* RelayClient implements EventIngestion in its safety part, for any number *)
(* of events sent at once: an event has one effect at most, also after it   *)
(* was given up, and an outcome once reported stands.                       *)
THEOREM ImplementsIngestion == Spec => IngestionIsSafe
<1>1. Init => \A s \in Sends : Ingestion(s)!Init
  BY DEF Init, Outcome, Ingestion!Init
<1>2. IdInv /\ [Next]_vars => [\A s \in Sends : Ingestion(s)!Step]_<<pc, processed>>
  <2> SUFFICES ASSUME IdInv, [Next]_vars, NEW t \in Sends
               PROVE  Ingestion(t)!Step
    OBVIOUS
  <2>1. ASSUME NEW s \in Sends, SendEvent(s) PROVE Ingestion(t)!Step
    <3>1. pc[s] = "idle" /\ pc'[s] = "post" /\ UNCHANGED processed
      BY <2>1 DEF SendEvent, relay, IdInv
    <3>2. CASE t = s
      <4>1. Outcome(s) = "none" /\ Outcome(s)' = "open"
        BY <3>1, Outcomes
      <4> QED
        BY <3>1, <3>2, <4>1 DEF Ingestion!Step, Ingestion!Next, Ingestion!Call
    <3>3. CASE t # s
      BY <2>1, <3>1, <3>3, Stutters DEF SendEvent
    <3> QED
      BY <3>2, <3>3
  <2>2. ASSUME NEW s \in Sends, Post(s) PROVE Ingestion(t)!Step
    <3>1. pc[s] = "post" /\ pc'[s] = "wait" /\ UNCHANGED processed
      BY <2>2 DEF Post, relay, IdInv
    <3>2. CASE t = s
      BY <3>1, <3>2, Outcomes DEF Ingestion!Step, Ingestion!vars
    <3>3. CASE t # s
      BY <2>2, <3>1, <3>3, Stutters DEF Post
    <3> QED
      BY <3>2, <3>3
  <2>3. ASSUME NEW s \in Sends, RequestFails(s) PROVE Ingestion(t)!Step
    BY <2>3, AnsweredReports DEF RequestFails, relay
  <2>4. ASSUME NEW s \in Sends, Receive(s) PROVE Ingestion(t)!Step
    <3>1. PICK r \in replies : /\ r.event = s /\ pc[s] = "wait" /\ Answered(s, r.result)
                               /\ UNCHANGED processed
      BY <2>4 DEF Receive, relay
    <3>2. r.result = "ok" => eventID[s] \in ids
      BY <3>1 DEF IdInv
    <3> QED
      BY <3>1, <3>2, AnsweredReports
  <2>5. ASSUME NEW q \in requests, RelayHandles(q) PROVE Ingestion(t)!Step
    BY <2>5, RelayHandlesIngests
  <2>6. CASE UNCHANGED <<pc, processed>>
    BY <2>6, Stutters
  <2>7. ASSUME NEW s \in Sends, CannotPost(s) PROVE Ingestion(t)!Step
    <3>1. pc[s] = "post" /\ pc'[s] = "failed" /\ UNCHANGED processed
      BY <2>7 DEF CannotPost, relay, IdInv
    <3>2. CASE t = s
      <4>1. Outcome(s) = "open" /\ Outcome(s)' = "failed"
        BY <3>1, Outcomes
      <4> QED
        BY <3>1, <3>2, <4>1 DEF Ingestion!Step, Ingestion!Next, Ingestion!Report
    <3>3. CASE t # s
      BY <2>7, <3>1, <3>3, Stutters DEF CannotPost
    <3> QED
      BY <3>2, <3>3
  <2> QED
    BY <2>1, <2>2, <2>3, <2>4, <2>5, <2>6, <2>7
       DEF Next, LoseRequest, NewConfig, ReadConfig, vars, client, relay
<1> QED
  BY <1>1, <1>2, InitId, NextId, PTL DEF Spec, IngestionIsSafe

-----------------------------------------------------------------------------
(* A loop that is still running has met only reasons to go on, two at most, *)
(* and one that has ended has done so for its last answer or without any.   *)
LoopEnds(s) ==
  LET a == answers[s]
      last == IF a = <<>> THEN "none" ELSE a[Len(a)]
  IN  /\ \A i \in 1..(Len(a) - 1) : a[i] \in {"error", "later"}
      /\ pc[s] = "sent" <=> last = "ok"
      /\ (last = "refused" \/ (Len(a) = 3 /\ last # "ok")) => pc[s] = "failed"
      /\ pc[s] = "failed" => last \in {"none", "refused"} \/ Len(a) = 3

LoopInv ==
  /\ pc \in [Sends -> {"idle", "post", "wait", "sent", "failed"}]
  /\ answers \in [Sends -> Seq(Answers)]
  /\ \A r \in replies : r.result \in Results
  /\ \A s \in Sends : pc[s] \notin {"sent", "failed"} =>
       /\ Len(answers[s]) < 3
       /\ \A i \in 1..Len(answers[s]) : answers[s][i] \in {"error", "later"}
  /\ \A s \in Sends : LoopEnds(s)

(* What has reached the network, or the relay, is of an event whose first   *)
(* attempt has begun.                                                       *)
Posted(s) == pc[s] = "wait" \/ answers[s] # <<>>

PostedInv ==
  /\ processed \in [Sends -> Nat]
  /\ \A q \in requests : q.event \in Sends /\ Posted(q.event)
  /\ \A s \in Sends : processed[s] # 0 => Posted(s)

LEMMA InitLoop == Init => LoopInv /\ PostedInv
<1> SUFFICES ASSUME Init PROVE LoopInv /\ PostedInv
  OBVIOUS
<1>1. <<>> \in Seq(Answers) /\ Len(<<>>) = 0
  BY EmptySeq
<1>2. \A s \in Sends : answers[s] = <<>> /\ pc[s] = "idle"
  BY DEF Init
<1>3. \A s \in Sends : LoopEnds(s)
  BY <1>1, <1>2 DEF LoopEnds
<1>4. PostedInv
  BY DEF Init, PostedInv
<1> QED
  BY <1>1, <1>2, <1>3, <1>4 DEF Init, LoopInv

LEMMA AnsweredLoop ==
  ASSUME LoopInv, PostedInv, NEW s \in Sends, NEW answer \in Answers, pc[s] = "wait",
         Answered(s, answer), replies' \subseteq replies, UNCHANGED <<requests, processed>>
  PROVE  LoopInv' /\ PostedInv'
<1> DEFINE a == answers[s]
           b == Append(a, answer)
<1>1. /\ answers' = [answers EXCEPT ![s] = b]
      /\ pc' = [pc EXCEPT ![s] = After(s, answer)]
  BY DEF Answered
<1>2. a \in Seq(Answers) /\ Len(a) \in Nat /\ Len(a) < 3
      /\ \A i \in 1..Len(a) : a[i] \in {"error", "later"}
  BY LenProperties DEF LoopInv
<1>3. /\ b \in Seq(Answers) /\ b # <<>> /\ Len(b) = Len(a) + 1
      /\ b[Len(b)] = answer /\ \A i \in 1..Len(a) : b[i] = a[i]
  BY <1>2, AppendProperties
<1>4. answers' \in [Sends -> Seq(Answers)]
      /\ pc' \in [Sends -> {"idle", "post", "wait", "sent", "failed"}]
  BY <1>1, <1>3, AfterIsPlace DEF LoopInv
<1>5. /\ answers'[s] = b /\ pc'[s] = After(s, answer)
      /\ \A t \in Sends \ {s} : answers'[t] = answers[t] /\ pc'[t] = pc[t]
  BY <1>1 DEF LoopInv
<1>6. /\ After(s, answer) = "sent" <=> answer = "ok"
      /\ After(s, answer) = "failed" <=>
           (answer = "refused" \/ (Len(b) = 3 /\ answer # "ok"))
      /\ After(s, answer) = "post" =>
           answer \in {"error", "later"} /\ Len(b) < 3
  BY <1>2, <1>3 DEF After, Attempt, MaxAttempts, Answers, Results
<1>7. \A i \in 1..(Len(b) - 1) : b[i] \in {"error", "later"}
  BY <1>2, <1>3
<1>8. \A i \in 1..Len(b) : i \in 1..(Len(b) - 1) \/ i = Len(b)
  BY <1>2, <1>3
<1>9. pc'[s] \notin {"sent", "failed"} =>
        /\ Len(b) < 3
        /\ \A i \in 1..Len(b) : b[i] \in {"error", "later"}
  BY <1>3, <1>5, <1>6, <1>7, <1>8, AfterIsPlace
<1>10. \A t \in Sends : LoopEnds(t)'
  <2> TAKE t \in Sends
  <2>1. CASE t = s
    BY <1>3, <1>5, <1>6, <1>7, <2>1 DEF LoopEnds
  <2>2. CASE t # s
    BY <1>5, <2>2 DEF LoopInv, LoopEnds
  <2> QED
    BY <2>1, <2>2
<1>11. LoopInv'
  BY <1>4, <1>5, <1>9, <1>10 DEF LoopInv
<1>12. \A t \in Sends : Posted(t) => Posted(t)'
  BY <1>3, <1>5 DEF Posted
<1>13. PostedInv'
  BY <1>12 DEF PostedInv
<1> QED
  BY <1>11, <1>13

(* The loop moves to the next place without an answer.                      *)
LEMMA MovesLoop ==
  ASSUME LoopInv, PostedInv, NEW s \in Sends, NEW place \in {"post", "wait"},
         pc[s] \in {"idle", "post"}, pc' = [pc EXCEPT ![s] = place],
         UNCHANGED <<answers, replies, processed>>,
         \A q \in requests' : q \in requests \/ (q.event = s /\ place = "wait")
  PROVE  LoopInv' /\ PostedInv'
<1>1. /\ \A t \in Sends : /\ pc'[t] = "sent" <=> pc[t] = "sent"
                          /\ pc'[t] = "failed" <=> pc[t] = "failed"
      /\ pc'[s] = place /\ \A t \in Sends \ {s} : pc'[t] = pc[t]
  BY DEF LoopInv
<1>2. \A t \in Sends : LoopEnds(t)'
  BY <1>1 DEF LoopInv, LoopEnds
<1>3. LoopInv'
  BY <1>1, <1>2 DEF LoopInv
<1>4. \A t \in Sends : Posted(t) => Posted(t)'
  BY <1>1 DEF Posted
<1>5. \A q \in requests' : q.event \in Sends /\ Posted(q.event)'
  BY <1>1, <1>4 DEF PostedInv, Posted
<1>6. PostedInv'
  BY <1>4, <1>5 DEF PostedInv
<1> QED
  BY <1>3, <1>6

(* It ends before the first attempt.                                        *)
LEMMA CannotPostLoop ==
  ASSUME LoopInv, PostedInv, NEW s \in Sends, CannotPost(s)
  PROVE  LoopInv' /\ PostedInv'
<1>1. /\ pc[s] = "post" /\ answers[s] = <<>> /\ pc' = [pc EXCEPT ![s] = "failed"]
      /\ UNCHANGED <<answers, replies, requests, processed>>
  BY DEF CannotPost, relay
<1>2. /\ pc' \in [Sends -> {"idle", "post", "wait", "sent", "failed"}]
      /\ pc'[s] = "failed" /\ \A t \in Sends \ {s} : pc'[t] = pc[t]
  BY <1>1 DEF LoopInv
<1>3. \A t \in Sends : LoopEnds(t)'
  <2> TAKE t \in Sends
  <2>1. CASE t = s
    BY <1>1, <1>2, <2>1 DEF LoopInv, LoopEnds
  <2>2. CASE t # s
    BY <1>1, <1>2, <2>2 DEF LoopInv, LoopEnds
  <2> QED
    BY <2>1, <2>2
<1>4. LoopInv'
  BY <1>1, <1>2, <1>3 DEF LoopInv
<1>5. \A t \in Sends : Posted(t) => Posted(t)'
  BY <1>1, <1>2 DEF Posted
<1>6. PostedInv'
  BY <1>1, <1>5 DEF PostedInv
<1> QED
  BY <1>4, <1>6

LEMMA NextLoop == LoopInv /\ PostedInv /\ [Next]_vars => LoopInv' /\ PostedInv'
<1> SUFFICES ASSUME LoopInv, PostedInv, [Next]_vars PROVE LoopInv' /\ PostedInv'
  OBVIOUS
<1> USE DEF LoopInv, PostedInv
<1>0. ASSUME UNCHANGED <<pc, answers>>, processed' \in [Sends -> Nat],
             \A r \in replies' : r.result \in Results, requests' \subseteq requests,
             \A s \in Sends : processed'[s] # 0 => Posted(s)
      PROVE  LoopInv' /\ PostedInv'
  BY <1>0 DEF LoopEnds, Posted
<1>1. ASSUME NEW s \in Sends, SendEvent(s) PROVE LoopInv' /\ PostedInv'
  <2>1. /\ pc[s] = "idle" /\ pc' = [pc EXCEPT ![s] = "post"]
        /\ UNCHANGED <<answers, replies, requests, processed>>
    BY <1>1 DEF SendEvent, relay
  <2> QED
    BY <2>1, MovesLoop
<1>2. ASSUME NEW s \in Sends, Post(s) PROVE LoopInv' /\ PostedInv'
  <2>1. /\ pc[s] = "post" /\ pc' = [pc EXCEPT ![s] = "wait"]
        /\ UNCHANGED <<answers, replies, processed>>
        /\ \A q \in requests' : q \in requests \/ q.event = s
    BY <1>2 DEF Post, relay
  <2> QED
    BY <2>1, MovesLoop
<1>3. ASSUME NEW s \in Sends, RequestFails(s) PROVE LoopInv' /\ PostedInv'
  <2>1. replies' \subseteq replies /\ "error" \in Answers
    BY <1>3 DEF RequestFails, Answers
  <2> QED
    BY <1>3, <2>1, AnsweredLoop DEF RequestFails, relay
<1>4. ASSUME NEW s \in Sends, Receive(s) PROVE LoopInv' /\ PostedInv'
  <2>1. PICK r \in replies : /\ pc[s] = "wait" /\ Answered(s, r.result)
                             /\ replies' = replies \ {r} /\ UNCHANGED <<requests, processed>>
    BY <1>4 DEF Receive, relay
  <2>2. r.result \in Answers /\ replies' \subseteq replies
    BY <2>1 DEF Answers
  <2> QED
    BY <2>1, <2>2, AnsweredLoop
<1>5. ASSUME NEW q \in requests, LoseRequest(q) PROVE LoopInv' /\ PostedInv'
  BY <1>0, <1>5 DEF LoseRequest, client, relay
<1>6. ASSUME NEW q \in requests, RelayHandles(q) PROVE LoopInv' /\ PostedInv'
  <2>1. /\ \A r \in replies' : r.result \in Results
        /\ UNCHANGED <<pc, answers>> /\ requests' \subseteq requests
        /\ \/ processed' = [processed EXCEPT ![q.event] = @ + 1]
           \/ UNCHANGED processed
    BY <1>6 DEF RelayHandles, client
  <2>2. /\ processed' \in [Sends -> Nat]
        /\ \A s \in Sends : s # q.event => processed'[s] = processed[s]
        /\ Posted(q.event)
    BY <2>1
  <2>3. \A s \in Sends : processed'[s] # 0 => Posted(s)
    BY <2>2
  <2> QED
    BY <1>0, <2>1, <2>2, <2>3
<1>7. CASE NewConfig \/ ReadConfig \/ UNCHANGED vars
  BY <1>0, <1>7 DEF NewConfig, ReadConfig, vars, client, relay
<1>8. ASSUME NEW s \in Sends, CannotPost(s) PROVE LoopInv' /\ PostedInv'
  BY <1>8, CannotPostLoop
<1> QED
  BY <1>1, <1>2, <1>3, <1>4, <1>5, <1>6, <1>7, <1>8 DEF Next

(* SendEvent goes on after an error, a 429 or any status but a 2xx and a    *)
(* 4xx, and after nothing else.  It gives up only on a refusal, after three *)
(* attempts, or before its first, and then the relay never hears of the     *)
(* event.                                                                   *)
THEOREM GivesUpWithCause == Spec => []GivesUpOnlyWithCause
<1>1. LoopInv /\ PostedInv => GivesUpOnlyWithCause
  <2> SUFFICES ASSUME LoopInv, PostedInv PROVE GivesUpOnlyWithCause
    OBVIOUS
  <2>1. \A s \in Sends : answers[s] # <<>> =>
          answers[s][Len(answers[s])] \in Answers
    BY EmptySeq, LenProperties, ElementOfSeq DEF LoopInv
  <2>2. "none" \notin Answers
    BY DEF Answers, Results
  <2>3. \A s \in Sends : LoopEnds(s)
    BY DEF LoopInv
  <2>4. \A s \in Sends : pc[s] = "failed" /\ answers[s] = <<>> => processed[s] = 0
    BY DEF PostedInv, Posted
  <2>5. \A s \in Sends :
          LET last == IF answers[s] = <<>> THEN "none" ELSE answers[s][Len(answers[s])]
          IN  pc[s] = "failed" /\ last = "none" => processed[s] = 0
    BY <2>1, <2>2, <2>4
  <2> QED
    BY <2>3, <2>5 DEF GivesUpOnlyWithCause, LoopEnds, MaxAttempts
<1> QED
  BY <1>1, InitLoop, NextLoop, PTL DEF Spec

-----------------------------------------------------------------------------
(* The store holds one configuration of the relay's, the newest that came   *)
(* back.                                                                    *)
StoreInv ==
  /\ configs \in Seq(Configs)
  /\ version \in 0..Len(configs)
  /\ StoreHoldsOneVersion
  /\ offered \subseteq 0..version /\ version \in offered \cup {0}
  /\ \A r \in replies : r.version \in 0..Len(configs)

(* The keys are looked up in order, each in a version that is not older     *)
(* than the one before, nor than the one the reader began with.             *)
ReaderInv ==
  /\ asking \in {IntervalKeys, <<"fast", "above">>, <<"above">>, RawKeys, <<>>}
  /\ found \in [Keys -> Texts]
  /\ foundIn \in [Keys -> Nat \cup {NotYet}]
  /\ since \in 0..version
  /\ ConfigLandsOnNextRead
  /\ asking = IntervalKeys => foundIn["slow"] = NotYet
  /\ asking \in {IntervalKeys, <<"fast", "above">>} => foundIn["fast"] = NotYet
  /\ asking # <<>> => foundIn["above"] = NotYet
  /\ asking = <<"above">> => foundIn["slow"] <= foundIn["fast"]

(* The latch of a key is its line in this version, and a bad value of this  *)
(* version, once met, has set it or is about to.                            *)
LatchInv ==
  /\ version \in Nat
  /\ complaint \subseteq Keys /\ (\A j, k \in complaint : j = k) /\ warned \subseteq Keys
  /\ complaints = [k \in Keys |-> IF k \in warned THEN 1 ELSE 0]
  /\ \A k \in Keys :
       foundIn[k] = version /\ Bad(k, found[k]) => k \in complaint \cup warned

ConfigInv == StoreInv /\ ReaderInv /\ LatchInv

LEMMA NoneIsText == None \in Texts
BY WidthAssumption DEF None, Texts, MaxTick

LEMMA InitConfig == Init => ConfigInv
<1> SUFFICES ASSUME Init PROVE ConfigInv
  OBVIOUS
<1>1. <<>> \in Seq(Configs) /\ Len(<<>>) = 0
  BY EmptySeq
<1>2. StoreInv
  BY <1>1 DEF Init, ConfigInit, StoreInv, StoreHoldsOneVersion
<1>3. ReaderInv
  BY NoneIsText DEF Init, ConfigInit, ReaderInv, ConfigLandsOnNextRead, NoValues, NotYet,
     Keys, IntervalKeys, RawKeys
<1>4. LatchInv
  BY DEF Init, ConfigInit, LatchInv, NotYet
<1> QED
  BY <1>2, <1>3, <1>4 DEF ConfigInv

(* Apply lets in nothing but a newer version, whole.                        *)
LEMMA ReceiveConfig ==
  ASSUME ConfigInv, NEW s \in Sends, Receive(s)
  PROVE  ConfigInv'
<1>1. PICK r \in replies :
        /\ replies' = replies \ {r}
        /\ offered' = offered \cup {v \in {r.version} : Given(r) # {}}
        /\ Apply(r.version, Given(r))
        /\ UNCHANGED <<reader, configs>>
  BY DEF Receive, relay
<1> DEFINE v == r.version
<1>2. /\ configs \in Seq(Configs) /\ Len(configs) \in Nat
      /\ v \in 0..Len(configs) /\ version \in 0..Len(configs)
  BY LenProperties DEF ConfigInv, StoreInv
<1>3. CASE v > version /\ Given(r) # {}
  <2>1. /\ version' = v /\ values' = configs[v] /\ warned' = {}
        /\ complaints' = [k \in Keys |-> 0] /\ offered' = offered \cup {v}
    BY <1>1, <1>2, <1>3 DEF Apply, Install, Given
  <2>2. StoreInv'
    <3>1. offered \subseteq 0..version
      BY DEF ConfigInv, StoreInv
    <3>1a. offered' = offered \cup {v} /\ v \in 0..v /\ 0..version \subseteq 0..v
      BY <1>2, <1>3, <2>1
    <3>1b. offered' \subseteq 0..version' /\ version' \in offered' \cup {0}
      BY <2>1, <3>1, <3>1a
    <3>2. \A q \in replies' : q.version \in 0..Len(configs')
      BY <1>1 DEF ConfigInv, StoreInv
    <3>3. version' \in 0..Len(configs') /\ configs' \in Seq(Configs)
      BY <1>1, <1>2, <2>1
    <3>4. StoreHoldsOneVersion'
      BY <1>1, <1>2, <1>3, <2>1 DEF StoreHoldsOneVersion
    <3> QED
      BY <3>1b, <3>2, <3>3, <3>4 DEF StoreInv
  <2>3. ConfigLandsOnNextRead'
    BY <1>1, <1>2, <1>3, <2>1 DEF ConfigInv, ReaderInv, ConfigLandsOnNextRead, reader, NotYet
  <2>4. ReaderInv'
    BY <1>1, <1>2, <1>3, <2>1, <2>3 DEF ConfigInv, ReaderInv, reader
  <2>5. LatchInv'
    <3>1. \A k \in Keys : foundIn[k] # v
      <4> TAKE k \in Keys
      <4>1. foundIn[k] \in Nat \cup {NotYet} /\ (foundIn[k] # NotYet => foundIn[k] <= version)
        BY DEF ConfigInv, ReaderInv, ConfigLandsOnNextRead
      <4> QED
        BY <1>2, <1>3, <4>1 DEF NotYet
    <3> QED
      BY <1>1, <1>2, <2>1, <3>1 DEF ConfigInv, LatchInv, reader
  <2> QED
    BY <2>2, <2>4, <2>5 DEF ConfigInv
<1>4. CASE ~(v > version /\ Given(r) # {})
  <2>1. UNCHANGED <<store, complaints>>
    BY <1>1, <1>2, <1>4 DEF Apply
  <2>2. StoreInv'
    <3>1. offered \subseteq 0..version /\ version \in offered \cup {0}
      BY DEF ConfigInv, StoreInv
    <3>1a. offered' \subseteq offered \cup {v} /\ offered \subseteq offered'
           /\ (v \in offered' \ offered => v \in 0..version) /\ version' = version
      BY <1>1, <1>2, <1>4, <2>1 DEF store
    <3>1b. offered' \subseteq 0..version' /\ version' \in offered' \cup {0}
      BY <3>1, <3>1a
    <3>2. \A q \in replies' : q.version \in 0..Len(configs')
      BY <1>1 DEF ConfigInv, StoreInv
    <3>3. StoreHoldsOneVersion'
      BY <1>1, <2>1 DEF ConfigInv, StoreInv, StoreHoldsOneVersion, store
    <3> QED
      BY <1>1, <1>2, <2>1, <3>1b, <3>2, <3>3 DEF StoreInv, store
  <2>3. ReaderInv' /\ LatchInv'
    BY <1>1, <2>1 DEF ConfigInv, ReaderInv, ConfigLandsOnNextRead, LatchInv, reader, store
  <2> QED
    BY <2>2, <2>3 DEF ConfigInv
<1> QED
  BY <1>3, <1>4

(* A configuration more at the relay changes none it had.                   *)
LEMMA NewConfigConfig ==
  ASSUME ConfigInv, NewConfig
  PROVE  ConfigInv'
<1>1. PICK config \in Configs : configs' = Append(configs, config)
  BY DEF NewConfig
<1>2. /\ configs \in Seq(Configs) /\ Len(configs) \in Nat
      /\ version \in 0..Len(configs) /\ UNCHANGED <<configVars, replies, offered>>
  BY LenProperties DEF ConfigInv, StoreInv, NewConfig
<1>3. /\ configs' \in Seq(Configs) /\ Len(configs') = Len(configs) + 1
      /\ \A i \in 1..Len(configs) : configs'[i] = configs[i]
  BY <1>1, <1>2, AppendProperties
<1>4. StoreInv'
  BY <1>2, <1>3 DEF ConfigInv, StoreInv, StoreHoldsOneVersion, configVars, store
<1>5. ConfigLandsOnNextRead'
  <2>1. \A k \in Keys : foundIn[k] # NotYet =>
          foundIn[k] \in Nat /\ (foundIn[k] # 0 => foundIn[k] \in 1..Len(configs))
    BY <1>2 DEF ConfigInv, ReaderInv, ConfigLandsOnNextRead
  <2> QED
    BY <1>2, <1>3, <2>1 DEF ConfigInv, ReaderInv, ConfigLandsOnNextRead, configVars, reader, store
<1>6. ReaderInv' /\ LatchInv'
  BY <1>2, <1>5 DEF ConfigInv, ReaderInv, LatchInv, configVars, reader, store
<1> QED
  BY <1>4, <1>6 DEF ConfigInv

LEMMA BeginReadConfig ==
  ASSUME ConfigInv, BeginRead, UNCHANGED <<replies, configs, offered>>
  PROVE  ConfigInv'
<1>1. /\ asking' \in {IntervalKeys, RawKeys} /\ since' = version /\ found' = NoValues
      /\ foundIn' = [k \in Keys |-> NotYet] /\ UNCHANGED <<store, complaint, complaints>>
  BY DEF BeginRead
<1>2. StoreInv'
  BY <1>1 DEF ConfigInv, StoreInv, StoreHoldsOneVersion, store
<1>2a. LatchInv'
  BY <1>1 DEF ConfigInv, LatchInv, store, NotYet
<1>3. version \in Nat /\ version' = version
  BY <1>1 DEF ConfigInv, LatchInv, store
<1>4. ConfigLandsOnNextRead'
  BY <1>1 DEF ConfigLandsOnNextRead, Keys
<1>5. asking' # <<"above">> /\ asking' # <<>>
  BY <1>1 DEF IntervalKeys, RawKeys
<1>6. ReaderInv'
  BY <1>1, <1>3, <1>4, <1>5, NoneIsText DEF ReaderInv, NoValues, Keys
<1> QED
  BY <1>2, <1>2a, <1>6 DEF ConfigInv

(* What a lookup finds is in the store now.                                 *)
LEMMA LookupConfig ==
  ASSUME ConfigInv, Lookup, UNCHANGED <<replies, configs, offered>>
  PROVE  ConfigInv'
<1> DEFINE k == Head(asking)
<1>1. /\ asking # <<>> /\ asking' = Tail(asking)
      /\ found' = [found EXCEPT ![k] = values[k]]
      /\ foundIn' = [foundIn EXCEPT ![k] = version]
      /\ complaint' = IF Bad(k, values[k]) THEN {k} ELSE {}
      /\ UNCHANGED <<store, since, speed, complaints>>
  BY DEF Lookup
<1>2. StoreInv'
  BY <1>1 DEF ConfigInv, StoreInv, StoreHoldsOneVersion, store
<1>3. \/ asking = IntervalKeys /\ k = "slow" /\ asking' = <<"fast", "above">>
      \/ asking = <<"fast", "above">> /\ k = "fast" /\ asking' = <<"above">>
      \/ asking = <<"above">> /\ k = "above" /\ asking' = <<>>
      \/ asking = RawKeys /\ k = "raw" /\ asking' = <<>>
  <2>1. asking \in {IntervalKeys, <<"fast", "above">>, <<"above">>, RawKeys}
    BY <1>1 DEF ConfigInv, ReaderInv
  <2>2. CASE asking = IntervalKeys
    BY <1>1, <2>2 DEF IntervalKeys
  <2>3. CASE asking = <<"fast", "above">>
    BY <1>1, <2>3
  <2>4. CASE asking = <<"above">>
    BY <1>1, <2>4
  <2>5. CASE asking = RawKeys
    BY <1>1, <2>5 DEF RawKeys
  <2> QED
    BY <2>1, <2>2, <2>3, <2>4, <2>5
<1>4. k \in Keys
  BY <1>3 DEF Keys
<1>5. /\ configs \in Seq(Configs) /\ version \in 0..Len(configs) /\ version' = version
      /\ configs' = configs /\ values = IF version = 0 THEN NoValues ELSE configs[version]
  BY <1>1 DEF ConfigInv, StoreInv, StoreHoldsOneVersion, store
<1>6. values \in [Keys -> Texts]
  BY <1>5, NoneIsText, ElementOfSeq, LenProperties, ClientAssumption DEF NoValues
<1>7. /\ found' \in [Keys -> Texts] /\ foundIn' \in [Keys -> Nat \cup {NotYet}]
      /\ since' \in 0..version'
  BY <1>1, <1>4, <1>5, <1>6 DEF ConfigInv, ReaderInv
<1>8. /\ foundIn'[k] = version /\ found'[k] = values[k]
      /\ \A j \in Keys \ {k} : foundIn'[j] = foundIn[j] /\ found'[j] = found[j]
  BY <1>1, <1>4 DEF ConfigInv, ReaderInv
<1>9. \A j \in Keys : foundIn'[j] # NotYet =>
        /\ since' <= foundIn'[j] /\ foundIn'[j] <= version'
        /\ found'[j] = IF foundIn'[j] = 0 THEN None ELSE configs'[foundIn'[j]][j]
  <2> SUFFICES ASSUME NEW j \in Keys, foundIn'[j] # NotYet
               PROVE  /\ since' <= foundIn'[j] /\ foundIn'[j] <= version'
                      /\ found'[j] =
                           IF foundIn'[j] = 0 THEN None ELSE configs'[foundIn'[j]][j]
    OBVIOUS
  <2>1. CASE j = k
    BY <1>1, <1>5, <1>7, <1>8, <2>1 DEF NoValues
  <2>2. CASE j # k
    BY <1>1, <1>5, <1>8, <2>2 DEF ConfigInv, ReaderInv, ConfigLandsOnNextRead
  <2> QED
    BY <2>1, <2>2
<1>10. \A j \in Keys : foundIn[j] <= version /\ foundIn[j] \in Int
  BY <1>5 DEF ConfigInv, ReaderInv, ConfigLandsOnNextRead, NotYet
<1>11. /\ "slow" \in Keys /\ "fast" \in Keys /\ "above" \in Keys
       /\ foundIn \in [Keys -> Nat \cup {NotYet}]
       /\ foundIn["above"] # NotYet =>
            foundIn["slow"] <= foundIn["fast"] /\ foundIn["fast"] <= foundIn["above"]
       /\ asking = IntervalKeys => foundIn["slow"] = NotYet
       /\ asking \in {IntervalKeys, <<"fast", "above">>} => foundIn["fast"] = NotYet
       /\ asking # <<>> => foundIn["above"] = NotYet
       /\ asking = <<"above">> => foundIn["slow"] <= foundIn["fast"]
  BY DEF ConfigInv, ReaderInv, ConfigLandsOnNextRead, Keys
<1>12. /\ foundIn'["above"] # NotYet =>
            foundIn'["slow"] <= foundIn'["fast"] /\ foundIn'["fast"] <= foundIn'["above"]
       /\ asking' = IntervalKeys => foundIn'["slow"] = NotYet
       /\ asking' \in {IntervalKeys, <<"fast", "above">>} => foundIn'["fast"] = NotYet
       /\ asking' # <<>> => foundIn'["above"] = NotYet
       /\ asking' = <<"above">> => foundIn'["slow"] <= foundIn'["fast"]
       /\ asking' \in {IntervalKeys, <<"fast", "above">>, <<"above">>, RawKeys, <<>>}
  <2>1. CASE k = "slow"
    BY <1>3, <1>8, <1>10, <1>11, <2>1 DEF IntervalKeys, RawKeys
  <2>2. CASE k = "fast"
    BY <1>3, <1>8, <1>10, <1>11, <2>2 DEF IntervalKeys, RawKeys
  <2>3. CASE k = "above"
    BY <1>3, <1>8, <1>10, <1>11, <2>3 DEF IntervalKeys, RawKeys
  <2>4. CASE k = "raw"
    BY <1>3, <1>8, <1>10, <1>11, <2>4 DEF IntervalKeys, RawKeys
  <2> QED
    BY <1>4, <2>1, <2>2, <2>3, <2>4 DEF Keys
<1>13. ReaderInv'
  BY <1>7, <1>9, <1>12 DEF ReaderInv, ConfigLandsOnNextRead
<1>14. LatchInv'
  <2>1. complaint = {} /\ complaint' \subseteq Keys
    BY <1>1, <1>4 DEF Lookup
  <2>2. \A j \in Keys : foundIn'[j] = version /\ Bad(j, found'[j]) => j \in complaint' \cup warned
    <3> TAKE j \in Keys
    <3>1. CASE j = k
      BY <1>1, <1>8, <3>1
    <3>2. CASE j # k
      BY <1>8, <2>1, <3>2 DEF ConfigInv, LatchInv
    <3> QED
      BY <3>1, <3>2
  <2> QED
    BY <1>1, <2>1, <2>2 DEF ConfigInv, LatchInv, store
<1> QED
  BY <1>2, <1>13, <1>14 DEF ConfigInv

LEMMA WarnConfig ==
  ASSUME ConfigInv, Warn, UNCHANGED <<replies, configs, offered>>
  PROVE  ConfigInv'
<1>1. PICK k \in complaint :
        /\ warned' = warned \cup {k}
        /\ complaints' = [complaints EXCEPT ![k] = @ + (IF k \in warned THEN 0 ELSE 1)]
        /\ complaint' = {}
        /\ UNCHANGED <<version, values, asking, found, foundIn, since, speed>>
  BY DEF Warn
<1>2. StoreInv' /\ ReaderInv'
  BY <1>1 DEF ConfigInv, StoreInv, StoreHoldsOneVersion, ReaderInv, ConfigLandsOnNextRead
<1>3. k \in Keys /\ complaints = [j \in Keys |-> IF j \in warned THEN 1 ELSE 0]
  BY DEF ConfigInv, LatchInv
<1>4. complaints' = [j \in Keys |-> IF j \in warned' THEN 1 ELSE 0]
  BY <1>1, <1>3
<1>5. LatchInv'
  BY <1>1, <1>3, <1>4 DEF ConfigInv, LatchInv
<1> QED
  BY <1>2, <1>5 DEF ConfigInv

LEMMA NextConfig == ConfigInv /\ [Next]_vars => ConfigInv'
<1> SUFFICES ASSUME ConfigInv, [Next]_vars PROVE ConfigInv'
  OBVIOUS
<1> USE DEF ConfigInv
<1>1. ASSUME UNCHANGED <<configVars, configs, offered>>, \A r \in replies' :
        r \in replies \/ r.version \in 0..Len(configs)
      PROVE ConfigInv'
  BY <1>1 DEF StoreInv, StoreHoldsOneVersion, ReaderInv, ConfigLandsOnNextRead, LatchInv,
     configVars, store, reader
<1>2. ASSUME NEW s \in Sends, SendEvent(s) \/ Post(s) \/ CannotPost(s) \/ RequestFails(s)
      PROVE ConfigInv'
  BY <1>1, <1>2 DEF SendEvent, Post, CannotPost, RequestFails, relay
<1>3. ASSUME NEW s \in Sends, Receive(s) PROVE ConfigInv'
  BY <1>3, ReceiveConfig
<1>4. ASSUME NEW q \in requests, LoseRequest(q) PROVE ConfigInv'
  BY <1>1, <1>4 DEF LoseRequest, relay
<1>5. ASSUME NEW q \in requests, RelayHandles(q) PROVE ConfigInv'
  <2>1. Len(configs) \in Nat
    BY LenProperties DEF StoreInv
  <2> QED
    BY <1>1, <1>5, <2>1 DEF RelayHandles
<1>6. CASE NewConfig
  BY <1>6, NewConfigConfig
<1>7. CASE ReadConfig
  BY <1>7, BeginReadConfig, LookupConfig, WarnConfig DEF ReadConfig, Read, relay
<1>8. CASE UNCHANGED vars
  BY <1>1, <1>8 DEF vars, configVars, relay
<1> QED
  BY <1>2, <1>3, <1>4, <1>5, <1>6, <1>7, <1>8 DEF Next

LEMMA ConfigHolds == Spec => []ConfigInv
BY InitConfig, NextConfig, PTL DEF Spec

(* store.go, Apply: replies overtake one another, and whatever their order  *)
(* the store ends up with the newest version that came back.                *)
THEOREM NewestConfigurationWins == Spec => []NewestApplied
<1>1. ConfigInv => NewestApplied
  <2> SUFFICES ASSUME ConfigInv PROVE NewestApplied
    OBVIOUS
  <2>1. offered \subseteq 0..version /\ version \in offered \cup {0} /\ version \in Nat
    BY DEF ConfigInv, StoreInv, LatchInv
  <2>2. CASE offered \subseteq {0}
    BY <2>1, <2>2 DEF NewestApplied, Max0
  <2>3. CASE ~(offered \subseteq {0})
    <3>1. version \in offered /\ \A v \in offered : v <= version
      BY <2>1, <2>3
    <3>2. \A x \in offered : (\A y \in offered : y <= x) => x = version
      BY <2>1, <3>1
    <3> QED
      BY <2>3, <3>1, <3>2 DEF NewestApplied, Max0
  <2> QED
    BY <2>2, <2>3
<1> QED
  BY <1>1, ConfigHolds, PTL

(* store.go, Apply: a configuration is installed whole; no value of an      *)
(* older one survives it.                                                   *)
THEOREM ConfigurationsDoNotMix == Spec => []StoreHoldsOneVersion
<1>1. ConfigInv => StoreHoldsOneVersion
  BY DEF ConfigInv, StoreInv
<1> QED
  BY <1>1, ConfigHolds, PTL

(* machine.go, drivingInterval: no reader finds a configuration older than  *)
(* the one it began with, though each lookup takes the lock anew.           *)
THEOREM ReadersKeepUp == Spec => []ConfigLandsOnNextRead
<1>1. ConfigInv => ConfigLandsOnNextRead
  BY DEF ConfigInv, ReaderInv
<1> QED
  BY <1>1, ConfigHolds, PTL

(* store.go, warn: the latch is taken in a critical section of its own, and *)
(* still a key costs one line at most while a version is installed; a bad   *)
(* value of that version leaves the key with that one line.                 *)
THEOREM OneComplaintPerVersion == Spec => []OneLinePerBadValue
<1>1. ConfigInv => OneLinePerBadValue
  BY DEF ConfigInv, LatchInv, OneLinePerBadValue
<1> QED
  BY <1>1, ConfigHolds, PTL

-----------------------------------------------------------------------------
LEMMA ClampWithin ==
  ASSUME NEW x \in Int, NEW min \in Int, NEW max \in Int, min <= max
  PROVE  Clamp(x, min, max) \in min..max
BY DEF Clamp

LEMMA WrapIsInteger ==
  ASSUME NEW x \in Int
  PROVE  Wrap(x) \in Int
<1>1. Half \in Nat /\ 2 * Half > 0
  BY WidthAssumption DEF MaxTick
<1> QED
  BY <1>1 DEF Wrap

(* remotecfg/store.go, Duration: whatever integer comes, and however its    *)
(* product with a second wraps around, the result is within the bounds.     *)
THEOREM DurationWithinBounds ==
  ASSUME NEW text \in Texts, NEW def \in MinTick..MaxTick
  PROVE  Duration(text, def) \in MinTick..MaxTick
<1>1. text.n \in Int /\ Second \in Int /\ Second > 0
  BY WidthAssumption DEF Texts
<1>2. text.n * Second \in Int
  BY <1>1
<1>3. MinTick \in Int /\ MaxTick \in Int /\ MinTick <= MaxTick
  BY <1>1 DEF MinTick, MaxTick
<1> QED
  BY <1>2, <1>3, ClampWithin, WrapIsInteger DEF Duration

(* The width is felt only where the product leaves it: a number of seconds  *)
(* that a Duration can hold is brought to the nearest bound, as documented. *)
THEOREM DurationIsExact ==
  ASSUME NEW text \in Texts, NEW def, Positive(text), text.n * Second < Half
  PROVE  Duration(text, def) = Clamp(text.n * Second, MinTick, MaxTick)
<1> DEFINE x == text.n * Second
<1>1. x \in Nat /\ Half \in Nat /\ x < Half
  BY WidthAssumption DEF Texts, Positive
<1> HIDE DEF x
<1>2. (x + Half) % (2 * Half) = x + Half
  BY <1>1
<1>3. Wrap(x) = x
  BY <1>1, <1>2 DEF Wrap
<1> QED
  BY <1>3 DEF Duration, x

(* remotecfg/store.go, Float: what comes out is within the bounds or a NaN, *)
(* above which no speed is.                                                 *)
THEOREM FloatWithinBounds ==
  ASSUME NEW text \in Texts, NEW def \in 0..MaxAbove
  PROVE  \/ Float(text, def).kind = "int" /\ Float(text, def).n \in 0..MaxAbove
         \/ \A x \in Int : ~Exceeds(x, Float(text, def))
<1>1. CASE text.kind = "int"
  <2>1. text.n \in Int
    BY WidthAssumption DEF Texts
  <2>2. Clamp(text.n, 0, MaxAbove) \in 0..MaxAbove
    BY <2>1 DEF Clamp, MaxAbove
  <2>3. Float(text, def) = [text EXCEPT !.n = Clamp(text.n, 0, MaxAbove)]
    BY <1>1 DEF Float
  <2>4. /\ Float(text, def).kind = "int"
        /\ Float(text, def).n = Clamp(text.n, 0, MaxAbove)
    BY <1>1, <2>3 DEF Texts
  <2> QED
    BY <2>2, <2>4
<1>2. CASE text.kind # "int"
  BY <1>2 DEF Float, Exceeds
<1> QED
  BY <1>1, <1>2

(* A ticker is never started or reset with an interval outside 5 to 120     *)
(* seconds, whatever mixture of versions a reader finds.                    *)
THEOREM IntervalsAreUsable == Spec => []IntervalIsUsable
<1>1. ConfigInv => IntervalIsUsable
  <2> SUFFICES ASSUME ConfigInv PROVE Interval(found) \in MinTick..MaxTick
    BY DEF IntervalIsUsable
  <2>1. found["slow"] \in Texts /\ found["fast"] \in Texts
    BY DEF ConfigInv, ReaderInv, Keys
  <2> QED
    BY <2>1, DurationWithinBounds, DefaultsAssumption DEF Interval
<1> QED
  BY <1>1, ConfigHolds, PTL
=============================================================================
