---------------------------- MODULE RelayClient ----------------------------
(***************************************************************************)
(* relay/client.go: SendEvent, with the relay it talks to, and the remote  *)
(* configuration that comes back on the relay's replies.                   *)
(*                                                                         *)
(* Several goroutines send at the same time, one event each.  A request    *)
(* may be lost; it may also reach the relay long after the client gave up  *)
(* on it, and its reply may be lost or come back later than another's.     *)
(* The relay is external, as the comments of the client describe it: it    *)
(* drops an event_id it has processed, it may fail before or after         *)
(* processing, and it puts its current configuration, a version without    *)
(* values, or a body nobody can decode, on any reply.                      *)
(***************************************************************************)
EXTENDS RemoteConfig

CONSTANTS
  Sends,       (* the events sent, one SendEvent each                      *)
  Configs,     (* configurations the relay's operator may set              *)
  MaxVersion   (* bound: configurations the relay goes through             *)

ASSUME ClientAssumption ==
  /\ Configs \subseteq [Keys -> Texts]
  /\ MaxVersion \in Nat

MaxAttempts == 3

Results == {"ok", "refused", "later"}   (* 2xx; 4xx but not 429; any other status *)

VARIABLES
  pc,          (* SendEvent of each event: "idle", "post", "wait", "sent"  *)
               (* or "failed"                                              *)
  eventID,     (* the idempotency key in its body, 0 before it is minted   *)
  minted,      (* event_ids minted so far: no two are equal                *)
  answers,     (* what each attempt met, in order: a result, or "error"    *)
  requests,    (* requests on their way: event, attempt, event_id          *)
  replies,     (* replies to the attempts waited for: event, result,       *)
               (* version of the configuration or 0, whether it lacks its  *)
               (* values                                                   *)
  ids,         (* the relay: event_ids processed                           *)
  processed,   (* the relay: how often each event took effect              *)
  configs,     (* the relay: its configurations, the version is the index  *)
  offered      (* history: the versions readConfig got values of           *)

client == <<pc, eventID, minted, answers>>
relay == <<ids, processed, configs>>
vars == <<store, reader, complaints, client, requests, replies, relay, offered>>

Attempt(s) == Len(answers[s]) + 1

Init ==
  /\ ConfigInit
  /\ pc = [s \in Sends |-> "idle"]
  /\ eventID = [s \in Sends |-> 0]
  /\ minted = 0
  /\ answers = [s \in Sends |-> <<>>]
  /\ requests = {}
  /\ replies = {}
  /\ ids = {}
  /\ processed = [s \in Sends |-> 0]
  /\ configs = <<>>
  /\ offered = {}

-----------------------------------------------------------------------------
(* SendEvent is called: the event_id is minted.                             *)
SendEvent(s) ==
  /\ pc[s] = "idle"
  /\ minted' = minted + 1
  /\ eventID' = [eventID EXCEPT ![s] = minted + 1]
  /\ pc' = [pc EXCEPT ![s] = "post"]
  /\ UNCHANGED <<configVars, answers, requests, replies, relay, offered>>

(* A plausible slip: the body is built inside the retry loop.               *)
PostFreshID(s) ==
  /\ pc[s] = "post"
  /\ minted' = minted + 1
  /\ requests' = requests \cup
       {[event |-> s, attempt |-> Attempt(s), id |-> minted + 1]}
  /\ pc' = [pc EXCEPT ![s] = "wait"]
  /\ UNCHANGED <<configVars, eventID, answers, replies, relay, offered>>

(* The backoff is over and the request goes out, the same body each time.   *)
Post(s) ==
  /\ pc[s] = "post"
  /\ requests' = requests \cup
       {[event |-> s, attempt |-> Attempt(s), id |-> eventID[s]]}
  /\ pc' = [pc EXCEPT ![s] = "wait"]
  /\ UNCHANGED <<configVars, eventID, minted, answers, replies, relay, offered>>

(* The body cannot be marshalled, a float of the payload being NaN or       *)
(* infinite, or the request cannot be made: SendEvent returns that error at *)
(* once.  The URL is the same each time, so it happens first or never.      *)
CannotPost(s) ==
  /\ pc[s] = "post" /\ answers[s] = <<>>
  /\ pc' = [pc EXCEPT ![s] = "failed"]
  /\ UNCHANGED <<configVars, eventID, minted, answers, requests, replies, relay,
                 offered>>

(* A plausible slip: a 4xx counts as delivered.                             *)
AfterQuietRefusal(s, answer) ==
  IF answer \in {"ok", "refused"} THEN "sent"
  ELSE IF Attempt(s) = MaxAttempts THEN "failed" ELSE "post"

(* Where SendEvent goes after an answer: back to the loop, or out of it.    *)
After(s, answer) ==
  IF answer = "ok" THEN "sent"
  ELSE IF answer = "refused" \/ Attempt(s) = MaxAttempts THEN "failed" ELSE "post"

Answered(s, answer) ==
  /\ answers' = [answers EXCEPT ![s] = Append(@, answer)]
  /\ pc' = [pc EXCEPT ![s] = After(s, answer)]

(* A plausible slip: the HTTP client has no timeout.                        *)
RequestFailsUntimed(s) ==
  /\ pc[s] = "wait"
  /\ \A q \in requests : q.event # s
  /\ Answered(s, "error")
  /\ replies' = {r \in replies : r.event # s}
  /\ UNCHANGED <<configVars, eventID, minted, requests, relay, offered>>

(* The request fails, or ten seconds pass: a reply that comes is dropped.   *)
RequestFails(s) ==
  /\ pc[s] = "wait"
  /\ Answered(s, "error")
  /\ replies' = {r \in replies : r.event # s}
  /\ UNCHANGED <<configVars, eventID, minted, requests, relay, offered>>

(* What a reply has to install, if anything.                                *)
Given(r) == IF r.version = 0 \/ r.bare THEN {} ELSE {configs[r.version]}

(* A plausible slip: a body nobody can decode fails the event.              *)
ReceiveStrict(s) ==
  \E r \in replies :
    /\ r.event = s /\ pc[s] = "wait"
    /\ answers' = [answers EXCEPT ![s] = Append(@, r.result)]
    /\ pc' = [pc EXCEPT ![s] = IF r.version = 0 THEN "failed" ELSE After(s, r.result)]
    /\ replies' = replies \ {r}
    /\ offered' = offered \cup {v \in {r.version} : Given(r) # {}}
    /\ Apply(r.version, Given(r))
    /\ UNCHANGED <<reader, eventID, minted, requests, relay>>

(* A reply arrives: readConfig hands its configuration to the store,        *)
(* whatever the status; version 0 is a body without one.                    *)
Receive(s) ==
  \E r \in replies :
    /\ r.event = s /\ pc[s] = "wait"
    /\ Answered(s, r.result)
    /\ replies' = replies \ {r}
    /\ offered' = offered \cup {v \in {r.version} : Given(r) # {}}
    /\ Apply(r.version, Given(r))
    /\ UNCHANGED <<reader, eventID, minted, requests, relay>>

-----------------------------------------------------------------------------
(* The network and the relay.                                               *)
LoseRequest(q) ==
  /\ requests' = requests \ {q}
  /\ UNCHANGED <<configVars, client, replies, relay, offered>>

(* A request reaches the relay, which replies if anybody still waits.  It   *)
(* acknowledges only what it has processed, now or before; it may process   *)
(* an event and fail to say so.                                             *)
RelayHandles(q) ==
  \E result \in Results, v \in {0, Len(configs)}, works, bare \in BOOLEAN :
    /\ bare => v > 0
    /\ result = "ok" => works
    /\ result = "refused" => ~works
    /\ requests' = requests \ {q}
    /\ IF works /\ q.id \notin ids
         THEN /\ ids' = ids \cup {q.id}
              /\ processed' = [processed EXCEPT ![q.event] = @ + 1]
         ELSE UNCHANGED <<ids, processed>>
    /\ replies' =
         IF pc[q.event] = "wait" /\ q.attempt = Attempt(q.event)
           THEN replies \cup
                  {[event |-> q.event, result |-> result, version |-> v, bare |-> bare]}
           ELSE replies
    /\ UNCHANGED <<configVars, client, configs, offered>>

(* The relay's operator changes a value, which bumps the version.           *)
NewConfig ==
  /\ Len(configs) < MaxVersion
  /\ \E config \in Configs : configs' = Append(configs, config)
  /\ UNCHANGED <<configVars, client, requests, replies, ids, processed, offered>>

ReadConfig == Read /\ UNCHANGED <<client, requests, replies, relay, offered>>

Next ==
  \/ \E s \in Sends : \/ SendEvent(s) \/ Post(s) \/ CannotPost(s)
                      \/ RequestFails(s) \/ Receive(s)
  \/ \E q \in requests : LoseRequest(q) \/ RelayHandles(q)
  \/ NewConfig
  \/ ReadConfig

Spec == Init /\ [][Next]_vars

(* Every sleep and every wait of the client ends: the backoff is one or two *)
(* seconds and the HTTP client has a timeout.                               *)
FairSpec ==
  /\ Spec
  /\ \A s \in Sends : /\ WF_vars(Post(s) \/ CannotPost(s))
                       /\ WF_vars(RequestFails(s) \/ Receive(s))

-----------------------------------------------------------------------------
Max0(S) == IF S \subseteq {0} THEN 0 ELSE CHOOSE x \in S : \A y \in S : y <= x

(* models.go, EventPayload.EventID: "a retry after a lost response carries  *)
(* the same id and the relay drops the replay with zero side effects".  An  *)
(* event takes effect once at most, however many attempts reach the relay.  *)
ProcessedAtMostOnce == \A s \in Sends : processed[s] <= 1

(* An event SendEvent reports as sent has taken effect: no other event's    *)
(* event_id made the relay drop it.                                         *)
SentMeansProcessed == \A s \in Sends : pc[s] = "sent" => processed[s] = 1

(* client.go, "Don't retry on client errors (except 429)": anything but a   *)
(* 2xx and such an error is a reason to try again.  SendEvent succeeds on a *)
(* 2xx, be its configuration readable or not; it fails on a refusal, for    *)
(* three reasons to retry, or before its first attempt, and such an event   *)
(* never reaches the relay.                                                 *)
GivesUpOnlyWithCause ==
  \A s \in Sends :
    LET a == answers[s]
        last == IF a = <<>> THEN "none" ELSE a[Len(a)]
    IN  /\ \A i \in 1..(Len(a) - 1) : a[i] \in {"error", "later"}
        /\ pc[s] = "sent" <=> last = "ok"
        /\ (last = "refused" \/ (Len(a) = MaxAttempts /\ last # "ok")) => pc[s] = "failed"
        /\ pc[s] = "failed" => last \in {"none", "refused"} \/ Len(a) = MaxAttempts
        /\ pc[s] = "failed" /\ last = "none" => processed[s] = 0

(* What an event looks like from outside of SendEvent.                      *)
Outcome(s) ==
  [idle |-> "none", post |-> "open", wait |-> "open",
   sent |-> "sent", failed |-> "failed"][pc[s]]

Ingestion(s) ==
  INSTANCE EventIngestion WITH outcome <- Outcome(s), effects <- processed[s]

(* Each event is treated as EventIngestion promises: in its safety part, no *)
(* late, lost or doubled request gives it a second effect, and what         *)
(* SendEvent has reported about it is true and is never taken back.         *)
IngestionIsSafe ==
  /\ \A s \in Sends : Ingestion(s)!Init
  /\ [][\A s \in Sends : Ingestion(s)!Step]_<<pc, processed>>

(* And all of it, \A s \in Sends : Ingestion(s)!Spec written conjunct by     *)
(* conjunct: whatever the relay and the network do, SendEvent also returns. *)
EventsIngestedOnce ==
  /\ IngestionIsSafe
  /\ \A s \in Sends : Ingestion(s)!Fairness

(* store.go, Apply: "a stale body must not be able to undo the newest       *)
(* config".  The store holds the newest version that ever came back,        *)
(* whatever the order of the replies and their status.                      *)
NewestApplied == version = Max0(offered)

(* It holds that version and nothing of another: a key the relay no longer  *)
(* sends falls back to its default.                                         *)
StoreHoldsOneVersion == values = IF version = 0 THEN NoValues ELSE configs[version]

(* machine.go:140, "a config change lands on the next tick": a reader finds *)
(* the version that was there when it began or newer ones.  It may find two *)
(* versions, but then in the order of its lookups.                          *)
ConfigLandsOnNextRead ==
  \A k \in Keys : foundIn[k] # NotYet =>
    /\ since <= foundIn[k] /\ foundIn[k] <= version
    /\ found[k] = IF foundIn[k] = 0 THEN None ELSE configs[foundIn[k]][k]
    /\ k = "above" => foundIn["slow"] <= foundIn["fast"] /\ foundIn["fast"] <= foundIn[k]

(* store.go: "a zero would panic time.NewTicker, a 1s tick would burn the   *)
(* user's ActivityKit budget".  Whatever the relay sends and however the    *)
(* versions mix, the interval is within the bounds.                         *)
IntervalIsUsable == Interval(found) \in MinTick..MaxTick

(* store.go, warned: "a permanently bad value costs one line, not one line  *)
(* per tick".  While a version is installed a key costs one line at most,   *)
(* and one exactly once a bad value of that version has been met, although  *)
(* an Apply may come between a lookup and its complaint.  That one line may *)
(* then be about the older version's value.                                 *)
OneLinePerBadValue ==
  \A k \in Keys :
    /\ complaints[k] <= 1
    /\ foundIn[k] = version /\ Bad(k, found[k]) /\ k \notin complaint => complaints[k] = 1
=============================================================================
