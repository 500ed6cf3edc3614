---------------------------- MODULE RemoteConfig ----------------------------
(***************************************************************************)
(* remotecfg/store.go: the configuration the relay sends, and its readers  *)
(* in state/machine.go.                                                    *)
(*                                                                         *)
(* Apply runs under the store's lock.  A reader does not: drivingInterval  *)
(* (and chargingInterval, its twin) asks for three keys one after the      *)
(* other, each under a lock of its own, and logs its complaint about a bad *)
(* text under yet another.  All readers hold Manager.mu, so there is only  *)
(* one at a time.                                                          *)
(***************************************************************************)
EXTENDS ConfigValues, Sequences

CONSTANTS
  Speeds,      (* values of CarState.Speed                                 *)
  DefaultSlow, (* the built-in intervals                                   *)
  DefaultFast,
  DefaultAbove (* and threshold                                            *)

ASSUME DefaultsAssumption ==
  /\ DefaultSlow \in MinTick..MaxTick
  /\ DefaultFast \in MinTick..MaxTick
  /\ DefaultAbove \in 0..MaxAbove
  /\ Speeds \subseteq Int

Keys == {"slow", "fast", "above", "raw"}

(* What one reader asks for, in order: drivingInterval, and rawEnabled.     *)
IntervalKeys == <<"slow", "fast", "above">>
RawKeys == <<"raw">>

VARIABLES
  version,     (* Store.version                                            *)
  values,      (* Store.values, None for a key it does not have            *)
  warned,      (* Store.warned                                             *)
  asking,      (* the keys the reader has still to look up                 *)
  complaint,   (* the key it is about to complain about, if any            *)
  found,       (* the text of each key it has looked up                    *)
  foundIn,     (* history: the version each came from, NotYet before       *)
  since,       (* history: the version when the reader began               *)
  speed,       (* the speed the reader decides for                         *)
  complaints   (* history: lines about each key since the last Apply       *)

store == <<version, values, warned>>
reader == <<asking, complaint, found, foundIn, since, speed>>
configVars == <<store, reader, complaints>>

NoValues == [k \in Keys |-> None]
NotYet == -1

ConfigInit ==
  /\ version = 0
  /\ values = NoValues
  /\ warned = {}
  /\ asking = <<>>
  /\ complaint = {}
  /\ found = NoValues
  /\ foundIn = [k \in Keys |-> NotYet]
  /\ since = 0
  /\ speed \in Speeds
  /\ complaints = [k \in Keys |-> 0]

-----------------------------------------------------------------------------
(* The values of a configuration replace the old ones, and its keys deserve *)
(* fresh complaints.  A body may lack the values; given is then empty.      *)
Install(v, given) ==
  /\ version' = v
  /\ values' \in given
  /\ warned' = {}
  /\ complaints' = [k \in Keys |-> 0]

(* A plausible slip: an older version is let in.                            *)
ApplyAny(v, given) ==
  IF v > 0 /\ given # {} /\ v # version
    THEN Install(v, given)
    ELSE UNCHANGED <<store, complaints>>

(* Apply: only a newer version is installed, and one that has values.       *)
Apply(v, given) ==
  IF v > 0 /\ given # {} /\ v > version
    THEN Install(v, given)
    ELSE UNCHANGED <<store, complaints>>

-----------------------------------------------------------------------------
(* A reader begins: a ticker starts or ticks at this speed, or a message    *)
(* asks for the raw flag.                                                   *)
BeginRead ==
  /\ asking = <<>> /\ complaint = {}
  /\ asking' \in {IntervalKeys, RawKeys}
  /\ since' = version
  /\ speed' \in Speeds
  /\ found' = NoValues
  /\ foundIn' = [k \in Keys |-> NotYet]
  /\ UNCHANGED <<store, complaint, complaints>>

Bad(k, text) ==
  \/ k \in {"slow", "fast"} /\ BadDuration(text)
  \/ k = "above" /\ BadFloat(text)
  \/ k = "raw" /\ BadBool(text)

(* lookup, under the read lock.                                             *)
Lookup ==
  LET k == Head(asking)
  IN  /\ asking # <<>> /\ complaint = {}
      /\ asking' = Tail(asking)
      /\ found' = [found EXCEPT ![k] = values[k]]
      /\ foundIn' = [foundIn EXCEPT ![k] = version]
      /\ complaint' = IF Bad(k, values[k]) THEN {k} ELSE {}
      /\ UNCHANGED <<store, since, speed, complaints>>

(* A plausible slip: the latch is looked at and not set.                    *)
WarnUnlatched ==
  \E k \in complaint :
    /\ complaints' = [complaints EXCEPT ![k] = @ + (IF k \in warned THEN 0 ELSE 1)]
    /\ complaint' = {}
    /\ UNCHANGED <<store, asking, found, foundIn, since, speed>>

(* warn, under the lock again: a key is complained about once, until Apply. *)
Warn ==
  \E k \in complaint :
    /\ warned' = warned \cup {k}
    /\ complaints' = [complaints EXCEPT ![k] = @ + (IF k \in warned THEN 0 ELSE 1)]
    /\ complaint' = {}
    /\ UNCHANGED <<version, values, asking, found, foundIn, since, speed>>

Read == BeginRead \/ Lookup \/ Warn

-----------------------------------------------------------------------------
(* drivingInterval of these texts.                                          *)
Interval(texts) ==
  IF Exceeds(speed, Float(texts["above"], DefaultAbove))
    THEN Duration(texts["fast"], DefaultFast)
    ELSE Duration(texts["slow"], DefaultSlow)

ConfigTypeOK ==
  /\ version \in Nat
  /\ values \in [Keys -> Texts]
  /\ warned \subseteq Keys
  /\ asking \in Seq(Keys)
  /\ complaint \subseteq Keys
  /\ found \in [Keys -> Texts]
  /\ foundIn \in [Keys -> Nat \cup {NotYet}]
  /\ since \in Nat
  /\ speed \in Speeds
  /\ complaints \in [Keys -> Nat]
=============================================================================
