# hedgiemate-notifier in TLA+

The notifier listens to TeslaMate's MQTT topics, finds the moments worth a push
notification (a drive begins, a charge ends, the battery is low), and posts them
to the HedgieMate relay. It runs unattended on the user's machine, in one process
with no storage but a small name cache, and most of what it can get wrong is a
matter of order: topics arrive in any order and on one goroutine each, events wait
for data that may never come, timers race with the messages that cancel them, and
tickers are stopped while their goroutines run.

These modules model that behaviour, TLC checks it on small instances, and TLAPS
proves the safety properties that matter most for every value of the constants.
`PROJECT.json` maps each definition to the lines it models.

## The system

| Component (source) | State | Operations | Correct when | Module |
|---|---|---|---|---|
| Car state machine (`state/machine.go`) | one `CarState` per car: last value of each topic, which topics were seen, latches, tickers, raw map; `connectedAt` | `HandleMessage` per topic, `HandleUnknownMessage`, `MarkConnected`, `Stop` | the events that open and close a session pair up; tickers run exactly during sessions; payloads tell the truth | `CarMachine` |
| Battery alerts (`machine.go:529-567`) | two latches | `checkBatteryThresholds` | one alert per episode, none missed | `BatteryThresholds`, `BatteryAlerts` |
| Event delivery (`machine.go:696-775`) | `pendingEvents`, sleeping `deferredEmit` goroutines | `emit`, `flushPendingIfEnriched`, `deferredEmit` | every detected event is handed over exactly once | `EventDelivery`, implemented by `CarMachine` |
| Event emitter (`state/events.go`) | `timers`, one per car and event type; the timers themselves | `Emit`, `EmitImmediate`, the timer's callback, `Stop` | only repeats are dropped, the newest never | `EventEmitter` |
| Live activity tickers (`machine.go:569-670`) | ticker, stop channel, one goroutine per session | start, stop, a tick | updates come while the session lasts; nothing panics | `LiveActivity` |
| Relay client (`relay/`) | none between calls; in a call the `event_id`, the attempt | `SendEvent`: three attempts, backoff; `readConfig` | an event is not processed twice, nor retried when refused, nor reported sent when it was not | `EventIngestion`, implemented by `RelayClient` |
| Remote configuration (`remotecfg/store.go`, `machine.go:140-177`) | version, values, warn latches | `Apply`, `Duration`, `Float`, `Bool`; `drivingInterval`, `chargingInterval`, `rawEnabled` | the newest version wins; every interval is usable; one complaint per bad value | `ConfigValues`, `RemoteConfig`, used by `RelayClient` |
| Name cache (`state/namecache.go`, `jsonstore.go`, `machine.go:1205`) | `car_names.json` and its temporary file, for all cars | `Load`, `Save`, `cacheCar` | a restart brings every car's names back; a crash harms nothing | `CarNames` |
| MQTT client (`mqtt/`) | the connection and the subscription (in paho) | `Connect`, `onConnect`, `onMessage`, `ParseTopic` | only watched cars' topics of the own namespace get through; a reconnect makes up for what was missed | `MqttTopics`, `CarNames`; its unordered delivery also in `CarMachine` |
| Notification texts (`machine.go:777-1183`) | none, pure | `buildNotification` | each tag points at the argument it means | `Notification`: arguments and tags, not the words |
| Process (`main.go`) | none of its own | start, shutdown | shutdown leaves nothing running | `Restart` and the two `Stop`s |
| Configuration, heartbeat, build | – | – | – | not modelled |

How they interact: paho calls `HandleMessage` on a goroutine per message, and it
takes `Manager.mu` for the whole handler. Under that lock an event is built and given to
the emitter, which takes its own lock, or it is queued and a `deferredEmit` goroutine
sleeps 30 s before it takes `Manager.mu`. The emitter's timer callbacks call the relay
client without any lock, whose responses change the remote configuration; the next
tick of a live activity reads it. Ticker goroutines take `Manager.mu` only to handle a
tick: they evaluate their channels without it.

The hard parts, listed line by line under `hazards` in `PROJECT.json`: flush and
safety nets racing for entries that are bare type names; first values that are not
transitions; a payload built long after its event; a timer that has expired but whose
callback has not yet the lock; goroutines that read the fields of the next session, or
nil; replies that come late, twice or out of order, on a retry or after it; an interval
put together from two configurations; a file rewritten by a process that may die at any
instruction, after a read whose failure looks like an empty file.

## Modules

**CarMachine** is one car. Each handler runs under `Manager.mu`, so each is one action,
`Handle<Topic>`, and any of them may be next. The record `car` has the fields of
`CarState` that control flow or a property reads; `raw` keeps the names of the
recorded fields; `driving` and `liveActivity` say that the ticker exists (for
`driving`, also that `driveStartTime` is set). `pending` counts the entries of
`pendingEvents` per type, since equal entries are the same string. `deferred` counts
the sleeping `deferredEmit` goroutines. `link` is `connectedAt` against
`chargingStartGrace`. `LiveActivityUpdate` is what the tickers' goroutines send: a payload
built from the record as it is, with no message before it. `Dispatch` is `emit` for all events of one handler, then the
flush where the handler ends with one. A parse error is `HandleMalformed`: the topic
is marked as seen, nothing else. `CacheCar` may write, fail to write, or write over an
entry it failed to read. `Restart` is a crash or a shutdown and the next start.
History variables: `raised` and `handed` count events detected and given to the
emitter by this process, `out` holds the payloads of the last step, `found` the
sessions that were open at their topic's first value.

Where the order inside a handler does not show, the module does not keep it.
`drive_started` is built before `startDrivingLiveActivity` and `drive_ended` after the
stop, but both report distance 0 either way: before the start nothing is tracked, at
the start nothing has been driven, and after the stop nothing is tracked. (So the
payload of `drive_ended` never carries a distance, and only the updates of a drive do; no
document promises otherwise.)

**EventDelivery** is the promise behind the queue, for one type of event: two counters,
`Raise`, `Hand` and `Crash`. `CarMachine` implements it, for every type, with
`raised[t]` and `handed[t]` for its counters.

**BatteryThresholds** has the pure decisions of `batteryThresholdEvents`; `CarMachine` uses
them. **BatteryAlerts** runs readings through them and keeps the whole history.

**EventEmitter** numbers the events and their timers. `status[i]` follows the i-th from
`armed` through `expired` (its callback waits for `e.mu`) and `sending` to `sent` or
`failed`, or to `cancelled` when `Timer.Stop` came in time. `timers` is the map. `calledAt` is
history: how many events had been emitted when the callback of each got `e.mu`.

**LiveActivity** is one of the two tickers of a car (the code has the same text twice, for
charges and for drives). A session's goroutine, ticker and stop channel have its number.
A goroutine is at `top`, `half` (the ticker's channel evaluated), `select`, `ticked`
(waiting for `Manager.mu`) or `send`. A tick nobody received is dropped when its ticker
is stopped or reset, as Go has it since 1.23. `setBy` is history: the goroutine that set the
ticker's period last, by its `NewTicker` or a `Reset`.

**RelayClient** is `SendEvent`, for several events at once, with the network and the relay.
`pc`, `eventID` and `answers` are the locals of a call (`Len(answers)` is `attempt`).
A request may be lost, and may reach the relay after the client has given up on it:
`requests` keeps it, and a reply is kept only for an attempt that is still waited for. The relay
is external: it drops an `event_id` it has processed, may process an event and then fail,
and puts any configuration, a version without values, or something that is no JSON, on any
reply. `Receive` is `readConfig` and the status check after it. `CannotPost` stands for the
two errors that end a call before its first attempt: a payload with a NaN or an infinity,
which `ParseFloat` lets in and `json.Marshal` does not let out, and a URL `NewRequest`
cannot parse. The signature is the same for each attempt
and decides nothing here.

**EventIngestion** is what that comes to for one event: it takes effect once at most, the report
that it was sent is true, and a report always comes and stands. `RelayClient` implements it for
every event, with `Outcome(s)`, which is `pc[s]` seen from outside, and `processed[s]` for its
variables. A failed event may take effect yet: the abstract module says so, since the code
cannot know.

**RemoteConfig** is the store, which `RelayClient` extends: `Apply` under the write lock; a reader
(`drivingInterval`, with `chargingInterval` as its twin, or `rawEnabled`) as a sequence of `Lookup`s, each
under the read lock, and a `Warn` of its own under the write lock. All readers hold
`Manager.mu`, so there is one at a time. `foundIn`, `since` and `complaints` (which `Apply` sets
back to 0 with the latches) are history.
**ConfigValues** holds what `Duration`, `Float` and `Bool` make of a text, which is
abstracted to what `strconv` makes of it. `Duration`'s product wraps around as `int64`
does, in a width given by constants.

**MqttTopics** has the pure functions of `mqtt/`: a topic is a sequence of levels. **CarNames** is
the way of `display_name` and `model` from the broker to `CarState`, to the file and back. A message
goes to `inbox`, a set, since paho runs each one in a goroutine; the one that gets
`Manager.mu` is the `handler`, and between its `Load`, its write of the temporary file and its rename
the process may die. Each of the three may fail, silently as in the code; `spoilt` is the
history of what these failures cost. In `CarMachine` the same two handlers are single
actions, since nothing else there can tell.

**Notification** is `buildNotification`: the cases of its switches as data (what a case
needs, the kinds of its arguments, the index given to `rangeArg`), the first case
that fits, the texts as pairs of a number and its unit, and the loop that tags the
battery level. `Shown` is the external relay, which puts a recipient's unit, or the usable
level, in the place a tag points at.

**MCCarMachine**, **MCBatteryAlerts**, **MCRelayClient**, **MCCarNames** and **MCNotification**
give the values and bounds TLC needs. The `...Proofs` modules hold the theorems. Definitions
introduced as plausible slips are variants of the one that follows them, with a mistake the code
might have had; nothing uses them, and putting one in place of the right definition
breaks one of the properties below.

## What TLC checks

| Run | What it shows |
|---|---|
| `BatteryAlerts.cfg` | `LowAlertsExact`, `HighAlertsExact`: the latches fire at exactly the readings that open an episode, an operator on the history without latches |
| `Car.cfg` | `DrivesPair`, `FencesPair`, `PlugsPair`, `ChargesEnd`, `WakesFollowSleeps`: what opens is closed once; `TickerMatchesDriving`, `TickerMatchesCharging`: tickers run exactly during sessions; `DistanceWasDriven`; `RawFollowsFlag`: what goes out with a message has no raw fields while the flag is off, and nothing has more than the cap; `EveryEventAccounted`, `PendingHasTimer`, `TypeOK`, and `DeliversEveryEvent`, the refinement with its liveness |
| `Emitter.cfg` | `NewestIsKept`, `MapHoldsNewest`, `UntrackedByRace`, `TwoTimersByRace`, and `EveryEventSettles` |
| `LiveActivity.cfg` | `ServedWhileActive`, `LandsOnNextTick`, and `UpdatesKeepComing` |
| `RelayConfig.cfg` | `ProcessedAtMostOnce`, `SentMeansProcessed`, `GivesUpOnlyWithCause`, and `EventsIngestedOnce`, the refinement with its liveness (every `SendEvent` returns): what becomes of an event; `NewestApplied`, `ConfigLandsOnNextRead`, `IntervalIsUsable`, `OneLinePerBadValue`: what becomes of a configuration |
| `CarNames.cfg` | `OnlyOwnEntryChanges`, `RestartKeepsNames`: the file; `NamesAreOwn`: the topics; `NamesCatchUp`: the subscription |
| `Notification.cfg` | `RangesInOwnUnit`, `OnlyBatteryReworded`: every tag points at the argument it means, in every template |

Bounds, and why they are enough:

- `BatteryAlerts`: five readings out of seven levels, on both sides of each edge of the
  two deadbands, which overlap, so that one reading may move both latches. An alert, its
  re-arming and the second alert take three readings; five leave two for jitter.
- `Car`: the sessions of a car share only the queue, the battery level and the
  name. The constraint `OneSession` explores one kind of session after another and not
  their product; in each, two events of each type may be raised (a session, its end and
  the next one) and, where there is a ticker, a `Manager.Stop` may come at any time. A raw map
  of two fields meets its cap at the third. The drive's kind keeps to at most one sleep. The raw
  map is explored with the enrichment topics only, since the other handlers record into it in
  the same way. The last kind, `ADeferral`, has two kinds of events that need different data
  (`software_update` also needs the version), two of each, so that equal entries, their
  goroutines and a flush compete; empty names and versions; one restart with the queue full.
  The liveness in this run is not weakened by the constraint: the only action it counts
  on is `DeferredEmit`, which leads out of no kind of session.
- `Emitter`: four events over two keys. The race takes two events and an expiry; four
  allow it twice, and in two keys.
- `LiveActivity`: three sessions, so that a goroutine may be two behind; two cadences,
  to change and to change back.

- `RelayConfig`: two events, all three attempts of each, two versions of the configuration.
  The constraint `OneSubject` explores the two sends with all their retries under one plain
  configuration, with at most two requests on their way, and apart from that a reader with the
  replies to first attempts; the two sides meet only in the store. Besides the plain
  configuration there is one below and above every bound and one whose 410 and 450
  seconds overflow: with ten units to a second and a width of 4096 these come out as
  4 units and as 404, below the floor and between the bounds. A NaN is the threshold.
- `CarNames`: three topics (two cars, and a car of the same number in another namespace), two
  values and the empty one, three values published, two faults. Stale data takes two
  values of one topic, and a wrongly kept entry one failure and one crash. The file may
  begin as a legacy one.
- `Notification`: each fact known or not; the level equal to the charge limit, below it and
  0; a geofence that is named like the level; version and flag texts present or not.

`MaxRaised`, `MaxRestarts`, `MaxEvents`, `MaxReadings`, `MaxSessions`, `MaxVersion`, `MaxPublished` and
`MaxFaults` are bounds of the model; the program has none of them.

Fairness, and why the code gives it: the runtime wakes every `deferredEmit` from its
sleep, and no holder of `Manager.mu` waits for anything but a file
(`WF(DeferredEmit(t))`). A timer expires, its callback gets `e.mu`, and `SendEvent`
returns after at most three requests with a timeout of ten seconds each
(`Expire`, `Callback`, `SendEvent`). A ticker that is not stopped fires, and a goroutine
that can run does (`Tick`, `Goroutine(g)`). In `RelayClient` a backoff ends, and a request ends
by a reply or by the client's timeout (`Post \/ CannotPost`, `RequestFails \/ Receive`); the relay and the
network owe nothing. In `CarNames` goroutines that wait for `Manager.mu` get it, and calls of the
file system return, well or badly (`Begin`, `LoadCars \/ LoadCarsFails`, `Save`); reconnecting is
not fair, and `NamesCatchUp` is about links that stay. Nothing is assumed of the broker, the relay or
the user: no message, no stop and no restart is fair. When several goroutines wait for the
same tick, any of them may get it, for ever; `UpdatesKeepComing` holds because each of
them sends an update for the car.

Deadlock is checked where the model cannot stop (`CarMachine`: messages always come)
and not where a bound or the last event ends it (`BatteryAlerts`, `EventEmitter`, `LiveActivity`,
`RelayClient`, `CarNames`).

## Where the code and its documents part

Each has a run of its own that ends in a counterexample.

- `LivePanic.cfg`, `NoPanic`: a charge (or drive) that ends before its goroutine first
  evaluates `car.liveActivityTicker.C`, or while it sends an update, leaves it a nil
  ticker to dereference: the process panics. The lock is taken too late (`machine.go:580`).
  A nil stop channel is quieter: the goroutine waits for ever. `PanicsOnlyAfterEnd` is proved:
  it takes the end of the session, or `Stop`.
- `CarGarbledBattery.cfg`, `OnTimeEventsKnowBattery`: a `battery_level` that does not parse
  still counts as received (`machine.go:272`, `306`), and events go out with 0 %. `BatteryIsKnown`
  is proved: where `battery_level` always parses this cannot happen, in whatever order topics come.
- `CarRawFlag.cfg`, `RawOffUnlessEnabled`: the raw map outlives the flag until the next message
  (`machine.go:199`), and the tick of a live activity (`machine.go:587`, `639`) sends it after the
  relay has turned the flag off, although `relay/models.go:71` has it "Off unless the relay
  sets data.raw_enabled". A safety net may do the same. `RawFollowsFlag` is proved: nothing else does.
- `CarExitName.cfg`, `ExitNamesFenceLeft`: a `geofence_exited` that was deferred is worded
  from the record of a later time, and may say that the car left the place it is in.
  `PromptExitNamesFence` is proved: an exit that is sent with the move names the right one.
- `EmitterReset.cfg`, `ResetLeavesOneTimer`: a callback deletes the entry of a newer timer
  (`events.go:49`); the next repeat then does not reset it, and both are sent. `TwoTimersByRace` is
  checked and proved: it takes a third event, older than both, whose callback got the lock
  after the one of the two was emitted and before the other.

Seen while reading, without a run: README.md gives the emitter a window of five seconds
(153, 158) and the client three retries (159); the code has one second (`events.go:14`)
and three attempts. README.md:106 says `battery_low` comes once per session; the
latches follow the level instead, as `machine.go:540-543` explains. A drive under way at
connect gets no live updates, since a first value is no transition, while a charge
does: `TickerMatchesDriving` says exactly which drives tick.

Also without a run, each where a property's premise has the case:

- `main` stops the manager before it disconnects from MQTT (`main.go:129-131`), so a message in
  between starts a ticker again, although `machine.go:1284` says "Stop cleans up all live activity
  tickers". The ticker invariants end at `Stop`.
- "A config change lands on the next tick" (`machine.go:140-142`) fails when a goroutine of an
  earlier session has taken a tick. It compares the wanted interval with its own copy, resets
  the shared ticker, and keeps the new value; the session's own goroutine has another copy. For
  instance: a charge begins at the slow interval and ends, its goroutine still at the
  top of its loop; the wanted interval becomes the fast one and the next charge begins
  at it; the wanted interval becomes slow again; the first goroutine takes the tick, finds its
  own copy is slow already, and the ticker stays fast. With a reset by the first in between,
  the second likewise misses a change back. It lasts until a tick is handled by a
  goroutine whose copy differs from the wanted interval. `LandsOnNextTick` is about the
  goroutine that set the period; without that premise TLC finds the instance above.
- A number of seconds that overflows (`store.go:123`) may land anywhere between the bounds
  instead of at the ceiling: the clamp sees the wrapped value. A NaN passes `Float`
  and turns the fast interval off. Both are usable, which is what `IntervalIsUsable` says.
- A complaint about an old version, logged after `Apply`, sets the latch of the new
  one (`store.go:98` has it that "a new config deserves fresh complaints").
  `OneLinePerBadValue` counts the line, and does not ask which version it was about.
- `SendEvent` gives up at once on a payload that cannot be marshalled. A topic that reads
  `NaN` parses as a float (`machine.go:354-372`, `407-415`), and every event is lost
  while the record has it; `GivesUpOnlyWithCause` has the case.
- When two values of a topic wait for `Manager.mu` at once, the older may be handled last and stay
  (`client.go:72`); `NamesCatchUp` excepts them as `crowded`. A name removed while the
  link is down is never heard of, since the broker keeps no empty value.
- A `Load` that fails returns an empty map, and the `Save` after it drops the other cars
  (`jsonstore.go:29`), against `machine.go:1205`, "keeping the other cars". The properties of
  `CarNames` except this as `blind` and `spoilt`.
- Without a namespace of its own the notifier subscribes to `teslamate/cars/#`; a TeslaMate whose
  namespace is `cars` would be parsed as ours (`TopicAssumption` excludes it). A namespace
  of two levels is subscribed to and never parsed.
- A geofence named like the battery's percentage gets the battery's tag, although
  `machine.go:1167` has it that "the first arg equal to `bat` is always the current
  battery". `OnlyBatteryReworded` has it as its premise.

## What TLAPS proves

For every value of the constants, from the `ASSUME`s on them and nothing else:

- `CarMachineProofs`: `EveryEventAccounted` and `PendingHasTimer`, by the invariant
  `AccountInv`, which joins them with the ranges of the counters. They need each other:
  that a `deferredEmit` which finds no entry loses nothing follows from the accounts, and
  that an entry keeps a timer follows from both being counted up together in `Dispatch`.
  One lemma reduces every handler to a `Dispatch`, another says what `Dispatch` does to
  the counters. `ImplementsDelivery` is the safety part of the refinement: initial states
  map to initial states and steps to steps or stutters, type by type. `TypeCorrect` is
  the type invariant. The rest is about payloads, the variable `out`, which every step
  replaces. Two lemmas say for every handler what it sends (`HandlersSend`: payloads built
  from the new record, of events that are ready) and what it may do to the record
  (`HandlersRecord`). From them follow `DistanceWasDriven`, since a distance is formed in one
  place; `RawFollowsFlag`, with `RawBounded` (the map never outgrows the cap) as the invariant
  it needs; `OnTimeEventsReady`, that all but a safety net's events have seen the topics they
  wait for; and `BatteryIsKnown`, which assumes that `battery_level` parses, and needs that
  a level that was seen is then one that was published.
- `CarMachineSessionProofs`: `DrivesPair`, `TickerMatchesDriving`, `WakesFollowSleeps`,
  `TickerMatchesCharging`, `ChargesEnd`, `FencesPair`, `PlugsPair`, by `SessionInv`. None of them is
  inductive alone: a topic not yet seen must still have its initial value and no events
  (else a first value could contradict the counts), and the counters must be numbers.
  Each kind of session has a frame, which is what a step must leave alone to keep its
  conjunct (`StateKept`, `ChargeKept`, `FenceKept`, `PlugKept`); every handler belongs to one kind at
  most and keeps the frames of the others. `PromptExitNamesFence`, an action property, needs
  that only the handler of `geofence` moves the car, and what it sends.
- `BatteryAlertsProofs`: `LowAlertsExact`, `HighAlertsExact`, by `LatchInv`, which says what a
  latch knows of the history: it is set exactly if the last alert level has not been
  followed by a recovered one.
- `EventEmitterProofs`: `NewestIsKept`, `MapHoldsNewest`, `UntrackedByRace`, `TwoTimersByRace`, by
  `EmitterInv`, in which `calledAt` says when each callback had the lock. `NewestIsKept`
  is not inductive: `Emit` cancels what the map holds, so the map must hold the newest
  event of its key and nothing else, and only debounced keys may ever have a timer.
- `LiveActivityProofs`: `ServedWhileActive` and the action properties `LandsOnNextTick` and
  `PanicsOnlyAfterEnd`, by `LiveInv`, which follows the
  current ticker: it is the newest session's, as the stop channel is, that channel is open,
  and the session's own goroutine, once it has evaluated the two, holds these two. That
  older goroutines may hold anything is what makes the invariant worth having. `LandsOnNextTick`
  needs that the goroutine that set the period last still has it as its copy.

- `RelayClientProofs`: `ProcessedAtMostOnce`, `SentMeansProcessed`, `GivesUpOnlyWithCause`, by invariants that
  tie the `event_id`s of events, requests and relay together: two events never have the
  same one, each request carries its event's, and an event has taken effect exactly if the
  relay knows its id; and, for events that could not be posted, nothing of an event is on its way
  or has taken effect before its first attempt. `ImplementsIngestion` is the safety part of the refinement, from the
  same invariant: a late request acts only on an event whose call has begun and that has not
  taken effect, and the end of an attempt is a true report or nothing. `NewestApplied`, `StoreHoldsOneVersion`, `ConfigLandsOnNextRead`, `OneLinePerBadValue`
  need that a configuration never changes once it has a version, and that what a reader
  found was found in order. `IntervalIsUsable` is arithmetic on top of `DurationWithinBounds`,
  for any width that holds the bounds. `DurationIsExact` and `FloatWithinBounds` say what the
  getters return, and that the width shows only where the product leaves it.
- `CarNamesProofs`: `RestartKeepsNames`, by an invariant that follows the handler through
  load, write and rename and says where record and file may differ at each point;
  `OnlyOwnEntryChanges`, for which the temporary file must hold what the handler
  computed whenever a rename is next; `NamesAreOwn`, for any namespace and topics that meet
  `TopicAssumption`, by way of `WantedTopicIsOwn`:
  a topic that passes the subscription and the filter is the car's own. `OwnTopicIsWanted` is
  the converse.
- `NotificationProofs`: `RangesInOwnUnit`, `OnlyBatteryReworded`, by one lemma per list of templates, which
  says that its index and its arguments agree, and the level comes before the limit.

Every safety property that a passing run checks is proved. `OnTimeEventsReady`,
`PromptExitNamesFence`, `PanicsOnlyAfterEnd` and `StoreHoldsOneVersion` are proved and
have no run of their own; TLC found no counterexample to any of them in the models above.

Only model-checked: liveness (`EveryEventSettles`, `UpdatesKeepComing`, `NamesCatchUp`) and the
fairness parts of the two refinements (`DeliversEveryEvent`, `EventsIngestedOnce`), since TLAPS does
not reason about fairness and ENABLED here.

## Plan

In this order; the most important behaviour comes first and is done.

1. Done: `BatteryThresholds`, `BatteryAlerts`, `EventDelivery`, `CarMachine`, `EventEmitter`,
   `LiveActivity`, and their proofs.
2. Done: `ConfigValues`, `RemoteConfig`, `RelayClient`, `MqttTopics`, `CarNames`, `Notification`, and their proofs.
3. Done: the proofs of `FencesPair`, `PlugsPair`, `DistanceWasDriven`, `RawFollowsFlag`; for each
   run that ends in a counterexample, what it takes to get there; `EventIngestion` and its
   refinement.
4. `Notifier`: `CarMachine`'s hand-over composed with `EventEmitter`, `RelayClient` and `main`'s shutdown
   order: what a stop may lose and what may still be sent after it.

## Not modelled

Environment variables and flags (read once); titles, car names and fallback texts of the
notifications, which are words; power failures (the file is not synced; processes die, the
disk does not); HMAC signing; the heartbeat, which shares no state
with the rest; several cars at once, whose machines are independent but for the emitter's
keys (two keys in `EventEmitter`) and the cache file (two cars in `CarNames`). Time is abstract
throughout: a timer may expire at any moment after it was armed, and the grace period may
end at any moment after a connect, which covers every real delay. Data races of the ticker
goroutines are modelled as the choice between the values before and after the
write.

## Running

    tlc -config Car.cfg MCCarMachine.tla
    tlapm CarMachineProofs.tla

The runs of `PROJECT.json` name the module of each configuration. The longest,
`RelayConfig.cfg`, takes under two minutes.
