# TLA+ specifications of EAS Station

EAS Station receives emergency alerts (over the air, as SAME headers in audio,
and over the Internet, as CAP), stores them, and relays them on the air. This
directory holds TLA+ models of its concurrent core, TLC configurations that
check them on small instances, and TLAPS proofs of the properties that matter
most, for every value of the constants. Each definition is translated from the
Python source; `PROJECT.json` maps it to the lines it stands for.

## 1. Inventory

EAS Station is a set of services around PostgreSQL (records) and Redis
(commands, leases, shared metrics).

| Component | State | Operations | Hard behaviours | What makes it correct |
|---|---|---|---|---|
| EAS monitor, `app_core/audio/eas_monitor_v3.py` | `_watchers`, `_pending_alerts`, `_zczc_ring_total`, audio rings, `_running`, the loop's thread | `start`, `stop`, `_handle_alert`, `_on_eom_received`, timeout sweep, `add_/remove_monitor_for_source` | restart while the loop is in its callback; end of message against timeout; second header before the first is ended; source that goes away with an alert pending | an accepted alert is in one place, is forwarded once, not before it is due and in the end; its recording starts at its header |
| Audio controller and adapters, `app_core/audio/ingest.py`, `sources.py` | `_sources`, adapter status, restart counters | `add_/remove_/start_/stop_source`, `restart`, capture loop | restarts without the controller's lock; two healers and the operator at once | a source nobody stopped does not stay down; a running source is heard |
| Source watchdog, `eas_monitoring_service.py` | its restart under way | restart of ERROR and of auto-start sources | acts by name after a look at the adapter | as above |
| Command channel, `webapp/admin/audio_ingest.py`, `app_core/audio/redis_commands.py` | the source's row, the channel, answers with a time to live, the command under way | enable, disable, create, change, delete, start, stop; publish, execute, answer, time out | pub/sub keeps nothing for a service that is away; a command may be executed after its caller gave up; row and service are changed one after the other, and some routes change the row only | who was told of success sent a command that was executed; row and service agree in the end, but for what nobody told the service |
| GPIO controller, `app_utils/gpio.py` | pin state, devices, watchdog threads, flash threads and their stop events | `activate`, `deactivate`, watchdog, flash pattern | watchdogs that outlive their activation; flash thread against deactivation; device exceptions | an active relay has a watchdog; a flash thread can be stopped |
| GPIO behavior manager, `app_utils/gpio.py`; `handle_alert`, `app_utils/eas.py` | `_hold_map`, `_flash_threads`, pulse threads | `trigger_incoming_alert`, `start_alert`, `end_alert` | pulses and beacons outlive the alert; two behaviors drive one pin | no hold outlives its alert; a held relay stays on |
| Forwarding and deduplication, `app_core/audio/auto_forward.py`, `eas_monitor.py`, `app_utils/eas.py` | `EASMessage`, `ManualEASActivation` and `ReceivedEASAlert` rows, two Redis keys | duplicate check, build, record, air, file | check and record far apart, in two processes and a third one that asks nobody; queries and commits that fail; processes that die | what is aired twice overlapped in time; what is filed as aired was aired; a failure that was heard is on record |
| Hardware service, `hardware_service.py` | previous values of the two keys, the tower light | one poll per second | reads two keys one after the other and acts on changes | the light shows what the poll saw, and goes green in the end |
| CAP poller, `poller/cap_poller.py` | `CAPAlert` rows, supersession links | fetch, save (insert or update), chain, expire, hand over | two pollers; payloads in any order; a crash between commit and the next step | one payload, the best, per identifier; one airing per row; chains lead to newer products |
| Broadcast queues, `broadcast_queue.py`, `broadcast_adapter.py` | subscriber queues, the adapter's remainder | publish, subscribe, unsubscribe, read | drop-oldest is two calls outside the lock; a queue is inherited under its name | each listener hears samples in order, once, and without gap unless its queue overran |
| Stream injection, `eas_stream_injector.py`, `icecast_output.py`, `ingest.py` | gate, sequence number, queue, buffer, encoder, the write buffer and pipe before it | inject, capture, prebuffer, feed, restart of the encoder | three threads and no lock; two injections at a time; an encoder dies with what it has not read | an alert is heard in order, alone, and whole but for what an encoder took with it |
| Automatic streaming, `auto_streaming.py` | `_streamers`, `_lock`, `_stop_event` | monitor loop, add, remove, start, stop | lock taken twice; a stop that does not wait for the loop; a loop that works from a snapshot of adapters that are replaced meanwhile | a running source is streamed, a stopped one is not |
| SDR service, `sdr_hardware_service.py`, `app_core/radio/drivers.py`, `ring_buffer.py` | `_running`, `_handle`, `_thread`; the ring's two positions | start, stop, capture loop, open, tear down; write, read | a join of 2 s against an open of 10 s; several takers of a ring made for one | a running receiver streams in the end; samples are taken as accepted |
| Worker coordination, `worker_coordinator_redis.py`, `worker_coordinator.py` | the lock key in Redis, two flags, the metrics hash | acquire, renew, write metrics, release | get followed by expire or delete; Redis errors; expiry; death; a join that gives up on the heartbeat | a worker that lost the key soon stops writing |
| Weekly tests, `rwt_scheduler.py`, `routes_rwt_schedule.py` | one row: schedule, last run | check, make, record, fail, save | one scheduler in every worker of the web server; an unchanged status is not written | one test a day |
| Audio ring buffer, `ringbuffer.py`; source manager, `source_manager.py` | - | - | no program of the repository makes a source manager, and nothing else makes the buffer | - |
| Decoders (`eas_decode`, `eas_demod`, `eas_fsk`, `streaming_same_decoder`) | filter and bit state | samples to text | numeric | - |
| Displays, archiver, GPS | drivers and connections | I/O | I/O failures | - |
| Web application, authentication, analytics, notifications, zones, migrations | database rows | requests | ordinary CRUD | - |

How they meet: the capture loop of a source fills its broadcast queue; the
monitor has one watcher per running source and a streamer one subscription,
each with a queue of its own. A decoded header waits for its end of message and
is then handed to the forwarding callback; the CAP poller hands what it
inserted to the same function in another process. Both look for duplicates in
the database, build the message, record it, announce it in Redis, inject it into the
streams and play it, with the relays around the playout; the hardware service
sees nothing of it but the two keys. The web application sends commands
over Redis to the subscriber thread inside the audio service. The hazards,
line by line, are in `PROJECT.json`.

## 2. Plan

Written, in order of importance:

1. `AlertLifecycle`, `EASMonitor`, `EASMonitorProofs`: custody of alerts.
2. `SourceDiscovery`, `SourceDiscoveryProofs`: which sources are heard.
3. `GPIOController`, `GPIOBehavior` (composes the former with the manager and
   the alert's life), `GPIOBehaviorProofs`: what the relays do.
4. `AlertForwarding`, its specification `AlertDelivery`, and
   `AlertForwardingProofs`: what goes on the air, is recorded and filed, and the
   tower light.
5. `CAPPayloads`, `CAPFetch`, `CAPPoller` and their proofs: what the poller
   keeps, saves, links and hands over.
6. `StreamInjection`; `BroadcastQueue` and its specification `LossyStream`;
   `SDRReceiver`; `SampleRing`; `AutoStreaming`; `AudioProofs`: the ways of the audio.
7. `MasterLock` and its specification `MasterElection`, `RwtScheduler`,
   `SourceCommands`, `CoordinationProofs`: what is coordinated through Redis and
   the database.

`MCEASMonitor`, `MCSourceDiscovery`, `MCGPIOBehavior`, `MCOutputs`, `MCServices`
and `MCBroadcasts` hold the instances. The last three explore components that
share no variable in these models side by side in one run: their variable `part`
says which of them moves.

Worth adding, and why it is not there, is in section 7.

## 3. Modules

### EASMonitor (`eas_monitor_v3.py`)

One action per critical section or step of the loop. The correspondence:

| TLA+ | Code |
|---|---|
| `pending`, `zczc` | `_pending_alerts`, `_zczc_ring_total` (absent key = `None`) |
| `ringTotal`, `ringLen` | `_ring_total_added` and the length of `_audio_rings`, in chunks |
| `pc[t]`, `todo`, `cur`, `back` | where loop `t` is, the snapshot or timed-out list it works through, the source being decoded, the phase `_on_eom_received` returns to |
| `hand` | the alert that `_on_eom_received` popped and has not forwarded |
| `total[t]` | the ring total that loop `t` last saw under `_audio_rings_lock` |
| `renewed[t]` | history: sources of the timed-out list that got a header since it was made |
| `serviceRunning`, `thread`, `stopping` | `_running`, `_thread`, a `stop()` waiting in `join` |
| `live` | the sources the controller reports running |
| `superseded`, `forwarded`, ids | history: what became of each alert |

`Start`, `Stop`/`StopJoined`, `CommandDiscovers` are the command thread; all
others are the loop. `JoinEnds` allows the 5 s join to give up only while the
loop is in the callback, the one place where it can be slow (it generates and
plays the broadcast). `start()` after that adds a second loop, because the old one sees
`_running` true again. Time is `Tick`: it ages pending alerts up to `EOMTimeout`
and makes discovery due.

`DecodeHeader` is all of `_handle_alert` for a header, including that bursts of
the same event keep the first burst's anchor and that the pending alert is
overwritten. A chunk is appended and the ring trimmed under `_audio_rings_lock`
(`ReadAudio`, `TrimRing`; `RingsFree` is the lock); the total that a header is anchored at is read
under that lock later, when another loop may have read on, so `DecodeHeader` chooses among the totals since.
`PopPending` is the first critical section of `_on_eom_received`, `ReadRingTotal` the
second, which reads the total and takes a reference to the ring but copies
nothing, and `Forward` the copy without the lock and the rest up to the callback: another loop
may append in between, or be between its append and its trim (`Captured`). The tone detector
(`_find_narration_start`) is a choice, limited by `NarrationMin`: relay audio is
attached only when enough was captured.

Note what the code does at two places a reader may not expect. An iteration without watchers
ends before the timeout sweep (line 840), so a pending alert waits until some
source runs again. And a release by timeout attaches relay audio in the same way
as one by an end of message, although the log message speaks of none.

`AlertLifecycle` is the abstract specification: alerts are accepted, may be
overwritten, released and delivered. `EASMonitor` implements it
(`ImplementsLifecycle`): waiting alerts are those in `pending`, released ones
are in some loop's hand, delivered ones were given to the callback.

### SourceDiscovery (`ingest.py`, `redis_commands.py`, `eas_monitor_v3.py`, `eas_monitoring_service.py`)

| TLA+ | Code |
|---|---|
| `sources` | `AudioIngestController._sources`: name to adapter |
| `status` | `AudioSourceAdapter.status` |
| `watchers` | `_watchers`, with the adapter whose queue each one reads |
| `disc[d]` | a `_discover_sources` call of the monitor loop or of the command thread, in the middle of its walk |
| `cmd` | the command under way: its name and the steps left (`Plan`) |
| `heal[h]` | a restart by the controller's health monitor or the service's watchdog |
| `down`, `halted` | history: sources seen down during a walk; adapters an operator stopped |

The walk over `_sources` takes no lock: `Visit` reads one entry, `Abort` is the
RuntimeError of a dictionary that changed size, and `Apply` the critical section
under `_watchers_lock`. Iteration detects only a change of size, so the model does too.
`start_source`, `stop_source`, `add_source` and
`remove_source` need the controller's lock (`LockFree`); a restart's own stop
and start do not, and the watchdog starts by name. `start()` is two steps
(STARTING, then RUNNING or ERROR), because capture starts in between. Adapters are never
reused: replacing a source takes a new one from `fresh`.

### GPIOController and GPIOBehavior (`gpio.py`, `eas.py`)

`activate`, `deactivate` and the watchdog's body run under the controller's lock
from beginning to end, so each is one step. `watchdogs[p]` counts the sleeping
watchdogs of a pin: nothing cancels them, and any of them ends whatever
activation the pin is in when it wakes (`WatchdogFires` has no clock: it may wake at
any moment). A flash thread tests its stop event before it takes the lock, so
`FlashTests` and `FlashToggles` are separate steps.

`GPIOBehavior` adds the manager and the alert thread. `phase` and `todo` are the
position in `handle_alert` and in the loops of `start_alert` and `end_alert`;
one pin (and behavior) is one step, in the order of the code. `holds` is
`_hold_map`, `waiting`/`pulsing` are pulse threads before and after they
activate, `beacons`/`registered` the flash workers and `_flash_threads`.
`_stop_flash` first lists the workers and then sets their events, so a worker
goes through "clear", "listed", "set". `setup` is the operator's configuration,
chosen once at the start from the constant `Setups`.

### AlertForwarding (`auto_forward.py`, `eas_monitor.py`, `eas.py`, `hardware_service.py`)

| TLA+ | Code |
|---|---|
| `prog[p]` | where the poller's, the monitor's and the web process is: `CheckMessages`, `CheckActivations` (the two duplicate queries), `Build`, `Commit` (the record), `OnAir`, `OffAir`, `File` |
| `row`, `received` | `EASMessage` or `ManualEASActivation` rows, `ReceivedEASAlert` rows and their link |
| `verdict` | `eas_forwarded` with its reason, or the result given to the monitor |
| `active`, `incoming` | the keys `eas:broadcast_active` and `eas:incoming_alert`, with the item that set them |
| `hw`, `light` | the hardware service between its two reads, what the poll before saw, and the light |

An item carries what the code compares: event, codes, and the locations that
the built header ends up with. Any query, commit or Redis call may fail
(`MaxEvents` bounds how often), any process may die, and rows age out of the
15 minutes of the check or are deleted. The web process broadcasts what the
operator or the weekly test generated and never checks for duplicates. `late`
and `blind` are history: what was recorded since the check began, and a query
that failed (the code goes on as if it had found nothing).

Places a reader may not expect: the check compares the alert's own
codes with the stored, filtered locations of earlier ones (`eas.py:837-894`); a
recorded alert that was never aired still counts as a duplicate; a playout that
raises goes through the `finally` that deletes the key, without an `except`, so the alert is
settled as failed although it is on record and was injected (`OffAir`); the two
calls of `set_broadcast_active` can fail separately (`SetsInPart`); a failed Redis
read shows green, although the comment at `hardware_service.py:2519` wants the
light left alone.

`AlertDelivery` is the abstract specification: an alert's outcome is settled
once; only what is unsettled goes on record, only what is on record is heard; a
refused alert and a duplicate are never heard; a failure is settled either before
the record, and then it is never heard, or after the broadcast began; what counts as
forwarded was heard, and only that is linked. `AlertForwarding` implements it
(`ImplementsDelivery`): the record is any row that is not "none", so that
deleting or ageing a row is a stutter; the outcome is `verdict`.

### CAPPayloads, CAPFetch, CAPPoller (`cap_poller.py`)

`CAPPayloads` is what both use: payloads, signatures and `_should_replace_alert`
(`Replaces`). `CAPFetch` reads what the endpoints listed in any order into
`alerts_by_identifier`. `CAPPoller` is everything after it: `Poll`, `Pick`
(what matches), `InsertRow` or, when the identifier exists or another poller
was faster (IntegrityError), `Update`; `Chain` (older products of the VTEC event
are marked superseded), `HandOver` to forwarding, and `SaveFails`, `CrashPoller`. Each
commit is a step, so a crash leaves what was committed: a crash between the
commit (`cap_poller.py:2540`) and the hand-over loses the broadcast, since the
next poll finds the row. The administrator imports, expires, deletes and clears.
Payloads without an identifier are left out, and so are zone-only matches' messages
on a channel that nobody subscribes to. A product that was cleared while it is still listed
is inserted and handed over again, which is why `AiredOncePerRow` counts deletions.

### StreamInjection (`eas_stream_injector.py`, `icecast_output.py`, `ingest.py`)

Three threads without a lock. `ReadLive`/`PublishLive` are the capture loop
before and after its look at the gate; `Bump`, `SetGate`, `Flush`, `Push`,
`OpenGate` one injection; `CheckSeq`, `Take`, `Write` a pass of the feed
loop, with `Prebuffer` before and `RestartEncoder` in between. `line` is the
streamer's subscription, `buffer` its deque, which drops at the other end when full. A
chunk is live or the k-th of an alert. `pipe` is the stdin of the encoder, write
buffer and pipe together: what it holds is heard when the encoder reads it
(`EncoderReads`) and gone when the encoder dies (`EncoderDies`; `spoiled` is history). When the code flushes
its buffer is left open, so after a death a write fails and the chunk stays (`WriteRaises`), or it succeeds
and the chunk is lost (`WriteIsLost`). `upset` is history: the
disturbances after which nothing is promised (a second injection, a full queue,
a streamer that is not feeding, a test signal, which bypasses the gate).

### BroadcastQueue and LossyStream (`broadcast_queue.py`, `broadcast_adapter.py`)

`publish` copies the table of subscribers under the lock (`Begins`) and then
fills queue after queue: `PutNoWait`, and on a full queue `DropOldest` and
`PutAgain`, between which anything may happen. `SubscribeAgain` under a name
in use gives the old queue: that is how a new watcher inherits a backlog.
`Fill` and `Serve` are the adapter's read, with the remainder it keeps. Chunks
are split into samples so that boundaries matter. `LossyStream` says what
listeners are promised: of each publisher, published samples, in order and none
twice. The refinement maps `published` and what adapters gave their readers.

### SDRReceiver and SampleRing (`drivers.py`, `sdr_hardware_service.py`, `ring_buffer.py`)

The command thread goes through `start` (`Start`, `StartOpens`, `Assign`,
`Arm`, `Spawn`) and `stop` (`Stop`, `Join` or `JoinTimesOut`, `TearDown`); a
capture loop tests `_running`, opens a handle if there is none (`LoopOpens`,
`Adopt`) and reads. A handle that nobody refers to is destroyed and closes the
device with it (`Referred`); the device can be opened once at a time. `SampleRing`
is the ring with its copies as steps of their own; the "peek" at
`sdr_hardware_service.py:713` consumes what it sees and so is a read like any other.
`crowded` is history: two producers or two consumers inside at a time,
which the ring is not made for and the code does not exclude.

### AutoStreaming (`auto_streaming.py`)

The monitor loop (`TestOff`, `LookAt`, `MonitorAdds`, `CheckStreamers`, `Wake`)
and the commands that start, stop, add and delete sources or switch the service, under
one non-reentrant lock. In `CheckStreamers` the loop takes the lock and then calls
`remove_source`, which takes it again: it stays there (`"removing"`, no step).
A streamer whose `start` fails is not entered, but keeps its subscription.
Adapters are numbered: `made` says which one a source has, `streams` which one its
streamer serves, and `monitor[m].knows` is the snapshot that a loop works from. A loop may so add a streamer
for an adapter that was replaced meanwhile, and `add_source` for the new one then finds the name taken.
`overtaken` is history: the sources whose adapter a command took out while a streamer or a loop's
work was left for it. The health check (`auto_streaming.py:540`) has no step: a streamer is running until it is
told to stop, and whoever tells it takes it out of the table. The loop in which `main`
adds the first sources to the streams is left out: it runs before any command.
`HolderWaits` and `JammedForGood` say what follows: whoever holds the lock between
two steps waits for it, and then no streamer is ever added or removed again.

### MasterLock and MasterElection, RwtScheduler, SourceCommands

`MasterLock` has each call to Redis as a step: `CheckOwner` then `Extend`,
`ReadOwner` then `DeleteKey`, `WriteMetrics`; `Expire` may come between any two, and
`expiries` (history) counts them. `beat[w][h]` are the heartbeat threads of a process, `heartbeat` the one that it
joins, `stop` the event they share: `JoinHeartbeat` may give up after 10 s on a thread that is in its
round (`gaveUp`, history), and the next `StartHeartbeat` clears the event, so that
the old thread goes on beside the new one. `astray` (history) counts, thread by thread, the metrics written without the key. `MasterElection` is the abstract specification: a
worker becomes master only while the masters are at most as many as the lapses of the key.
It maps the masters to the workers whose `_is_master_worker` is set, the lapses to `expiries`.
`RwtScheduler` separates `Check` from `Make` and `RecordTest`, with failures,
midnight, the operator's requests and changes of the schedule between them; a test
that `trigger_rwt_broadcast` records as a success was generated, not aired. `loaded` is the status in the row
as a thread read it: SQLAlchemy does not write a status that has not changed (`Written`), so
a status that another thread wrote in the meantime stays beside the new day.
`SourceCommands` follows a request of the web application from its change of the row
over publication and execution to its answer or timeout; a service that starts
loads the rows before it listens. `Enable`, `Monitor` and `Disable` are the radio settings, which
own the row (`managed`); `Create` and `Patch` are the routes for sources of any kind, which commit the row and
publish nothing; a deletion is one of an owned row, of another one (`"discard"`) or of none (`"forget"`).
`LoadRows` takes `auto_start` from the receiver, and may fail or give the row another name than the web
application does. `entangled`, `lost` and `untold` are history: two
requests that overlap, a command nobody received, a row made to start without a word to the service.

## 4. Runs

| Run | Instance | Checks |
|---|---|---|
| `single` | 1 loop, 2 sources, 1 header, 2 alerts, 2 chunks per source, timeout of one tick | `TypeOK`, `PendingEventuallyForwarded` |
| `restart` | 2 loops, 1 source, 2 events, 3 alerts, 3 chunks in a ring of 2, a header that goes 1 chunk back, timeout of 2 ticks | `AnchorsMatchPending`, `Custody`, `RecordingFollowsHeader`, `ReleasedOnlyWhenDue`, `ImplementsLifecycle` |
| `dropped` | 1 source, 2 headers of one event | `NeverSilentlyDropped` is violated |
| `threads` | 2 loops, 1 source | `SingleMonitorThread` is violated |
| `walks` | `mode` "walks": 2 sources, 2 adapters, both discoverers and the commands; `mode` "restarts": 1 source, 2 adapters, both healers and the commands | `NeverStranded`, `UpSourcesKeepWatcher`, `WatchersSettle` |
| `deaf` | 1 source, 2 adapters | `RunningSourceHeard` is violated |
| `outputs` | parts: relays (three installations of two pins, two alerts, one device failure, two sleeping watchdogs per pin, two flash threads), stream (2 injections of 2 chunks, queue of 3, buffer of 2, 2 chunks before the encoder) | `TypeOK`, `WatchdogArmed`, `FlashStoppable`, `HoldsEnd`, `HeldPinsStay`, `HeardInOrder`, `OnlyFirstLost`, `OneLiveAmongAlert` |
| `held` | one alert, a pin that is pulsed and held beside one that is held | `RelayHeldThroughout` is violated |
| `flash` | one flashing light | `FlashLeavesPinsOff` is violated |
| `services` | parts: forwarding (one tornado warning by CAP, by air and by the operator; 1 event), poller (2 pollers, a warning and its cancellation, 1 event), commands (2 requests, a clock of two values, 1 event) | `RepeatOnlyIfConcurrent`, `LinkedWasAired`, `LightFollowsPolls`, `AiredOncePerRow`, `ChainGoesForward`, `LinksStay`, `AnsweredWasExecuted`, `ServiceAgrees`, `ImplementsDelivery` |
| `broadcasts` | parts: forwarding (by air and by the operator; 2 events), fetch (8 copies of 2 identifiers), weekly tests (2 schedulers, 1 operator, 2 days), receiver (3 loops), streaming (1 source, 2 loops), queue (2 publishers of 2 chunks of 2 samples, 2 adapters of one name, queue of 2, reads of 3), ring (3 cells, 2 producers, 2 consumers), lock (2 workers of 2 heartbeats, 2 events) | `LightSettles`, `KeepsBest`, `RepeatOnlyIfOverlapped`, `LoopsAccountedFor`, `StreamsInTheEnd`, `RunningSourceStreamed`, `RoomAfterDrop`, `NoGapUnlessOverrun`, `ImplementsLossyStream`, `TakenAsAccepted`, `StaleMetricsOnce`, `RobsOnlyAfterExpiry`, `ImplementsElection` |
| `jammed` | streaming, 1 source, 2 loops | `StoppedSourceDropped` is violated |

What the passing properties say:

* `Custody`: every accepted alert is in exactly one of pending, in a loop's
  hand, forwarded or overwritten; two loops never hold the same one. An alert is neither
  duplicated nor silently gone, also with two loops at work.
* `AnchorsMatchPending`, `RecordingFollowsHeader`: the two dictionaries agree,
  and a recording is audio from its header on. Its start is cut only when the ring dropped it,
  and late only by the chunks that another loop read between the lock and the copy.
* `ReleasedOnlyWhenDue`: whatever the number of loops, an alert is released at its end of message or when its
  time is up. The one exception is a list of timed-out sources, used across slow
  callbacks, at a source where another loop parked a new header meanwhile.
* `PendingEventuallyForwarded`: a pending alert is released in the end, as long
  as the service and some source run.
* `UpSourcesKeepWatcher`, `WatchersSettle`: unlocked walks of two discoverers
  never take the watcher of a source that was up all the time, and watchers
  follow the sources in the end.
* `NeverStranded`: whoever stops an adapter in order to restart it, somebody is still about to
  start it.
* `WatchdogArmed`, `FlashStoppable`, `HoldsEnd`, `HeldPinsStay`: a relay that is
  on will be switched off; unless a device failed, a flash thread that was not told to stop belongs to an
  active pin, whose deactivation stops it, and every active flashing pin has its thread; no hold outlives its
  alert; a relay that only playout holds drive stays on.
* `RepeatOnlyIfConcurrent`: before a checked alert airs, what is on record for the
  same event and places was recorded after its check began. The window
  is the only leak of the duplicate check, beside a query that failed and an upgrade.
* `LinkedWasAired`: a received alert with a message id was aired, and that is over.
* `ImplementsDelivery`: with processes dying, queries failing and the operator resending,
  an alert is settled once, a refused alert or a duplicate is never heard, and a failure only
  if its broadcast had begun and its playout raised.
* `LightFollowsPolls`, `LightSettles`: the light agrees with the last poll, though it
  is told of changes only; once nothing more happens it is green for good,
  whoever died on the air.
* `AiredOncePerRow`, `ChainGoesForward`, `LinksStay`: two pollers hand an alert over
  at most once per insertion; chains go from older to newer rows unless a row came in
  between; a link is not taken back.
* `KeepsBest`: of each identifier one payload is kept, which none replaces,
  whatever the order in which endpoints answered.
* `HeardInOrder`, `OnlyFirstLost`, `OneLiveAmongAlert`: listeners hear an
  alert in order and none of it twice; undisturbed, all but perhaps its first chunk and what was written
  to an encoder that died before it read it, with at most one live chunk in it.
* `ImplementsLossyStream`, `RoomAfterDrop`, `NoGapUnlessOverrun`: order and no repetition for
  every listener, no failed delivery with one publisher, no gap where no queue overran.
* `TakenAsAccepted`: the sample ring gives what it took, once and in order.
* `LoopsAccountedFor`, `StreamsInTheEnd`: no capture loops beside those that a
  stop gave up on; a receiver that runs, on a device that works, streams in the end.
* `RunningSourceStreamed`: unless the lock is stuck, a source that stays up is streamed, and from
  its own adapter unless a command replaced the adapter and overtook a loop. Without that exception
  the property fails: the streamer of the former adapter keeps the place.
* `StaleMetricsOnce`, `RobsOnlyAfterExpiry`: each heartbeat of a worker that lost the key writes its
  metrics at most once more, and there is one heartbeat beside those that a join gave up on; a worker
  deletes another's key only after an expiry.
* `ImplementsElection`: without an expiry there is one master, though workers die, Redis fails
  and a late release takes another's key; with n expiries there are at most n + 1.
* `RepeatOnlyIfOverlapped`: a second weekly test on a day needs two schedulers at
  once, or a failure recorded over the success or kept in its place.
* `AnsweredWasExecuted`, `ServiceAgrees`: no answer for a command that was not executed; when all
  is quiet, nothing was lost and no two requests overlapped, row and service agree, except about a source
  that was created or changed to start by a route that tells the service nothing.

The violated ones are the six entries under "findings" in `PROJECT.json`: a second
header overwrites a pending alert; a restart leaves two loops; an adapter
replaced under its name is not heard; a pulse that ends releases a held relay; a
flash thread leaves its pin on; the streaming service waits for a lock it holds.

Bounds. Two alerts on two sources, or three on one, suffice for an alert to be
overwritten, another forwarded and a third pending at once. A ring of two chunks and three
samples make the ring drop the header's audio, and let another loop append between total and copy;
a header that goes one chunk back leaves older audio in the ring, which a recording must not take. Two loops are enough for every
pairwise race of the dictionaries. Two adapters are enough for one replacement,
two healers are all there are. Two pins make a flashing pair; two watchdogs let a late
one end a second activation. Forwarding has three processes, and so three items, one for
each; two pollers race for one insertion; a queue of three holds the end of one alert
while the next is injected; a clock of two values makes two commands share a
millisecond or not; chunks of two samples and reads of three put the remainder at
every offset; three cells with batches of two wrap and overflow; two chunks before the encoder let one be lost behind one that
is; two workers contend for the key, and two heartbeats are one more than a start makes; three capture
loops are one more than a stop can have given up on before the next start. The events bounded by
`MaxEvents`, `MaxCapEvents`, `MaxUpsets`, `MaxCommandEvents`, `MaxLockEvents`, `MaxRwtEvents`,
`MaxSdrEvents` and `MaxAutoEvents` are failures, deaths and
orders from outside: one or two of each kind meet every step. The proofs need none of these bounds except
where they are parameters of the specification itself (`MaxAlerts`, `MaxSamples`,
`MaxWatchdogs`, ...), and there for every value.

Deadlock is checked for the monitor and the source discovery. The GPIO instances
come to rest when `MaxAlerts` alerts have been handled, and the parts of
`MCServices`, `MCBroadcasts` and `MCOutputs` when their bounded events are used up.

Symmetry: flash thread identities are interchangeable (`FlasherSymmetry`); it is
used in runs without liveness properties only.

## 5. Fairness

`EASMonitor`: weak fairness of each monitor loop (a started thread is scheduled,
and its callback returns) and of `Tick` (time passes). None for the operator,
for sources, or for headers and ends of message: `WF` of the loop as a whole does not force
a choice among what a chunk decodes to, so liveness rests on the timeout alone.

`SourceDiscovery`: weak fairness of the monitor's discovery, of the command
subscriber and of each healer - all are loops of live threads. None for commands
to arrive or captures to fail. `WatchersSettle` has premises of the form
`<>[]`, as a source that keeps changing gives a discovery nothing to settle on.
In the run `walks`, where `mode` keeps two instances apart, liveness is that of
the instance "walks" (`[]<>(mode = "walks")`, which fixes the constant `mode`).

`AlertForwarding`: each process takes the alert it has begun to its end, keys with a
time to live expire, and the hardware service polls every second. A playout ends with its
audio: the player is run without a timeout and is assumed to return. Nobody is bound to accept, send or
fail.

`SDRReceiver`: the command thread and the capture loops go on. `AutoStreaming`: the
loops and the command thread go on when the lock lets them. No order, loss of a device or recovery is fair.

The other modules state no fairness: their properties are safety.

## 6. Proofs

All from the constants' assumptions named in the modules; no theorem depends on
a bound of a run. For each module: `Init => Inv`, `Inv /\ [Next]_vars => Inv'`
with one step per action, and a last temporal step.

* `EASMonitorProofs`. `TInv` is `TypeOK` with the facts typing hides (a decoding
  loop has a source, a popped alert is in hand). `CustodyKept`
  is inductive together with it. `RecordingsCorrect` and `AnchorsCorrect` need `RInv`: the dictionaries have the
  same keys, no anchor is beyond its source's total, the ring holds all
  samples until it is full and one chunk too many only while a loop holds the lock, and a total that a loop
  saw is at most the present one. `ReleaseIsDue` needs `SweepInv`: an alert of a source that is left on a timed-out
  list still has its full age, or is gone, or the source is `renewed`. `Implements` maps each step to a step
  or stutter of `AlertLifecycle`.
* `SourceDiscoveryProofs`. `OwnInv` says that no adapter has two names and none
  has one before it is created; `CmdInv` and `HealInv` relate the commands and
  restarts to the adapters they work on. `RestartInv` strengthens
  `NeverStranded` with the step the restart is at: right after its stop. `WatchersKept` uses
  `WalkInv`: a source that was never down during a walk is running, and recorded
  as found once the walk visited it.
* `GPIOBehaviorProofs`. One lemma, `Operation`, says what an activation or
  deactivation may do to the controller; each action of the manager is at most
  one such operation. `IInv` is `MInv` (types of the manager), `GInv` (the
  controller's invariants) and `HInv`: between `start_alert` and `end_alert`
  only holds of the current alert's kind exist, and those left while releasing
  are still on the list. `HeldPinsHold` needs `KInv` besides: pulse
  threads and beacons keep to the pins that the matrix gives them, and a pin of hold behaviors only is
  active, or still on the list of `start_alert`. `LInv` is about threads and levels: a flash thread not told to
  stop is the one its active pin names, and exactly that one runs (`FlashesStop`); a relay that no flash
  thread drives is on or off as the controller reports it (`RelaysAreAsReported`), which is what the
  finding of run `flash` shows to be false of relays that flash.
* `AlertForwardingProofs`. `FwdInv` says, per process, how far it is with its
  alert (`Stage`), that what its queries did not find was recorded since (`Found`),
  that the web process sends recorded items only (`WebSends`), and how a row, a verdict and a
  received alert agree (`OnFile`). The light is one more conjunct, kept poll by poll. `ForwardingDelivers`
  maps every step to one of `AlertDelivery` or a stutter: a process settles an alert it has not
  recorded (`Stage`), or one it has aired, and a row on record without a verdict is that of a process at work (`OnFile`).
* `CAPPollerProofs`. `PollersInv`: no two pollers hold the same insertion; `AiringInv`:
  the insertion a poller holds has not been handed over; `NewestInv`: the row whose chain is linked
  is the newest, unless one raced it. `CAPFetchProofs` first shows that
  `Replaces` is an order, without which the payload kept would depend on the order of the endpoints;
  `BestAreEqual` adds that payloads between which it does not decide agree in all it compares.
* `CoordinationProofs`. `LockInv`: a heartbeat that wrote without the key is about to find out
  (`Astray`), and those of a process are the one it joins and those it gave up on (`Counted`); a release between its calls owns the key
  unless something lapsed. `LockElects` needs the number of masters: every master but the key's owner is a
  stray, and there are at most as many strays as expiries (`ElectionInv`): a release that takes another's key
  makes its victim a stray, and was itself one until then; `MastersCounted` follows. `RwtInv`: on a day with a success and no overlap the
  row says so and every scheduler rests. For the commands, `ReplyInv` (every answer, and the one
  under way, belongs to an executed command), `CalmInv` (while nothing is entangled at most one
  request changes the source) and `AgreeInv` (what the service will have when it has worked
  off its channel agrees with the row, up to the step the request is at). Proving the typing of the
  commands exposed that `CommandOf` had overlapping cases in an earlier version.
* `AudioProofs`. `OrderInv` orders an alert's chunks along their way: heard, buffer,
  queue, yet to be pushed. `MixInv`: an undisturbed injection is the only one and
  shuts the gate, and one live chunk at most is past it. `LossInv`: until the
  streamer has seen the sequence number its buffer holds no chunk but the first, and every later chunk is on its way,
  in the pipe, heard or spoiled. `RoomInv`: a publisher in
  its second call finds room unless outrun. `StreamInv`, for the
  refinement, orders what was taken, what the queue holds and what is still to be put
  into it, for inherited queues too. `SdrInv`: who may hold a handle, and which loops live.
  `RingInv`: what lies between the two positions is what was accepted and not read,
  a producer inside has its piece where the free cells begin and a consumer where the samples do; arithmetic
  modulo the size is reduced to one subtraction (`LaterIs`). `AutoInv`: a command that removes a source knows what becomes of it.
  `NothingMissing` (`GapInv`) follows the line of samples of each adapter - handed over, kept, still
  in its queue: a queue that never ran full has one reader, the last sample of a publisher on a line is
  the last of its last chunk that was due there, and reading moves samples along the line without
  changing it; the position of a sample in its chunk is settled by lemmas on quotients. `HolderDeadlocked` and
  `StreamsFrozen` are the finding of run `jammed` as theorems: the holder of the lock waits
  for it, and nothing changes a streamer from then on.

Every invariant and every action property of a passing run is proved, for
all values of the constants. `WorkersAssumption`, `SdrAssumption` and the like only
say that sets are finite and sizes natural numbers.

Model-checked only: the liveness properties `PendingEventuallyForwarded`, `WatchersSettle`,
`LightSettles`, `StreamsInTheEnd` and `RunningSourceStreamed` (TLAPS handles neither
liveness under fairness nor `ENABLED`), and that the claims of the six violation runs fail,
which a counterexample settles. The type invariants other than those of the monitor and the relays
are proved and not among the runs' properties.

## 7. Not modelled

* Signal processing, message formatting, audio generation, logging, status
  dictionaries: data the properties do not look at, or out of a model checker's reach. So
  are the tables (`fips_codes.py`, `models.py`), the displays and the
  request handlers that read and render, which make up most of the repository's lines.
* `AudioSourceManager` is made by no program of the repository, and `AudioRingBuffer` only
  by it and its `FFmpegAudioSource`s; the Redis circuit breaker is used by nothing but its own module.
* Late writes of a capture thread that `stop()` gave up on (modelled where the thread
  owns a device, in `SDRReceiver`); monitor start and stop inside `SourceDiscovery`
  (they are in `EASMonitor`). `source_update` always fails in the code (it calls
  a method the controller does not have).
* GPIO: exceptions in the flash cleanup, failure to start a thread, pins without
  hardware, `remove_pin` and `update_behavior_matrix`, operator control from the
  web page, and two controllers over the same pins (one broadcaster per alert builds
  its own). The last would be a composition of two instances of `GPIOController`.
* Forwarding: the audio itself; the relays, which are in `GPIOBehavior`, are not
  composed with it.
* CAP: payloads without an identifier, conversion of feeds, geometry and zones beyond whether they match.
* Commands: the other fields of a source's row, and the operations on all sources at once.
* Streaming: the first sources that `main` adds itself, reconnections to the Icecast server beyond the encoder's restarts, metadata,
  and the queue subscription that a failed `start` leaves behind.
* SDR: drivers other than the common capture loop, demodulation, the publisher's wire format.
* The components marked `not_modelled` in `PROJECT.json`, each with its reason.
