----------------------------- MODULE EASMonitor -----------------------------
(***************************************************************************)
(* The unified EAS monitor (app_core/audio/eas_monitor_v3.py): one loop    *)
(* polls every watched audio source, feeds its samples to the source's     *)
(* SAME decoder, parks each decoded ZCZC header until the NNNN end of      *)
(* message (or a timeout), and then forwards the alert with the audio      *)
(* captured since the header.                                              *)
(*                                                                         *)
(* Operator commands start and stop the service from another thread, the   *)
(* set of running sources changes under it, and the alert callback may     *)
(* block its loop for as long as a broadcast lasts.                        *)
(*                                                                         *)
(* Audio is counted in chunks (one chunk_duration_ms read).  What a chunk  *)
(* decodes to is the environment's choice.                                 *)
(***************************************************************************)
EXTENDS Integers, FiniteSets

CONSTANTS
    Sources,       \* names of the audio sources
    Headers,       \* distinct SAME headers that may be received
    EventOf,       \* event code of each header
    Threads,       \* identities for monitor loops (threading.Thread objects)
    EOMTimeout,    \* _eom_timeout_seconds, in clock ticks
    RingMax,       \* _ring_max_samples, in chunks
    Backtrack,     \* _zczc_ring_position's 1.5 s, in chunks
    NarrationMin,  \* shortest capture that yields relay audio, in chunks
    MaxAlerts,     \* bound: headers handled in one behaviour
    MaxSamples,    \* bound: chunks read from one source
    None           \* Python's None, for a missing dictionary entry

ASSUME ConstantsAssumption ==
    /\ EOMTimeout \in Nat \ {0}
    /\ RingMax \in Nat \ {0}
    /\ Backtrack \in Nat
    /\ NarrationMin \in Nat \ {0}
    /\ EventOf \in [Headers -> {EventOf[h] : h \in Headers}]
    /\ MaxAlerts \in Nat
    /\ MaxSamples \in Nat

(* An entry of _pending_alerts.  id tells apart the dictionaries built by  *)
(* successive header decodes; age is now - _pending_since, up to timeout.  *)
Alert == [id : Nat, hdr : Headers, age : 0 .. EOMTimeout]

(* A popped alert on its way to the callback, inside _on_eom_received.     *)
Popped == [id : Nat, src : Sources, anchor : Nat \cup {None},
           why : {"eom", "timeout"}]

(* What the callback was given: the ring positions of the captured audio,  *)
(* the ring total they were computed from, and whether narration for the   *)
(* relay broadcast was attached.                                           *)
Forwarded == [id : Nat, src : Sources, anchor : Nat \cup {None}, seen : Nat,
              from : Int, to : Nat, why : {"eom", "timeout"}, relay : BOOLEAN]

ASSUME NoneAssumption == None \notin Alert \cup Popped \cup Nat \cup Sources

VARIABLES
    serviceRunning,  \* _running
    thread,          \* _thread: the loop that stop() joins, or None
    stopping,        \* stop() is waiting for its join
    live,            \* sources whose adapter status is RUNNING
    watchers,        \* keys of _watchers
    discoveryDue,    \* _discovery_interval has passed since the last discovery
    pending,         \* _pending_alerts
    zczc,            \* _zczc_ring_total
    ringTotal,       \* _ring_total_added
    ringLen,         \* chunks in _audio_rings
    pc,              \* where each monitor loop is
    todo,            \* watchers_snapshot or timed_out entries left to visit
    cur,             \* source whose chunk is being decoded
    back,            \* phase that _on_eom_received returns to
    hand,            \* alert popped by _on_eom_received, not yet forwarded
    total,           \* the ring total a loop last saw under _audio_rings_lock
    renewed,         \* history: sources of a timed_out list that were given a
                     \* header since the list was made
    nextId,          \* identity of the next alert dictionary
    superseded,      \* ids overwritten in _pending_alerts before being forwarded
    forwarded        \* alerts given to alert_callback

serviceVars == <<serviceRunning, thread, stopping>>
sourceVars  == <<live, watchers, discoveryDue>>
parkVars    == <<pending, zczc, nextId, superseded>>
ringVars    == <<ringTotal, ringLen>>
loopVars    == <<pc, todo, cur, back>>
heldVars    == <<hand, total, renewed>>
vars == <<serviceVars, sourceVars, parkVars, ringVars, loopVars, heldVars, forwarded>>

(* In "trim" a loop is inside the critical section of _audio_rings_lock.   *)
Phases == {"off", "top", "poll", "trim", "decode", "sweep", "popped", "slice",
           "callback"}

TypeOK ==
    /\ serviceRunning \in BOOLEAN
    /\ thread \in Threads \cup {None}
    /\ stopping \in BOOLEAN
    /\ live \subseteq Sources
    /\ watchers \subseteq Sources
    /\ discoveryDue \in BOOLEAN
    /\ pending \in [Sources -> Alert \cup {None}]
    /\ zczc \in [Sources -> Nat \cup {None}]
    /\ ringTotal \in [Sources -> Nat]
    /\ ringLen \in [Sources -> Nat]
    /\ pc \in [Threads -> Phases]
    /\ todo \in [Threads -> SUBSET Sources]
    /\ cur \in [Threads -> Sources \cup {None}]
    /\ back \in [Threads -> {"poll", "sweep"}]
    /\ hand \in [Threads -> Popped \cup {None}]
    /\ total \in [Threads -> Nat]
    /\ renewed \in [Threads -> SUBSET Sources]
    /\ nextId \in Nat \ {0}
    /\ superseded \subseteq Nat
    /\ forwarded \subseteq Forwarded

Init ==
    /\ serviceRunning = FALSE
    /\ thread = None
    /\ stopping = FALSE
    /\ live \in SUBSET Sources
    /\ watchers = {}
    /\ discoveryDue = TRUE
    /\ pending = [s \in Sources |-> None]
    /\ zczc = [s \in Sources |-> None]
    /\ ringTotal = [s \in Sources |-> 0]
    /\ ringLen = [s \in Sources |-> 0]
    /\ pc = [t \in Threads |-> "off"]
    /\ todo = [t \in Threads |-> {}]
    /\ cur = [t \in Threads |-> None]
    /\ back = [t \in Threads |-> "poll"]
    /\ hand = [t \in Threads |-> None]
    /\ total = [t \in Threads |-> 0]
    /\ renewed = [t \in Threads |-> {}]
    /\ nextId = 1
    /\ superseded = {}
    /\ forwarded = {}

-----------------------------------------------------------------------------
(* The environment: sources come and go, and time passes.                  *)

SourceChanges(s) ==
    /\ live' = IF s \in live THEN live \ {s} ELSE live \cup {s}
    /\ UNCHANGED <<serviceVars, watchers, discoveryDue, parkVars, ringVars,
                   loopVars, heldVars, forwarded>>

Older(a) == IF a = None \/ a.age = EOMTimeout THEN a ELSE [a EXCEPT !.age = @ + 1]

Tick ==
    /\ discoveryDue' = TRUE
    /\ pending' = [s \in Sources |-> Older(pending[s])]
    /\ UNCHANGED <<serviceVars, live, watchers, zczc, nextId, superseded,
                   ringVars, loopVars, heldVars, forwarded>>

-----------------------------------------------------------------------------
(* The command thread.                                                     *)

(* start(): discovery runs once before the loop's thread is created.       *)
Start(t) ==
    /\ ~serviceRunning /\ ~stopping
    /\ pc[t] = "off"
    /\ serviceRunning' = TRUE
    /\ thread' = t
    /\ watchers' = live
    /\ pc' = [pc EXCEPT ![t] = "top"]
    /\ UNCHANGED <<stopping, live, discoveryDue, parkVars, ringVars, todo, cur,
                   back, heldVars, forwarded>>

Stop ==
    /\ serviceRunning /\ ~stopping
    /\ serviceRunning' = FALSE
    /\ stopping' = TRUE
    /\ UNCHANGED <<thread, sourceVars, parkVars, ringVars, loopVars, heldVars, forwarded>>

(* join(timeout=5.0) gives up only on a loop that sits in the callback.    *)
JoinEnds(t) == pc[t] \in {"off", "callback"}

(* Fault: stop() also clears the pending alerts.                           *)
StopJoined_DropsPending ==
    /\ stopping
    /\ JoinEnds(thread)
    /\ stopping' = FALSE
    /\ watchers' = {}
    /\ pending' = [s \in Sources |-> None]
    /\ zczc' = [s \in Sources |-> None]
    /\ UNCHANGED <<serviceRunning, thread, live, discoveryDue, nextId, superseded,
                   ringVars, loopVars, heldVars, forwarded>>

StopJoined ==
    /\ stopping
    /\ JoinEnds(thread)
    /\ stopping' = FALSE
    /\ watchers' = {}
    /\ UNCHANGED <<serviceRunning, thread, live, discoveryDue, parkVars,
                   ringVars, loopVars, heldVars, forwarded>>

(* add_monitor_for_source and remove_monitor_for_source run a discovery.   *)
CommandDiscovers ==
    /\ ~stopping
    /\ watchers' = live
    /\ UNCHANGED <<serviceVars, live, discoveryDue, parkVars, ringVars,
                   loopVars, heldVars, forwarded>>

-----------------------------------------------------------------------------
(* The monitor loop.                                                       *)

(* while self._running: a due discovery, then the snapshot of watchers.    *)
(* Without watchers the iteration ends here.                               *)
LoopTop(t) ==
    /\ pc[t] = "top"
    /\ serviceRunning
    /\ LET found == IF discoveryDue THEN live ELSE watchers
       IN  /\ watchers' = found
           /\ todo' = [todo EXCEPT ![t] = found]
           /\ pc' = [pc EXCEPT ![t] = IF found = {} THEN "top" ELSE "poll"]
    /\ discoveryDue' = FALSE
    /\ UNCHANGED <<serviceVars, live, parkVars, ringVars, cur, back, heldVars, forwarded>>

LoopExit(t) ==
    /\ pc[t] = "top"
    /\ ~serviceRunning
    /\ pc' = [pc EXCEPT ![t] = "off"]
    /\ UNCHANGED <<serviceVars, sourceVars, parkVars, ringVars, todo, cur, back,
                   heldVars, forwarded>>

(* read_audio returned nothing for this watcher.                           *)
NoAudio(t, s) ==
    /\ pc[t] = "poll" /\ s \in todo[t]
    /\ todo' = [todo EXCEPT ![t] = @ \ {s}]
    /\ UNCHANGED <<serviceVars, sourceVars, parkVars, ringVars, pc, cur, back,
                   heldVars, forwarded>>

(* _audio_rings_lock is held only while a chunk is appended and trimmed.   *)
RingsFree == \A t \in Threads : pc[t] # "trim"

RingTotalRead(t, s) == RingsFree /\ total' = [total EXCEPT ![t] = ringTotal[s]]

(* A chunk goes into the ring, under the lock, before it is decoded.       *)
ReadAudio(t, s) ==
    /\ pc[t] = "poll" /\ s \in todo[t]
    /\ ringTotal[s] < MaxSamples
    /\ RingsFree
    /\ todo' = [todo EXCEPT ![t] = @ \ {s}]
    /\ ringTotal' = [ringTotal EXCEPT ![s] = @ + 1]
    /\ ringLen' = [ringLen EXCEPT ![s] = @ + 1]
    /\ total' = [total EXCEPT ![t] = ringTotal[s] + 1]
    /\ cur' = [cur EXCEPT ![t] = s]
    /\ pc' = [pc EXCEPT ![t] = "trim"]
    /\ UNCHANGED <<serviceVars, sourceVars, parkVars, back, hand, renewed, forwarded>>

(* Still under the lock, an overfull ring drops its oldest chunk.          *)
TrimRing(t) ==
    /\ pc[t] = "trim"
    /\ ringLen' = [ringLen EXCEPT ![cur[t]] = IF @ > RingMax THEN @ - 1 ELSE @]
    /\ pc' = [pc EXCEPT ![t] = "decode"]
    /\ UNCHANGED <<serviceVars, sourceVars, parkVars, ringTotal, todo, cur, back,
                   heldVars, forwarded>>

DecodeDone(t) ==
    /\ cur' = [cur EXCEPT ![t] = None]
    /\ total' = [total EXCEPT ![t] = 0]

DecodeNothing(t) ==
    /\ pc[t] = "decode"
    /\ DecodeDone(t)
    /\ pc' = [pc EXCEPT ![t] = "poll"]
    /\ UNCHANGED <<serviceVars, sourceVars, parkVars, ringVars, todo, back, hand,
                   renewed, forwarded>>

(* Fault: the position of a header near the start is not clamped at zero.  *)
AnchorAt_Unclamped(seen) == seen - Backtrack

(* _zczc_ring_position                                                     *)
AnchorAt(seen) == IF seen < Backtrack THEN 0 ELSE seen - Backtrack

SameEventPending(s, h) ==
    pending[s] # None /\ EventOf[pending[s].hdr] = EventOf[h]

InSweep(t) ==
    \/ pc[t] = "sweep"
    \/ pc[t] \in {"popped", "slice", "callback"} /\ back[t] = "sweep"

(* _handle_alert on a ZCZC header: bursts of the event already pending     *)
(* keep the ring position of the first one.  The ring total was read under *)
(* a lock of its own, after this loop's chunk and maybe before another's.  *)
DecodeHeader(t, h) ==
    /\ pc[t] = "decode"
    /\ nextId <= MaxAlerts
    /\ LET s == cur[t]
       IN  /\ \E seen \in total[t] .. ringTotal[s] :
                 zczc' = IF SameEventPending(s, h) THEN zczc
                         ELSE [zczc EXCEPT ![s] = AnchorAt(seen)]
           /\ pending' = [pending EXCEPT ![s] = [id |-> nextId, hdr |-> h, age |-> 0]]
           /\ superseded' = IF pending[s] = None THEN superseded
                            ELSE superseded \cup {pending[s].id}
           /\ renewed' = [u \in Threads |-> IF InSweep(u) /\ s \in todo[u]
                                             THEN renewed[u] \cup {s} ELSE renewed[u]]
    /\ nextId' = nextId + 1
    /\ DecodeDone(t)
    /\ pc' = [pc EXCEPT ![t] = "poll"]
    /\ UNCHANGED <<serviceVars, sourceVars, ringVars, todo, back, hand, forwarded>>

(* Fault: the alert is read but stays in the dictionary (get, not pop).    *)
PopPending_KeepsAlert(t, s, why, phase) ==
    /\ hand' = IF pending[s] = None THEN hand
               ELSE [hand EXCEPT ![t] = [id |-> pending[s].id, src |-> s,
                                         anchor |-> zczc[s], why |-> why]]
    /\ pc' = [pc EXCEPT ![t] = IF pending[s] = None THEN phase ELSE "popped"]
    /\ back' = IF pending[s] = None THEN back ELSE [back EXCEPT ![t] = phase]
    /\ UNCHANGED <<pending, zczc>>

(* Fault: the anchor stays behind when its alert is popped.                *)
PopPending_KeepsAnchor(t, s, why, phase) ==
    /\ pending' = [pending EXCEPT ![s] = None]
    /\ hand' = IF pending[s] = None THEN hand
               ELSE [hand EXCEPT ![t] = [id |-> pending[s].id, src |-> s,
                                         anchor |-> zczc[s], why |-> why]]
    /\ pc' = [pc EXCEPT ![t] = IF pending[s] = None THEN phase ELSE "popped"]
    /\ back' = IF pending[s] = None THEN back ELSE [back EXCEPT ![t] = phase]
    /\ UNCHANGED zczc

(* _on_eom_received, its first critical section: both entries leave the    *)
(* dictionaries, and without a pending alert there is nothing to do.       *)
PopPending(t, s, why, phase) ==
    /\ pending' = [pending EXCEPT ![s] = None]
    /\ zczc' = [zczc EXCEPT ![s] = None]
    /\ hand' = IF pending[s] = None THEN hand
               ELSE [hand EXCEPT ![t] = [id |-> pending[s].id, src |-> s,
                                         anchor |-> zczc[s], why |-> why]]
    /\ pc' = [pc EXCEPT ![t] = IF pending[s] = None THEN phase ELSE "popped"]
    /\ back' = IF pending[s] = None THEN back ELSE [back EXCEPT ![t] = phase]

DecodeEom(t) ==
    /\ pc[t] = "decode"
    /\ PopPending(t, cur[t], "eom", "poll")
    /\ DecodeDone(t)
    /\ UNCHANGED <<serviceVars, sourceVars, nextId, superseded, ringVars, todo,
                   renewed, forwarded>>

(* _on_eom_received, its second critical section: the ring total is read   *)
(* and a reference to the ring is taken, but not its chunks.               *)
ReadRingTotal(t) ==
    /\ pc[t] = "popped"
    /\ RingTotalRead(t, hand[t].src)
    /\ pc' = [pc EXCEPT ![t] = "slice"]
    /\ UNCHANGED <<serviceVars, sourceVars, parkVars, ringVars, todo, cur, back, hand,
                   renewed, forwarded>>

(* Fault: the whole ring is taken for the recording.                       *)
Captured_WholeRing(h, seen) == ringLen[h.src]

(* How many of the newest chunks in the ring as it is now become the       *)
(* recording: those since the header by the total seen under the lock.     *)
Captured(h, seen) ==
    LET since == seen - h.anchor
    IN  IF h.anchor = None \/ since <= 0 THEN 0
        ELSE IF since < ringLen[h.src] THEN since ELSE ringLen[h.src]

(* The ring is copied without the lock, maybe after another loop appended  *)
(* to it or before that loop trimmed it, and the callback is entered.  The *)
(* tone detector decides whether enough narration is there for the relay.  *)
Forward(t) ==
    /\ pc[t] = "slice"
    /\ LET h == hand[t]
           n == Captured(h, total[t])
           end == ringTotal[h.src]
       IN  \E relay \in BOOLEAN :
               /\ relay => n >= NarrationMin
               /\ forwarded' = forwarded \cup
                      {[id |-> h.id, src |-> h.src, anchor |-> h.anchor,
                        seen |-> total[t], from |-> end - n, to |-> end,
                        why |-> h.why, relay |-> relay]}
    /\ hand' = [hand EXCEPT ![t] = None]
    /\ total' = [total EXCEPT ![t] = 0]
    /\ pc' = [pc EXCEPT ![t] = "callback"]
    /\ UNCHANGED <<serviceVars, sourceVars, parkVars, ringVars, todo, cur, back, renewed>>

(* alert_callback returns or raises; either way the loop goes on.          *)
CallbackReturns(t) ==
    /\ pc[t] = "callback"
    /\ pc' = [pc EXCEPT ![t] = back[t]]
    /\ back' = [back EXCEPT ![t] = "poll"]
    /\ UNCHANGED <<serviceVars, sourceVars, parkVars, ringVars, todo, cur, heldVars,
                   forwarded>>

(* Fault: off by one tick.                                                 *)
TimedOut_Early ==
    {s \in Sources : pending[s] # None /\ pending[s].age >= EOMTimeout - 1}

(* Fault: the sweep visits watched sources only.                           *)
TimedOut_WatchedOnly ==
    {s \in watchers : pending[s] # None /\ pending[s].age = EOMTimeout}

(* Sources whose pending alert has waited for the whole timeout.           *)
TimedOut == {s \in Sources : pending[s] # None /\ pending[s].age = EOMTimeout}

PollDone(t) ==
    /\ pc[t] = "poll" /\ todo[t] = {}
    /\ todo' = [todo EXCEPT ![t] = TimedOut]
    /\ pc' = [pc EXCEPT ![t] = "sweep"]
    /\ UNCHANGED <<serviceVars, sourceVars, parkVars, ringVars, cur, back, heldVars,
                   forwarded>>

SweepOne(t, s) ==
    /\ pc[t] = "sweep" /\ s \in todo[t]
    /\ todo' = [todo EXCEPT ![t] = @ \ {s}]
    /\ PopPending(t, s, "timeout", "sweep")
    /\ UNCHANGED <<serviceVars, sourceVars, nextId, superseded, ringVars, cur,
                   total, renewed, forwarded>>

SweepDone(t) ==
    /\ pc[t] = "sweep" /\ todo[t] = {}
    /\ pc' = [pc EXCEPT ![t] = "top"]
    /\ renewed' = [renewed EXCEPT ![t] = {}]
    /\ UNCHANGED <<serviceVars, sourceVars, parkVars, ringVars, todo, cur, back,
                   hand, total, forwarded>>

Loop(t) ==
    \/ LoopTop(t) \/ LoopExit(t)
    \/ \E s \in Sources : NoAudio(t, s) \/ ReadAudio(t, s) \/ SweepOne(t, s)
    \/ TrimRing(t) \/ DecodeNothing(t) \/ DecodeEom(t)
    \/ \E h \in Headers : DecodeHeader(t, h)
    \/ ReadRingTotal(t) \/ Forward(t) \/ CallbackReturns(t)
    \/ PollDone(t) \/ SweepDone(t)

Next ==
    \/ \E s \in Sources : SourceChanges(s)
    \/ Tick
    \/ \E t \in Threads : Start(t) \/ Loop(t)
    \/ Stop \/ StopJoined \/ CommandDiscovers

(* A started thread keeps running, and the clock advances.                 *)
Fairness == WF_vars(Tick) /\ \A t \in Threads : WF_vars(Loop(t))

Spec == Init /\ [][Next]_vars /\ Fairness

-----------------------------------------------------------------------------
(* Properties.                                                             *)

HandIds == {hand[t].id : t \in {u \in Threads : hand[u] # None}}
PendingIds == {pending[s].id : s \in {r \in Sources : pending[r] # None}}
ForwardedIds == {f.id : f \in forwarded}

(* _pending_alerts and _zczc_ring_total are two dictionaries updated by    *)
(* several branches of _handle_alert and _on_eom_received; they always     *)
(* have the same keys, so no recording is lost to a missing anchor.        *)
AnchorsMatchPending ==
    \A s \in Sources : (pending[s] = None) <=> (zczc[s] = None)

(* Every accepted alert is in exactly one place: waiting at one source,    *)
(* popped by one loop, forwarded, or overwritten - also while a loop that  *)
(* stop() gave up on works beside the one started after it.                *)
Custody ==
    /\ PendingIds \cup HandIds \cup ForwardedIds \cup superseded = 1 .. nextId - 1
    /\ PendingIds \cap HandIds = {}
    /\ PendingIds \cap ForwardedIds = {}
    /\ HandIds \cap ForwardedIds = {}
    /\ superseded \cap (PendingIds \cup HandIds \cup ForwardedIds) = {}
    /\ \A s, r \in Sources :
          pending[s] # None /\ pending[r] # None /\ pending[s].id = pending[r].id
              => s = r
    /\ \A t, u \in Threads :
          hand[t] # None /\ hand[u] # None /\ hand[t].id = hand[u].id => t = u

(* The recording attached to a forwarded alert is audio of its own source  *)
(* from its anchor on, all of it unless the ring no longer holds it.  Its  *)
(* start is late by exactly the chunks that another loop put into the ring *)
(* between the lock that gave the total and the copy, and by no other.     *)
RecordingFollowsHeader ==
    \A f \in forwarded :
        LET late == f.to - f.seen
        IN  /\ 0 <= late /\ f.anchor + late <= f.from /\ f.from <= f.to
            /\ f.from > f.anchor + late => f.to - f.from >= RingMax
            /\ f.to - f.from <= RingMax + 1
            /\ f.relay => f.to - f.from >= NarrationMin

(* The refinement mapping to AlertLifecycle.                               *)
Lifecycle == INSTANCE AlertLifecycle WITH
    Ids <- 1 .. MaxAlerts,
    waiting <- [s \in Sources |-> IF pending[s] = None THEN None ELSE pending[s].id],
    released <- HandIds,
    delivered <- ForwardedIds,
    overwritten <- superseded

(* The monitor implements the life cycle of alerts.                        *)
ImplementsLifecycle == Lifecycle!Spec

(* An alert leaves _pending_alerts only when an end of message was just    *)
(* decoded on its source or its timeout has expired.  The one exception is *)
(* a list of timed-out sources that has outlived the alert it was made     *)
(* for: while its loop was in the callback of an earlier entry, another    *)
(* loop parked a new header at the source.                                 *)
ReleasedOnlyWhenDue ==
    [][\A s \in Sources :
        pending[s] # None /\ pending'[s] = None =>
            \/ pending[s].age = EOMTimeout
            \/ \E t \in Threads : pc[t] = "decode" /\ cur[t] = s
            \/ \E t \in Threads : pc[t] = "sweep" /\ s \in renewed[t]]_vars

(* "If no EOM arrives within _eom_timeout_seconds the alert is forwarded   *)
(* anyway": true as long as the service runs and some source is running,   *)
(* also when the alert's own source is the one that went away.             *)
PendingEventuallyForwarded ==
    <>[](serviceRunning /\ live # {}) =>
        \A s \in Sources : pending[s] # None ~> pending[s] = None

(* The comment on the EOM-gated state says alerts are "never silently      *)
(* dropped": no pending alert is overwritten by a different header.        *)
NeverSilentlyDropped ==
    [][\A s \in Sources :
        pending[s] # None /\ pending'[s] # None => pending'[s].hdr = pending[s].hdr]_vars

(* The class is a "Single-threaded unified EAS monitor service" that       *)
(* monitors all sources in a single thread.                                *)
SingleMonitorThread == Cardinality({t \in Threads : pc[t] # "off"}) <= 1
=============================================================================
