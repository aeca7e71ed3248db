---------------------------- MODULE AutoStreaming ----------------------------
(***************************************************************************)
(* The Icecast streams of the sources (app_core/audio/auto_streaming.py):  *)
(* a monitor loop gives every running source a streamer and takes it from  *)
(* those that stopped; the commands to the audio service start, stop, add  *)
(* and delete sources and switch the service off and on again. A source    *)
(* that is added again gets a new adapter under its old name, while a loop *)
(* may still have the former one in hand; adapters are numbered. One lock, *)
(* which is not reentrant, guards the table of streamers. A streamer's     *)
(* own reconnections are in StreamInjection; the streams of the EAS        *)
(* decoders' input are never made, since the service is created without    *)
(* the application that says whether they are wanted.                      *)
(***************************************************************************)
EXTENDS Naturals

CONSTANTS
    Stations,        \* sources
    Monitors,        \* threads that run the monitor loop
    MaxAutoEvents    \* bound: commands, failing sources and failing starts

ASSUME AutoAssumption == MaxAutoEvents \in Nat

NoThread == "no thread"
NoStation == "no station"

VARIABLES
    station,    \* each source of the controller
    made,       \* adapters made for it so far: its adapter is the last one
    streams,    \* _streamers: the adapter that each one serves
    off,        \* _stop_event
    holder,     \* who holds _lock
    monitor,    \* where each monitor loop is, the adapters it knows of, the
                \* sources it has yet to look at, the one it adds
    order,      \* where the command is, its source, what becomes of it
    overtaken,  \* history: see Overtakes
    autoEvents   \* how many so far

autoVars == <<station, made, streams, off, holder, monitor, order, overtaken, autoEvents>>

State == {"absent", "down", "up"}
NoAdapter == 0
Off == [at |-> "off", knows |-> [s \in Stations |-> NoAdapter], todo |-> {}, adds |-> NoStation]
NoOrder == [at |-> "idle", of |-> NoStation, then |-> NoStation]

AutoTypeOK ==
    /\ station \in [Stations -> State]
    /\ made \in [Stations -> Nat]
    /\ streams \in [Stations -> Nat]
    /\ off \in BOOLEAN
    /\ holder \in Monitors \cup {NoThread}
    /\ monitor \in [Monitors ->
         [at : {"off", "testing", "discovering", "adding", "checking", "removing", "sleeping"},
          knows : [Stations -> Nat], todo : SUBSET Stations, adds : Stations \cup {NoStation}]]
    /\ order \in [at : {"idle", "adding", "removing", "applying", "making", "clearing", "joining"},
                  of : Stations \cup {NoStation}, then : {"down", "absent", "new"} \cup {NoStation}]
    /\ overtaken \subseteq Stations
    /\ autoEvents \in 0 .. MaxAutoEvents

AutoInit ==
    /\ station \in [Stations -> {"absent", "up"}]
    /\ made = [s \in Stations |-> IF station[s] = "absent" THEN 0 ELSE 1]
    /\ streams = [s \in Stations |-> NoAdapter]
    /\ off = TRUE
    /\ holder = NoThread
    /\ monitor = [m \in Monitors |-> Off]
    /\ order = NoOrder
    /\ overtaken = {}
    /\ autoEvents = 0

AutoHappens == autoEvents < MaxAutoEvents /\ autoEvents' = autoEvents + 1
LockIsFree == holder = NoThread
MonitorAt(m, place) == monitor[m].at = place
MonitorTo(m, place) == monitor' = [monitor EXCEPT ![m].at = place]

(* add_source under the lock: nothing if there is a streamer already, of   *)
(* whatever adapter; encoder and feeder may fail to start, and then there  *)
(* is none.                                                                *)
AddStreamer(s, adapter) ==
    IF streams[s] # NoAdapter THEN UNCHANGED <<streams, autoEvents>>
    ELSE \/ streams' = [streams EXCEPT ![s] = adapter] /\ UNCHANGED autoEvents
         \/ AutoHappens /\ UNCHANGED streams

(* The adapter of the source in the controller, if any. Another one was    *)
(* stopped when it was taken out, but the controller's own monitor may     *)
(* have been restarting it: then it runs on.                               *)
Adapter(s) == IF station[s] = "absent" THEN NoAdapter ELSE made[s]
MayRun(s, adapter, runs) == adapter = Adapter(s) => runs = (station[s] = "up")

-----------------------------------------------------------------------------
(* The monitor loop.                                                       *)

TestOff_Fault(m) ==
    /\ MonitorAt(m, "testing")
    /\ monitor' = [monitor EXCEPT ![m] =
          IF off THEN Off
          ELSE [at |-> "discovering", knows |-> [s \in Stations |-> Adapter(s)],
                todo |-> {s \in Stations : Adapter(s) \notin {NoAdapter, monitor[m].knows[s]}},
                adds |-> NoStation]]
    /\ UNCHANGED <<station, made, streams, off, holder, order, overtaken, autoEvents>>

TestOff(m) ==
    /\ MonitorAt(m, "testing")
    /\ monitor' = [monitor EXCEPT ![m] =
          IF off THEN Off
          ELSE [at |-> "discovering", knows |-> [s \in Stations |-> Adapter(s)],
                todo |-> {s \in Stations : Adapter(s) # NoAdapter}, adds |-> NoStation]]
    /\ UNCHANGED <<station, made, streams, off, holder, order, overtaken, autoEvents>>

(* A source without a streamer whose adapter runs gets one; add_source     *)
(* first waits for a stream's sample rate, up to five seconds, without the *)
(* lock.                                                                   *)
LookAt(m) ==
    /\ MonitorAt(m, "discovering") /\ LockIsFree
    /\ \E s \in monitor[m].todo, runs \in BOOLEAN :
         /\ MayRun(s, monitor[m].knows[s], runs)
         /\ LET adds == streams[s] = NoAdapter /\ runs IN
              monitor' = [monitor EXCEPT ![m].todo = @ \ {s},
                 ![m].at = IF adds THEN "adding" ELSE "discovering",
                 ![m].adds = IF adds THEN s ELSE NoStation]
    /\ UNCHANGED <<station, made, streams, off, holder, order, overtaken, autoEvents>>

MonitorAdds(m) ==
    /\ MonitorAt(m, "adding") /\ LockIsFree
    /\ AddStreamer(monitor[m].adds, monitor[m].knows[monitor[m].adds])
    /\ monitor' = [monitor EXCEPT ![m].at = "discovering", ![m].adds = NoStation]
    /\ UNCHANGED <<station, made, off, holder, order, overtaken>>

Discovered(m) ==
    /\ MonitorAt(m, "discovering") /\ monitor[m].todo = {}
    /\ MonitorTo(m, "checking")
    /\ UNCHANGED <<station, made, streams, off, holder, order, overtaken, autoEvents>>

(* The health check has nothing to remove: a streamer is running until it  *)
(* is told to stop, and whoever tells it takes it out of the table too.    *)
(* Holding the lock, the loop then calls remove_source, which takes it     *)
(* again, for a streamer whose source it does not know of or whose adapter *)
(* it knows does not run: the call never returns, and the lock is never    *)
(* free again.                                                             *)
LeftOver(m, s) ==
    /\ streams[s] # NoAdapter
    /\ monitor[m].knows[s] = NoAdapter \/ MayRun(s, monitor[m].knows[s], FALSE)

InUse(m, s) == monitor[m].knows[s] # NoAdapter /\ MayRun(s, monitor[m].knows[s], TRUE)

CheckStreamers(m) ==
    /\ MonitorAt(m, "checking") /\ LockIsFree
    /\ \/ /\ \A s \in Stations : streams[s] # NoAdapter => InUse(m, s)
          /\ MonitorTo(m, "sleeping") /\ UNCHANGED holder
       \/ /\ \E s \in Stations : LeftOver(m, s)
          /\ MonitorTo(m, "removing") /\ holder' = m
    /\ UNCHANGED <<station, made, streams, off, order, overtaken, autoEvents>>

Wake(m) ==
    /\ MonitorAt(m, "sleeping")
    /\ MonitorTo(m, "testing")
    /\ UNCHANGED <<station, made, streams, off, holder, order, overtaken, autoEvents>>

-----------------------------------------------------------------------------
(* The commands (redis_commands.py), one at a time.                        *)

Order(place, s, then) ==
    /\ order.at = "idle" /\ AutoHappens
    /\ order' = [at |-> place, of |-> s, then |-> then]

(* A source that runs already is not started, nor streamed.                *)
SourceStart(s) ==
    /\ station[s] = "down"
    /\ station' = [station EXCEPT ![s] = "up"]
    /\ Order("adding", s, NoStation)
    /\ UNCHANGED <<made, streams, off, holder, monitor, overtaken>>

OrderAdds ==
    /\ order.at = "adding" /\ LockIsFree
    /\ AddStreamer(order.of, Adapter(order.of))
    /\ order' = NoOrder
    /\ UNCHANGED <<station, made, off, holder, monitor, overtaken>>

SourceStop(s) ==
    /\ station[s] # "absent"
    /\ Order("removing", s, "down")
    /\ UNCHANGED <<station, made, streams, off, holder, monitor, overtaken>>

SourceDelete(s) ==
    /\ station[s] # "absent"
    /\ Order("removing", s, "absent")
    /\ UNCHANGED <<station, made, streams, off, holder, monitor, overtaken>>

SourceAdd(s) ==
    /\ Order(IF station[s] = "absent" THEN "making" ELSE "removing", s, "new")
    /\ UNCHANGED <<station, made, streams, off, holder, monitor, overtaken>>

OrderRemoves ==
    /\ order.at = "removing" /\ LockIsFree
    /\ streams' = [streams EXCEPT ![order.of] = NoAdapter]
    /\ order' = [order EXCEPT !.at = "applying"]
    /\ UNCHANGED <<station, made, off, holder, monitor, overtaken, autoEvents>>

StopsAdapter ==
    /\ order.at = "applying" /\ order.then = "down"
    /\ station' = [station EXCEPT ![order.of] = "down"]
    /\ order' = NoOrder
    /\ UNCHANGED <<made, streams, off, holder, monitor, overtaken, autoEvents>>

(* A command overtakes a loop when it takes an adapter out that has got a  *)
(* streamer since, or that the loop has yet to look at or to add.          *)
Overtakes(s) ==
    \/ streams[s] # NoAdapter
    \/ \E m \in Monitors : s \in monitor[m].todo \/ monitor[m].adds = s

TakesOut ==
    /\ order.at = "applying" /\ order.then \in {"absent", "new"}
    /\ station' = [station EXCEPT ![order.of] = "absent"]
    /\ order' = IF order.then = "new" THEN [order EXCEPT !.at = "making"] ELSE NoOrder
    /\ overtaken' = IF Overtakes(order.of) THEN overtaken \cup {order.of} ELSE overtaken
    /\ UNCHANGED <<made, streams, off, holder, monitor, autoEvents>>

Makes ==
    /\ order.at = "making"
    /\ station' = [station EXCEPT ![order.of] = "down"]
    /\ made' = [made EXCEPT ![order.of] = @ + 1]
    /\ order' = NoOrder
    /\ UNCHANGED <<streams, off, holder, monitor, overtaken, autoEvents>>

(* start does not ask whether a loop is running; stop waits five seconds   *)
(* for it, which sleeps for ten.                                           *)
StreamingStart ==
    /\ order.at = "idle" /\ AutoHappens
    /\ off' = FALSE
    /\ \E m \in Monitors : MonitorAt(m, "off") /\ MonitorTo(m, "testing")
    /\ UNCHANGED <<station, made, streams, holder, order, overtaken>>

StreamingStop ==
    /\ off' = TRUE
    /\ Order("clearing", NoStation, NoStation)
    /\ UNCHANGED <<station, made, streams, holder, monitor, overtaken>>

ClearStreamers ==
    /\ order.at = "clearing" /\ LockIsFree
    /\ streams' = [s \in Stations |-> NoAdapter]
    /\ order' = [order EXCEPT !.at = "joining"]
    /\ UNCHANGED <<station, made, off, holder, monitor, overtaken, autoEvents>>

JoinEnds ==
    /\ order.at = "joining"
    /\ order' = NoOrder
    /\ UNCHANGED <<station, made, streams, off, holder, monitor, overtaken, autoEvents>>

(* A source fails or loses its stream, and is restarted or reconnects.     *)
StationFails(s) ==
    /\ station[s] = "up" /\ AutoHappens
    /\ station' = [station EXCEPT ![s] = "down"]
    /\ UNCHANGED <<made, streams, off, holder, monitor, order, overtaken>>

StationRecovers(s) ==
    /\ station[s] = "down"
    /\ station' = [station EXCEPT ![s] = "up"]
    /\ UNCHANGED <<made, streams, off, holder, monitor, order, overtaken, autoEvents>>

-----------------------------------------------------------------------------
MonitorStep(m) ==
    \/ TestOff(m) \/ LookAt(m) \/ MonitorAdds(m) \/ Discovered(m)
    \/ CheckStreamers(m) \/ Wake(m)
OrderStep ==
    \/ OrderAdds \/ OrderRemoves \/ StopsAdapter \/ TakesOut \/ Makes
    \/ ClearStreamers \/ JoinEnds

AutoNext ==
    \/ \E m \in Monitors : MonitorStep(m)
    \/ OrderStep \/ StreamingStart \/ StreamingStop
    \/ \E s \in Stations : \/ SourceStart(s) \/ SourceStop(s) \/ SourceDelete(s) \/ SourceAdd(s)
                           \/ StationFails(s) \/ StationRecovers(s)

(* The loops and the command thread go on whenever the lock lets them.     *)
AutoFairness == (\A m \in Monitors : WF_autoVars(MonitorStep(m))) /\ WF_autoVars(OrderStep)

AutoSpec == AutoInit /\ [][AutoNext]_autoVars /\ AutoFairness

-----------------------------------------------------------------------------
(* "Auto-stop streaming when audio source stops" (auto_streaming.py:30): a *)
(* source that stays down, while the service stays on, is in the end not   *)
(* streamed any more. The code violates it: remove_source waits for the    *)
(* lock that its caller, the monitor loop, holds (auto_streaming.py:561).  *)
StoppedSourceDropped ==
    \A s \in Stations :
        <>[](~off /\ station[s] = "down") => <>[](streams[s] = NoAdapter)

(* Why that is so: whoever holds the lock between two steps is a loop that *)
(* waits for this very lock (auto_streaming.py:561, :233) ...              *)
HolderWaits == holder # NoThread => MonitorAt(holder, "removing")

(* ... and from then on the lock is never free and no streamer is added,   *)
(* removed or replaced, whatever loops, commands and sources do.           *)
JammedForGood == [][holder # NoThread => UNCHANGED <<holder, streams>>]_autoVars

(* "Auto-start streaming when audio source starts" (auto_streaming.py:29): *)
(* as long as the lock is free in the end, a source that stays up while    *)
(* the service stays on has a streamer in the end, though starts fail and  *)
(* commands and further monitor loops add and remove it meanwhile. The     *)
(* streamer serves the source's adapter, unless a command overtook a loop  *)
(* when it replaced the adapter: the streamer of the former adapter then   *)
(* keeps the place (auto_streaming.py:232, :476, :551).                    *)
RunningSourceStreamed ==
    \A s \in Stations :
        <>[](LockIsFree /\ ~off /\ station[s] = "up") =>
            <>[]IF s \in overtaken THEN streams[s] # NoAdapter ELSE streams[s] = made[s]

=============================================================================
