-------------------------- MODULE SourceDiscovery --------------------------
(***************************************************************************)
(* How the EAS monitor finds the audio sources it has to listen to.        *)
(*                                                                         *)
(* The controller (app_core/audio/ingest.py) keeps one adapter per source  *)
(* name.  The monitor (app_core/audio/eas_monitor_v3.py) keeps one watcher *)
(* per source name, and a watcher is subscribed to the queue of the adapter *)
(* it was created for.  Discovery compares the names only.                 *)
(*                                                                         *)
(* Five threads meet here: the monitor loop and the command subscriber     *)
(* both run discoveries; the commands of the web application add, start,   *)
(* stop and delete sources; the controller's own health monitor and the    *)
(* service's source watchdog restart failed adapters; and the adapters'    *)
(* capture threads fail.                                                   *)
(***************************************************************************)
EXTENDS Naturals, FiniteSets, Sequences

CONSTANTS
    Sources,    \* source names
    Adapters,   \* adapter objects; bound: as many adapters are ever created
    Healers,    \* who restarts adapters: "controller", "watchdog"
    AutoStart,  \* sources configured with enabled and auto_start
    None        \* no adapter, no command, no discovery under way

ASSUME SourcesAssumption == IsFiniteSet(Sources)
ASSUME HealersAssumption == Healers \subseteq {"controller", "watchdog"}
ASSUME AutoStartAssumption == AutoStart \subseteq Sources

Status == {"STOPPED", "STARTING", "RUNNING", "ERROR", "DISCONNECTED"}
Discoverers == {"monitor", "command"}

(* The steps of the commands that AudioCommandSubscriber executes.         *)
Plan == [source_add    |-> <<"remove", "insert">>,
         source_start  |-> <<"begin", "finish", "discover">>,
         source_stop   |-> <<"discover", "halt">>,
         source_delete |-> <<"discover", "remove">>,
         inject_test_signal |-> <<"discover">>]

(* What may be left of a plan.                                             *)
Plans == {<<"remove", "insert">>, <<"insert">>,
          <<"begin", "finish", "discover">>, <<"finish", "discover">>,
          <<"discover", "halt">>, <<"halt">>,
          <<"discover", "remove">>, <<"remove">>, <<"discover">>}

Command == [src : Sources, plan : Plans]

(* A _discover_sources call in the middle of its walk over _sources.       *)
Discovery == [size : Nat, visited : SUBSET Sources,
              found : [Sources -> Adapters \cup {None}]]

(* A restart under way: AudioSourceAdapter.restart, called by the          *)
(* controller's health monitor, or the service's source watchdog.          *)
Healing == [src : Sources, adapter : Adapters,
            at : {"stop", "start", "finish"}, tries : 1 .. 2]

ASSUME NoneAssumption == None \notin Sources \cup Adapters \cup Discovery \cup Command \cup Healing

VARIABLES
    sources,   \* AudioIngestController._sources
    status,    \* AudioSourceAdapter.status
    fresh,     \* adapters not created yet
    watchers,  \* _watchers: the adapter whose queue the watcher reads
    disc,      \* the discovery each discoverer is running
    cmd,       \* the command the subscriber is executing
    heal,      \* the restart each healer is performing
    down,      \* history: sources seen down since each discovery began
    halted     \* history: adapters not started since they were last stopped by
               \* an operator

vars == <<sources, status, fresh, watchers, disc, cmd, heal, down, halted>>

Keys == {s \in Sources : sources[s] # None}
Running == {s \in Keys : status[sources[s]] = "RUNNING"}

TypeOK ==
    /\ sources \in [Sources -> Adapters \cup {None}]
    /\ status \in [Adapters -> Status]
    /\ fresh \subseteq Adapters
    /\ watchers \in [Sources -> Adapters \cup {None}]
    /\ disc \in [Discoverers -> Discovery \cup {None}]
    /\ cmd \in Command \cup {None}
    /\ heal \in [Healers -> Healing \cup {None}]
    /\ down \in [Discoverers -> SUBSET Sources]
    /\ halted \subseteq Adapters

(* The service came up without any source; sources are added by commands.  *)
Init ==
    /\ sources = [s \in Sources |-> None]
    /\ status = [a \in Adapters |-> "STOPPED"]
    /\ fresh = Adapters
    /\ watchers = [s \in Sources |-> None]
    /\ disc = [d \in Discoverers |-> None]
    /\ cmd = None
    /\ heal = [h \in Healers |-> None]
    /\ down = [d \in Discoverers |-> {}]
    /\ halted = Adapters

-----------------------------------------------------------------------------
(* Discovery, run by the monitor loop and by the command subscriber.       *)

BeginDiscovery(d) ==
    disc' = [disc EXCEPT ![d] = [size |-> Cardinality(Keys), visited |-> {},
                                 found |-> [s \in Sources |-> None]]]

(* Fault: a dictionary that changed ends the walk as if it were complete.  *)
Visit_Partial(d) ==
    /\ disc[d] # None
    /\ \E s \in Keys \ disc[d].visited :
          disc' = [disc EXCEPT
              ![d].visited = IF Cardinality(Keys) # disc[d].size THEN Sources
                             ELSE @ \cup {s},
              ![d].found[s] = IF Cardinality(Keys) # disc[d].size
                                 \/ status[sources[s]] # "RUNNING"
                              THEN None ELSE sources[s]]
    /\ UNCHANGED <<sources, status, fresh, watchers, cmd, heal, halted>>

(* The walk over _sources holds no lock of the controller.                 *)
Visit(d) ==
    /\ disc[d] # None
    /\ Cardinality(Keys) = disc[d].size
    /\ \E s \in Keys \ disc[d].visited :
          disc' = [disc EXCEPT
              ![d].visited = @ \cup {s},
              ![d].found[s] = IF status[sources[s]] = "RUNNING" THEN sources[s] ELSE None]
    /\ UNCHANGED <<sources, status, fresh, watchers, cmd, heal, halted>>

(* The step that ends a command, or takes it to the next step of its plan. *)
Advance ==
    cmd' = IF Len(cmd.plan) = 1 THEN None ELSE [cmd EXCEPT !.plan = Tail(@)]

EndDiscovery(d) ==
    /\ disc' = [disc EXCEPT ![d] = None]
    /\ IF d = "command" THEN Advance ELSE UNCHANGED cmd

(* "dictionary changed size during iteration": the discovery is given up.  *)
Abort(d) ==
    /\ disc[d] # None
    /\ Cardinality(Keys) # disc[d].size
    /\ EndDiscovery(d)
    /\ UNCHANGED <<sources, status, fresh, watchers, heal, halted>>

(* Fault: watchers of sources that stopped are kept.                       *)
Apply_KeepsWatchers(d) ==
    /\ disc[d] # None
    /\ Keys \subseteq disc[d].visited
    /\ watchers' = [s \in Sources |->
          IF watchers[s] = None THEN disc[d].found[s] ELSE watchers[s]]
    /\ EndDiscovery(d)
    /\ UNCHANGED <<sources, status, fresh, heal, halted>>

(* Under _watchers_lock: a watcher for every name that was found running   *)
(* and has none, and none for the others.                                  *)
Apply(d) ==
    /\ disc[d] # None
    /\ Keys \subseteq disc[d].visited
    /\ watchers' = [s \in Sources |->
          IF watchers[s] # None /\ disc[d].found[s] # None THEN watchers[s]
          ELSE disc[d].found[s]]
    /\ EndDiscovery(d)
    /\ UNCHANGED <<sources, status, fresh, heal, halted>>

(* The discovery interval of the monitor loop has passed.                  *)
MonitorDiscovers ==
    /\ disc["monitor"] = None
    /\ BeginDiscovery("monitor")
    /\ UNCHANGED <<sources, status, fresh, watchers, cmd, heal, halted>>

-----------------------------------------------------------------------------
(* Adapters.                                                               *)

(* start() of an adapter: from ERROR it resets itself first.               *)
Startable(a) == status[a] \in {"STOPPED", "ERROR"}

BeginStart(a) ==
    /\ status' = [status EXCEPT ![a] = "STARTING"]
    /\ halted' = halted \ {a}

(* The rest of start(): _start_capture raised, or the adapter is RUNNING.  *)
(* If somebody stopped it in the meantime that holds, except for adapters  *)
(* whose _start_capture sets RUNNING itself.                               *)
FinishStart(a, raised) ==
    \E new \in IF raised THEN {"ERROR"}
             ELSE {"RUNNING"} \cup ({status[a]} \ {"STARTING"}) :
        status' = [status EXCEPT ![a] = new]

(* The controller's lock, held by start_source while an adapter starts.    *)
LockFree ==
    /\ ~(cmd # None /\ Head(cmd.plan) = "finish")
    /\ \A h \in Healers \cap {"watchdog"} : ~(heal[h] # None /\ heal[h].at = "finish")

(* The capture thread gives up, loses its connection or gets it back.      *)
CaptureFails(a) ==
    /\ status[a] \in {"RUNNING", "DISCONNECTED"}
    /\ status' = [status EXCEPT ![a] = "ERROR"]
    /\ UNCHANGED <<sources, fresh, watchers, disc, cmd, heal, halted>>

CaptureDisconnects(a) ==
    /\ status[a] = "RUNNING"
    /\ status' = [status EXCEPT ![a] = "DISCONNECTED"]
    /\ UNCHANGED <<sources, fresh, watchers, disc, cmd, heal, halted>>

CaptureReconnects(a) ==
    /\ status[a] = "DISCONNECTED"
    /\ status' = [status EXCEPT ![a] = "RUNNING"]
    /\ UNCHANGED <<sources, fresh, watchers, disc, cmd, heal, halted>>

-----------------------------------------------------------------------------
(* Commands.                                                               *)

Receive(op, s) ==
    /\ cmd = None
    /\ op = "source_add" => fresh # {}
    /\ op = "source_start" => s \in Keys
    /\ cmd' = [src |-> s, plan |-> Plan[op]]
    /\ UNCHANGED <<sources, status, fresh, watchers, disc, heal, halted>>

Executing(step) == cmd # None /\ Head(cmd.plan) = step

CommandDiscovers ==
    /\ Executing("discover")
    /\ disc["command"] = None
    /\ BeginDiscovery("command")
    /\ UNCHANGED <<sources, status, fresh, watchers, cmd, heal, halted>>

(* remove_source: stop the adapter and drop it.                            *)
Remove ==
    /\ Executing("remove") /\ LockFree
    /\ LET a == sources[cmd.src]
       IN  IF a = None THEN UNCHANGED <<sources, status, halted>>
           ELSE /\ status' = [status EXCEPT ![a] = "STOPPED"]
                /\ sources' = [sources EXCEPT ![cmd.src] = None]
                /\ halted' = halted \cup {a}
    /\ Advance
    /\ UNCHANGED <<fresh, watchers, disc, heal>>

(* add_source of a new adapter.                                            *)
Insert ==
    /\ Executing("insert") /\ LockFree
    /\ \E a \in fresh :
          /\ sources' = [sources EXCEPT ![cmd.src] = a]
          /\ fresh' = fresh \ {a}
    /\ Advance
    /\ UNCHANGED <<status, watchers, disc, heal, halted>>

(* start_source: False ends the command.                                   *)
CommandStarts ==
    /\ Executing("begin") /\ LockFree
    /\ LET a == sources[cmd.src]
       IN  IF Startable(a) THEN BeginStart(a) /\ Advance
           ELSE cmd' = None /\ UNCHANGED <<status, halted>>
    /\ UNCHANGED <<sources, fresh, watchers, disc, heal>>

CommandStarted ==
    /\ Executing("finish")
    /\ \E raised \in BOOLEAN :
          /\ FinishStart(sources[cmd.src], raised)
          /\ IF raised THEN cmd' = None ELSE Advance
    /\ UNCHANGED <<sources, fresh, watchers, disc, heal, halted>>

(* stop_source.                                                            *)
Halt ==
    /\ Executing("halt") /\ LockFree
    /\ LET a == sources[cmd.src]
       IN  IF a = None THEN UNCHANGED <<status, halted>>
           ELSE /\ status' = [status EXCEPT ![a] = "STOPPED"]
                /\ halted' = halted \cup {a}
    /\ Advance
    /\ UNCHANGED <<sources, fresh, watchers, disc, heal>>

-----------------------------------------------------------------------------
(* Restarts.                                                               *)

(* _evaluate_source_health: an adapter in trouble, or one that stalled.    *)
ControllerNotices(s) ==
    /\ "controller" \in Healers /\ heal["controller"] = None
    /\ s \in Keys
    /\ status[sources[s]] \in {"ERROR", "DISCONNECTED", "RUNNING"}
    /\ heal' = [heal EXCEPT !["controller"] =
                   [src |-> s, adapter |-> sources[s], at |-> "stop", tries |-> 2]]
    /\ UNCHANGED <<sources, status, fresh, watchers, disc, cmd, halted>>

(* The service's source watchdog.                                          *)
WatchdogNotices(s) ==
    /\ "watchdog" \in Healers /\ heal["watchdog"] = None
    /\ s \in Keys
    /\ LET a == sources[s]
       IN  /\ status[a] = "ERROR" \/ (status[a] = "STOPPED" /\ s \in AutoStart)
           /\ heal' = [heal EXCEPT !["watchdog"] =
                 [src |-> s, adapter |-> a, tries |-> 1,
                  at |-> IF status[a] = "ERROR" THEN "stop" ELSE "start"]]
    /\ UNCHANGED <<sources, status, fresh, watchers, disc, cmd, halted>>

HealingAt(h, place) == heal[h] # None /\ heal[h].at = place

(* Fault: a restart leaves an adapter that somebody else is starting to it. *)
HealStop_Yields(h) ==
    /\ HealingAt(h, "stop")
    /\ status' = [status EXCEPT ![heal[h].adapter] = "STOPPED"]
    /\ heal' = [heal EXCEPT ![h] = IF status[heal[h].adapter] = "STARTING" THEN None
                                   ELSE [@ EXCEPT !.at = "start"]]
    /\ UNCHANGED <<sources, fresh, watchers, disc, cmd, halted>>

(* stop(), without the controller's lock.                                  *)
HealStop(h) ==
    /\ HealingAt(h, "stop")
    /\ status' = [status EXCEPT ![heal[h].adapter] = "STOPPED"]
    /\ heal' = [heal EXCEPT ![h].at = "start"]
    /\ UNCHANGED <<sources, fresh, watchers, disc, cmd, halted>>

(* start() returned False: the next of the restart's attempts, if any.     *)
HealRetries(h) ==
    heal' = [heal EXCEPT ![h] =
        IF heal[h].tries = 1 THEN None
        ELSE [src |-> heal[h].src, adapter |-> heal[h].adapter,
              at |-> "stop", tries |-> heal[h].tries - 1]]

(* The watchdog starts by name, under the lock, whatever adapter has the   *)
(* name now; a restart starts the adapter it was given.                    *)
HealStart(h) ==
    /\ HealingAt(h, "start")
    /\ h = "watchdog" => LockFree
    /\ LET a == IF h = "watchdog" THEN sources[heal[h].src] ELSE heal[h].adapter
       IN  IF a # None /\ Startable(a)
           THEN /\ BeginStart(a)
                /\ heal' = [heal EXCEPT ![h] =
                      [src |-> heal[h].src, adapter |-> a,
                       at |-> "finish", tries |-> heal[h].tries]]
           ELSE HealRetries(h) /\ UNCHANGED <<status, halted>>
    /\ UNCHANGED <<sources, fresh, watchers, disc, cmd>>

HealFinish(h) ==
    /\ HealingAt(h, "finish")
    /\ \E raised \in BOOLEAN :
          /\ FinishStart(heal[h].adapter, raised)
          /\ IF raised THEN HealRetries(h) ELSE heal' = [heal EXCEPT ![h] = None]
    /\ UNCHANGED <<sources, fresh, watchers, disc, cmd, halted>>

-----------------------------------------------------------------------------
Monitor == MonitorDiscovers \/ Visit("monitor") \/ Abort("monitor") \/ Apply("monitor")

Subscriber ==
    \/ CommandDiscovers \/ Visit("command") \/ Abort("command") \/ Apply("command")
    \/ Remove \/ Insert \/ CommandStarts \/ CommandStarted \/ Halt

Heal(h) == HealStop(h) \/ HealStart(h) \/ HealFinish(h)

Environment ==
    \/ \E op \in DOMAIN Plan, s \in Sources : Receive(op, s)
    \/ \E a \in Adapters :
          CaptureFails(a) \/ CaptureDisconnects(a) \/ CaptureReconnects(a)
    \/ \E s \in Sources : ControllerNotices(s) \/ WatchdogNotices(s)

(* What each discovery in progress may have missed.                        *)
Observe ==
    down' = [d \in Discoverers |->
        IF disc'[d] = None THEN {}
        ELSE (IF disc[d] = None THEN {} ELSE down[d]) \cup (Sources \ Running')]

Next ==
    /\ Monitor \/ Subscriber \/ Environment \/ \E h \in Healers : Heal(h)
    /\ Observe

Fairness ==
    /\ WF_vars(Monitor /\ Observe)
    /\ WF_vars(Subscriber /\ Observe)
    /\ \A h \in Healers : WF_vars(Heal(h) /\ Observe)

Spec == Init /\ [][Next]_vars /\ Fairness

-----------------------------------------------------------------------------
(* Properties.                                                             *)

(* "Automatically discovers and tracks running audio sources": a source    *)
(* that stays up is in the end watched for good, one that stays down is in *)
(* the end not watched any more - whatever the two discoverers and the     *)
(* changes of _sources during their unlocked walks do on the way.          *)
WatchersSettle ==
    \A s \in Sources :
        /\ <>[](s \in Running) => <>[](watchers[s] # None)
        /\ <>[](s \notin Running) => <>[](watchers[s] = None)

(* A discovery never takes the watcher from a source that was up from the  *)
(* discovery's first look at _sources to its last.                         *)
UpSourcesKeepWatcher ==
    [][\A s \in Sources : watchers[s] # None /\ watchers'[s] = None =>
          \E d \in Discoverers : disc[d] # None /\ disc'[d] = None /\ s \in down[d]]_vars

(* Two healers, which do not know of each other, and the operator restart  *)
(* the same adapter: their stops and starts may cancel out, but never so   *)
(* that an adapter nobody stopped is left STOPPED with nobody about to     *)
(* start it.                                                               *)
NeverStranded ==
    \A s \in Keys : status[sources[s]] = "STOPPED" /\ sources[s] \notin halted =>
        \E h \in Healers : heal[h] # None /\ heal[h].adapter = sources[s]

(* "The UnifiedEASMonitorService automatically discovers and monitors all  *)
(* running audio sources": a running adapter that keeps its name is in the *)
(* end the one that the name's watcher reads.                              *)
RunningSourceHeard ==
    \A s \in Sources, a \in Adapters :
        <>[](sources[s] = a /\ status[a] = "RUNNING") => <>[](watchers[s] = a)
=============================================================================
