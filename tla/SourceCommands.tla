--------------------------- MODULE SourceCommands ---------------------------
(***************************************************************************)
(* Control of an audio source across two processes: a request of the web   *)
(* application (webapp/admin/audio_ingest.py) changes the row of the       *)
(* source in the database and publishes commands on a Redis channel; the   *)
(* audio service (redis_commands.py) executes them one after the other and *)
(* leaves the answer under a key that the request polls. Nothing is        *)
(* stored for a service that does not listen, and a service that starts    *)
(* loads the rows before it listens (eas_monitoring_service.py). The       *)
(* source has the name that the radio settings (routes_settings_radio.py)  *)
(* give the source of a receiver, and the routes for sources of any kind   *)
(* can name it as well.                                                    *)
(***************************************************************************)
EXTENDS Naturals, Sequences, FiniteSets

CONSTANTS
    Requests,          \* threads of the web application, one request each
    MaxTick,           \* bound on the clock that command ids are made of
    MaxCommandEvents   \* bound: failed publications and commits, crashes

ASSUME CommandAssumption == MaxTick \in Nat /\ MaxCommandEvents \in Nat

Ops == {"enable", "monitor", "disable", "create", "update", "delete", "discard",
        "forget", "start", "stop"}
Commands == {"add", "start", "stop", "delete"}

(* command_id: the name of the command and the time in milliseconds.       *)
CommandId_Fault(c, t) == <<c, 0>>
CommandId(c, t) == <<c, t>>
Keys == Commands \X (0 .. MaxTick)

VARIABLES
    dbRow,     \* the source in the database: none, or one that starts or not
    managed,   \* is it managed_by the radio settings?
    output,    \* audio_output of the receiver that the source belongs to
    service,   \* the audio service: "down", "loaded" or "up"
    known,     \* does the service have the source?
    running,   \* does it run?
    channel,   \* commands published to the service and not yet taken
    current,   \* the command executed and not yet answered (none or one)
    answers,   \* keys of the answers in Redis
    request,   \* each request: its operation, how far it is, its command
    tick,      \* the clock
    executed,  \* history: commands executed, by command and time
    lost,      \* history: was a command, or the load of a row, lost?
    entangled, \* history: see Entangles
    untold,    \* history: was it made to start without a word to the service?
    commandEvents

rowVars == <<dbRow, managed, output, untold>>
cmdVars == <<rowVars, service, known, running, channel, current, answers,
             request, tick, executed, lost, entangled, commandEvents>>

Message == [key : Keys, at : 0 .. MaxTick, wait : BOOLEAN]

CmdTypeOK ==
    /\ dbRow \in {"none", "idle", "auto"} /\ output \in BOOLEAN
    /\ managed \in BOOLEAN /\ untold \in BOOLEAN
    /\ service \in {"down", "loaded", "up"}
    /\ known \in BOOLEAN /\ running \in BOOLEAN
    /\ channel \in Seq(Message) /\ current \in SUBSET Message
    /\ answers \subseteq Keys
    /\ request \in [Requests -> [op : Ops \cup {"?"},
                                 at : {"ready", "publish", "start", "waiting", "remove", "done"},
                                 sent : 0 .. MaxTick, got : {"nothing", "answer"}]]
    /\ tick \in 0 .. MaxTick
    /\ executed \subseteq Commands \X (0 .. MaxTick)
    /\ lost \in BOOLEAN /\ entangled \in BOOLEAN
    /\ commandEvents \in 0 .. MaxCommandEvents

CmdInit ==
    /\ dbRow \in {"none", "idle", "auto"}
    /\ managed = (dbRow # "none") /\ output = managed /\ untold = FALSE
    /\ service = "up" /\ known = managed /\ running = (dbRow = "auto")
    /\ channel = <<>> /\ current = {} /\ answers = {}
    /\ request = [r \in Requests |->
                    [op |-> "?", at |-> "ready", sent |-> 0, got |-> "nothing"]]
    /\ tick = 0
    /\ executed = {}
    /\ lost = FALSE /\ entangled = FALSE /\ commandEvents = 0

CommandEvent == commandEvents < MaxCommandEvents /\ commandEvents' = commandEvents + 1

serviceVars == <<service, known, running, current, executed>>

-----------------------------------------------------------------------------
(* Requests.                                                               *)

Underway(r) == request[r].at \notin {"ready", "done"}
Changes(op) == op \in {"enable", "monitor", "disable", "create", "update", "delete", "discard"}
Go(r, at) == request' = [request EXCEPT ![r].at = at]

(* Two requests are entangled when one of them changes the row while the   *)
(* other is under way; so are a request and a start of the service.        *)
Entangles(r, op) ==
    \E q \in Requests \ {r} : Underway(q) /\ (Changes(op) \/ Changes(request[q].op))

Begin(r, op) ==
    /\ request[r].at = "ready"
    /\ entangled' = (entangled \/ Entangles(r, op))
    /\ UNCHANGED <<channel, answers, tick, lost, commandEvents, serviceVars>>

(* ensure_sdr_audio_monitor_source commits the row of a receiver that is   *)
(* to be heard, and only then sends commands, if it is to be started.      *)
Enable(r) ==
    /\ Begin(r, "enable")
    /\ dbRow' = "auto" /\ managed' = TRUE /\ output' = TRUE /\ untold' = FALSE
    /\ request' = [request EXCEPT ![r].op = "enable", ![r].at = "publish"]

Monitor(r) ==
    /\ Begin(r, "monitor")
    /\ dbRow' = "idle" /\ managed' = TRUE /\ output' = TRUE /\ untold' = FALSE
    /\ request' = [request EXCEPT ![r].op = "monitor", ![r].at = "done"]

(* The settings of the receiver are saved before that; the row may fail.   *)
MonitorFails(r) ==
    /\ request[r].at = "ready"
    /\ CommandEvent
    /\ output' = TRUE
    /\ request' = [request EXCEPT ![r].op = "monitor", ![r].at = "done"]
    /\ entangled' = (entangled \/ Entangles(r, "monitor"))
    /\ UNCHANGED <<dbRow, managed, untold, channel, answers, tick, lost, serviceVars>>

(* Only a row of its own is removed with a receiver that is not heard any  *)
(* more.                                                                   *)
Disable(r) ==
    /\ Begin(r, "disable")
    /\ output' = FALSE
    /\ request' = [request EXCEPT ![r].op = "disable",
                                  ![r].at = IF managed THEN "publish" ELSE "done"]
    /\ UNCHANGED <<dbRow, managed, untold>>

(* The routes for sources of any kind that write the row and send nothing: *)
(* the service learns of it when it starts.                                *)
Create(r) ==
    /\ Begin(r, "create")
    /\ dbRow = "none"
    /\ dbRow' \in {"idle", "auto"} /\ untold' = (dbRow' = "auto")
    /\ request' = [request EXCEPT ![r].op = "create", ![r].at = "done"]
    /\ UNCHANGED <<managed, output>>

Patch(r) ==
    /\ Begin(r, "update")
    /\ dbRow # "none"
    /\ dbRow' \in {"idle", "auto"}
    /\ untold' = (dbRow' = "auto" /\ (untold \/ dbRow # "auto"))
    /\ request' = [request EXCEPT ![r].op = "update", ![r].at = "done"]
    /\ UNCHANGED <<managed, output>>

(* The other operations find the row or end; but a deletion still tells    *)
(* the service. Of a row that is not the receiver's, only the row goes.    *)
Control(r, op) ==
    /\ Begin(r, op)
    /\ (op = "forget") = (dbRow = "none")
    /\ (op = "delete" => managed) /\ (op = "discard" => ~managed)
    /\ request' = [request EXCEPT ![r].op = op, ![r].at = "publish"]
    /\ UNCHANGED rowVars

DeleteCommand_Fault == "stop"
DeleteCommand == "delete"

CommandOf(r) ==
    IF request[r].at = "start" THEN "start"
    ELSE CASE request[r].op = "enable" -> "add"
           [] request[r].op \in {"disable", "delete", "discard", "forget"} -> DeleteCommand
           [] OTHER -> request[r].op

Waits(r) == request[r].at = "start" \/ request[r].op \in {"disable", "start", "stop"}

AfterPublishing(r) ==
    IF Waits(r) THEN "waiting"
    ELSE CASE request[r].op = "enable" -> "start"
           [] request[r].op \in {"delete", "discard"} -> "remove"
           [] OTHER -> "done"

(* _publish_command: the message goes to whoever listens.                  *)
SendCommand(r) ==
    /\ request[r].at \in {"publish", "start"}
    /\ request' = [request EXCEPT ![r].at = AfterPublishing(r), ![r].sent = tick]
    /\ IF service = "up"
         THEN /\ channel' = Append(channel, [key |-> CommandId(CommandOf(r), tick), at |-> tick,
                                             wait |-> Waits(r)])
              /\ UNCHANGED lost
         ELSE lost' = TRUE /\ UNCHANGED channel
    /\ UNCHANGED <<rowVars, answers, tick, entangled, commandEvents, serviceVars>>

(* Redis cannot be reached: what removes the row goes on, the rest ends.   *)
PublishFails(r) ==
    /\ request[r].at \in {"publish", "start"}
    /\ CommandEvent
    /\ lost' = TRUE
    /\ Go(r, IF request[r].op \in {"disable", "delete", "discard"} THEN "remove" ELSE "done")
    /\ UNCHANGED <<rowVars, channel, answers, tick, entangled, serviceVars>>

AwaitedKey(r) == CommandId(IF request[r].op = "enable" THEN "start" ELSE CommandOf(r), request[r].sent)
AfterWaiting(r) == IF request[r].op = "disable" THEN "remove" ELSE "done"

GetAnswer(r) ==
    /\ request[r].at = "waiting"
    /\ AwaitedKey(r) \in answers
    /\ answers' = answers \ {AwaitedKey(r)}
    /\ request' = [request EXCEPT ![r].at = AfterWaiting(r), ![r].got = "answer"]
    /\ UNCHANGED <<rowVars, channel, tick, lost, entangled, commandEvents, serviceVars>>

(* The command may still be executed, and its answer stays.                *)
TimeOut(r) ==
    /\ request[r].at = "waiting"
    /\ Go(r, AfterWaiting(r))
    /\ UNCHANGED <<rowVars, channel, answers, tick, lost, entangled, commandEvents,
                   serviceVars>>

RemoveRow(r) ==
    /\ request[r].at = "remove"
    /\ dbRow' = "none" /\ managed' = FALSE /\ untold' = FALSE
    /\ output' = (output /\ (dbRow = "none" \/ request[r].op = "discard"))
    /\ Go(r, "done")
    /\ UNCHANGED <<channel, answers, tick, lost, entangled, commandEvents, serviceVars>>

-----------------------------------------------------------------------------
(* The service. A start that finds no source is answered as a success; a   *)
(* start may fail.                                                         *)

ExecuteCommand ==
    /\ service = "up" /\ current = {} /\ channel # <<>>
    /\ channel' = Tail(channel)
    /\ current' = {Head(channel)}
    /\ LET c == Head(channel).key[1] IN
         /\ known' = CASE c = "add" -> TRUE [] c = "delete" -> FALSE [] OTHER -> known
         /\ \/ running' = (c = "start" /\ known)
            \/ c = "start" /\ UNCHANGED running
         /\ executed' = executed \cup {<<c, Head(channel).at>>}
    /\ UNCHANGED <<rowVars, service, answers, request, tick, lost, entangled,
                   commandEvents>>

AnswerCommand ==
    /\ current # {}
    /\ answers' = answers \cup {m.key : m \in {m \in current : m.wait}}
    /\ current' = {}
    /\ UNCHANGED <<rowVars, service, known, running, channel, request, tick, executed,
                   lost, entangled, commandEvents>>

(* The time to live of an answer, 30 seconds, is longer than anybody waits *)
(* for it.                                                                 *)
AnswerExpires(k) ==
    /\ k \in answers
    /\ \A r \in Requests : request[r].at = "waiting" => AwaitedKey(r) # k
    /\ answers' = answers \ {k}
    /\ UNCHANGED <<rowVars, channel, request, tick, lost, entangled, commandEvents,
                   serviceVars>>

ServiceCrashes ==
    /\ service # "down"
    /\ CommandEvent
    /\ service' = "down"
    /\ known' = FALSE /\ running' = FALSE
    /\ channel' = <<>> /\ current' = {}
    /\ lost' = (lost \/ channel # <<>>)
    /\ UNCHANGED <<rowVars, answers, request, tick, executed, entangled>>

(* The row of a receiver to be heard is made first, or brought up to date, *)
(* with the receiver's auto_start, unless that fails, nothing has changed  *)
(* or the identifier of the receiver gives a row of another name here than *)
(* it does in the web application; then every row is loaded that can be.   *)
LoadRows ==
    /\ service = "down"
    /\ service' = "loaded"
    /\ \/ UNCHANGED <<dbRow, managed>>
       \/ output /\ dbRow' \in {"idle", "auto"} /\ managed' = TRUE
    /\ untold' = FALSE
    /\ known' \in {FALSE, dbRow' # "none"}
    /\ running' \in {FALSE, known' /\ dbRow' = "auto"}
    /\ lost' = (lost \/ (dbRow' # "none" /\ ~known'))
    /\ entangled' = (entangled \/ \E r \in Requests :
                       Underway(r) /\ (Changes(request[r].op) \/ dbRow' # dbRow))
    /\ UNCHANGED <<output, channel, current, answers, request, tick, executed, commandEvents>>

Listen ==
    /\ service = "loaded"
    /\ service' = "up"
    /\ UNCHANGED <<rowVars, known, running, channel, current, answers, request, tick,
                   executed, lost, entangled, commandEvents>>

TickOn ==
    /\ tick < MaxTick
    /\ tick' = tick + 1
    /\ UNCHANGED <<rowVars, channel, answers, request, lost, entangled, commandEvents,
                   serviceVars>>

-----------------------------------------------------------------------------
CmdNext ==
    \/ \E r \in Requests :
         \/ Enable(r) \/ Monitor(r) \/ MonitorFails(r) \/ Disable(r) \/ Create(r) \/ Patch(r)
         \/ \E op \in {"delete", "discard", "forget", "start", "stop"} : Control(r, op)
         \/ SendCommand(r) \/ PublishFails(r) \/ GetAnswer(r) \/ TimeOut(r) \/ RemoveRow(r)
    \/ ExecuteCommand \/ AnswerCommand \/ \E k \in Keys : AnswerExpires(k)
    \/ ServiceCrashes \/ LoadRows \/ Listen \/ TickOn

CmdSpec == CmdInit /\ [][CmdNext]_cmdVars

-----------------------------------------------------------------------------
(* A request that got an answer sent a command that was executed, or one   *)
(* that cannot be told from it was: the same command, sent in the same     *)
(* millisecond (redis_commands.py:90). A command that timed out may be     *)
(* executed afterwards, and the answer it leaves is nobody else's.         *)
AnsweredWasExecuted ==
    \A r \in Requests :
        request[r].got = "answer" =>
            <<IF request[r].op = "enable" THEN "start"
              ELSE IF request[r].op = "disable" THEN "delete" ELSE request[r].op,
              request[r].sent>> \in executed

Quiet == /\ \A r \in Requests : ~Underway(r)
         /\ channel = <<>> /\ current = {} /\ service = "up"

(* When nothing is under way, no command was lost and no two of them were  *)
(* entangled, the service has the source only if the database does, and a  *)
(* source that starts is there, except one that was created, or changed,   *)
(* to start by a route that leaves the service to find out: timeouts,      *)
(* crashes in between and late execution notwithstanding                   *)
(* (audio_ingest.py:597, audio_ingest.py:1544, audio_ingest.py:1758).      *)
ServiceAgrees ==
    Quiet /\ ~lost /\ ~entangled =>
        /\ known => dbRow # "none"
        /\ dbRow = "auto" => known \/ untold

=============================================================================
