-------------------------- MODULE AlertForwarding --------------------------
(***************************************************************************)
(* Everything that puts an alert on the air, and the light that follows    *)
(* it: automatic forwarding of CAP alerts (the poller's process) and of    *)
(* over-the-air alerts (the monitor's process) with the cross-source       *)
(* duplicate check of auto_forward.py, EASBroadcaster.handle_alert, the    *)
(* operator's manual activations in the web process, the two Redis keys    *)
(* that announce a broadcast, and the hardware service that polls them to  *)
(* drive the tower light.                                                  *)
(*                                                                         *)
(* The processes share the database and Redis and nothing else: no lock    *)
(* covers the span from the duplicate check to the record that makes the   *)
(* next check fail, or from setting a key to deleting it.                  *)
(***************************************************************************)
EXTENDS Naturals, FiniteSets

CONSTANTS
    Alerts,       \* alerts the poller or the monitor will process, once each
    Activations,  \* activations the operator, or the weekly test, will generate
    MaxEvents     \* bound: rows the operator sends or deletes, processes that
                  \* die, and queries, commits and Redis calls that fail

(* via: the process that handles it; event: the event code the duplicate   *)
(* check asks for; code: the one build_same_header resolves, which goes on *)
(* record; places: the location codes it comes with; locations: those of   *)
(* the header that is made of them; named: does the name of the event      *)
(* resolve to a code in the registry; upgrade: is its VTEC action UPG;     *)
(* header: the SAME header as received; heard: for an over-the-air alert,  *)
(* is it confident and for our counties?                                   *)
Item == [id : Nat, header : Nat, via : {"poller", "monitor", "web"}, event : STRING,
         code : STRING, places : SUBSET Nat, locations : SUBSET Nat,
         named : BOOLEAN, upgrade : BOOLEAN, heard : BOOLEAN]

ASSUME ItemsAssumption ==
    /\ Alerts \cup Activations \subseteq Item
    /\ \A a \in Alerts : a.via \in {"poller", "monitor"}
    /\ \A a \in Activations : a.via = "web"
    /\ MaxEvents \in Nat

Items == Alerts \cup Activations
Programs == {"poller", "monitor", "web"}
NoItem == [id |-> 0]
ASSUME NoItemAssumption == NoItem \notin Items

Places == {"idle", "messages", "activations", "building", "built",
           "recorded", "onair", "filing"}

VARIABLES
    prog,      \* where each process is: at, item, and two history parts: late,
               \* what was recorded since its check, and blind, a failed query
    row,       \* EASMessage rows of alerts, ManualEASActivation rows
    verdict,   \* eas_forwarded and its reason, or the result of an OTA alert
    received,  \* ReceivedEASAlert rows: none, without or with a message id
    active,    \* Redis key eas:broadcast_active
    incoming,  \* Redis key eas:incoming_alert
    hw,        \* the hardware service's loop: the key it has read, and what
               \* the previous poll saw
    light,     \* the tower light
    aired,     \* history: items that have been put on the air
    events     \* how many so far

fwdVars == <<prog, row, verdict, received, active, incoming, hw, light, aired, events>>

Idle == [at |-> "idle", item |-> NoItem, late |-> {}, blind |-> FALSE]

FwdTypeOK ==
    /\ prog \in [Programs -> [at : Places, item : Items \cup {NoItem},
                              late : SUBSET Items, blind : BOOLEAN]]
    /\ row \in [Items -> {"none", "fresh", "old", "deleted"}]
    /\ verdict \in [Alerts -> {"none", "refused", "duplicate", "failed",
                               "forwarded", "lost"}]
    /\ received \in [Alerts -> {"none", "unlinked", "linked"}]
    /\ {active, incoming} \subseteq Items \cup {NoItem}
    /\ hw \in [at : {"active", "incoming"}, sees : BOOLEAN,
               wasActive : BOOLEAN, wasIncoming : BOOLEAN]
    /\ light \in {"green", "yellow", "red"}
    /\ aired \subseteq Items
    /\ events \in 0 .. MaxEvents

FwdInit ==
    /\ prog = [p \in Programs |-> Idle]
    /\ row = [x \in Items |-> "none"]
    /\ verdict = [a \in Alerts |-> "none"]
    /\ received = [a \in Alerts |-> "none"]
    /\ active = NoItem
    /\ incoming = NoItem
    /\ hw = [at |-> "active", sees |-> FALSE, wasActive |-> FALSE, wasIncoming |-> FALSE]
    /\ light = "green"
    /\ aired = {}
    /\ events = 0

-----------------------------------------------------------------------------
(* The duplicate check: the codes an alert comes with against the codes    *)
(* that were put on the air.                                               *)

Overlaps(a, x) == a.event = x.code /\ a.places \cap x.locations # {}

(* An alert whose event has no code, an alert without locations and a      *)
(* VTEC upgrade are not checked.                                           *)
Checked(a) == a.named /\ a.places # {} /\ ~a.upgrade

Hit(a, table) == \E x \in table \ {a} : row[x] = "fresh" /\ Overlaps(a, x)

At(p, place) == prog[p].at = place
Mine(p) == prog[p].item
Goto(p, place) == prog' = [prog EXCEPT ![p].at = place]

Happens == events < MaxEvents /\ events' = events + 1

(* The process is done with its alert; the monitor's callback goes on to   *)
(* file what it received.                                                  *)
After(p, a) == IF p = "monitor" THEN [Idle EXCEPT !.at = "filing", !.item = a] ELSE Idle
Finish(p, v) ==
    /\ verdict' = [verdict EXCEPT ![Mine(p)] = v]
    /\ prog' = [prog EXCEPT ![p] = After(p, Mine(p))]

(* A row is committed: whoever is past the start of its own check may not  *)
(* have seen it.                                                           *)
Record(x) ==
    /\ row' = [row EXCEPT ![x] = "fresh"]
    /\ prog' = [p \in Programs |->
                  IF Mine(p) = x THEN [prog[p] EXCEPT !.at = "recorded"]
                  ELSE IF prog[p].at \in Places \ {"idle", "messages", "filing"}
                    THEN [prog[p] EXCEPT !.late = @ \cup {x}]
                    ELSE prog[p]]

-----------------------------------------------------------------------------
(* Automatic forwarding.                                                   *)

(* Status, scope, expiry, VTEC action and the allow-list refuse; so do     *)
(* confidence and counties, before forwarding is asked at all.             *)
Refuse(p, a) ==
    /\ At(p, "idle") /\ a.via = p /\ verdict[a] = "none"
    /\ verdict' = [verdict EXCEPT ![a] = "refused"]
    /\ prog' = [prog EXCEPT ![p] = After(p, a)]
    /\ UNCHANGED <<row, received, active, incoming, hw, light, aired, events>>

Accept_Fault(p, a) ==
    /\ At(p, "idle") /\ a.via = p /\ verdict[a] = "none" /\ a.heard
    /\ prog' = [prog EXCEPT ![p] = [Idle EXCEPT !.item = a,
                   !.at = IF Checked(a) THEN "activations" ELSE "building"]]
    /\ UNCHANGED <<row, verdict, received, active, incoming, hw, light, aired, events>>

Accept(p, a) ==
    /\ At(p, "idle") /\ a.via = p /\ verdict[a] = "none" /\ a.heard
    /\ prog' = [prog EXCEPT ![p] = [Idle EXCEPT !.item = a,
                   !.at = IF Checked(a) THEN "messages" ELSE "building"]]
    /\ UNCHANGED <<row, verdict, received, active, incoming, hw, light, aired, events>>

CheckTable_GoesOn(p, place, table, next) ==
    /\ At(p, place)
    /\ Goto(p, next)
    /\ verdict' = IF Hit(Mine(p), table) THEN [verdict EXCEPT ![Mine(p)] = "duplicate"] ELSE verdict
    /\ UNCHANGED <<row, received, active, incoming, hw, light, aired, events>>

(* is_duplicate_broadcast: two queries, messages first. A query that       *)
(* raises finds nothing.                                                   *)
CheckTable(p, place, table, next) ==
    /\ At(p, place)
    /\ \/ /\ Hit(Mine(p), table)
          /\ Finish(p, "duplicate")
          /\ UNCHANGED events
       \/ /\ ~Hit(Mine(p), table)
          /\ Goto(p, next)
          /\ UNCHANGED <<verdict, events>>
       \/ /\ Happens
          /\ prog' = [prog EXCEPT ![p].at = next, ![p].blind = TRUE]
          /\ UNCHANGED verdict
    /\ UNCHANGED <<row, received, active, incoming, hw, light, aired>>

CheckMessages(p) == CheckTable(p, "messages", Alerts, "activations")
CheckActivations(p) == CheckTable(p, "activations", Activations, "building")

(* handle_alert up to the incoming marker: the message is refused, or its  *)
(* audio cannot be generated, or it is built and announced.                *)
Build(p) ==
    /\ At(p, "building")
    /\ \/ /\ Happens
          /\ Finish(p, "failed")
          /\ UNCHANGED incoming
       \/ /\ Goto(p, "built")
          /\ incoming' = Mine(p)
          /\ UNCHANGED <<verdict, events>>
    /\ UNCHANGED <<row, received, active, hw, light, aired>>

(* The record is committed before anything is played; when that fails the  *)
(* marker stays.                                                           *)
Commit(p) ==
    /\ At(p, "built")
    /\ \/ /\ Happens
          /\ Finish(p, "failed")
          /\ UNCHANGED row
       \/ /\ Record(Mine(p))
          /\ UNCHANGED <<verdict, events>>
    /\ UNCHANGED <<received, active, incoming, hw, light, aired>>

(* set_broadcast_active sets one key and deletes the other; whichever of   *)
(* the two calls raises is swallowed with what comes after it.             *)
SetKeys(x) == active' = x /\ incoming' = NoItem
SetsInPart(x) == active' \in {active, x} /\ UNCHANGED incoming

(* clear_broadcast_active deletes the key, whoever has set it.             *)
ClearKey == active' = NoItem /\ UNCHANGED incoming
ClearFails == UNCHANGED <<active, incoming>>

(* Injection into the streams, set_broadcast_active, playout.              *)
OnAir(p) ==
    /\ At(p, "recorded")
    /\ \/ SetKeys(Mine(p)) /\ UNCHANGED events
       \/ SetsInPart(Mine(p)) /\ Happens
    /\ aired' = aired \cup {Mine(p)}
    /\ Goto(p, "onair")
    /\ UNCHANGED <<row, verdict, received, hw, light>>

(* The playout returns, or raises through the finally that deletes the key *)
(* (there is no except): then the alert is settled as failed, although it  *)
(* is on record and was injected into the streams.                         *)
OffAir(p) ==
    /\ p # "web" /\ At(p, "onair")
    /\ \/ ClearKey /\ Finish(p, "forwarded") /\ UNCHANGED events
       \/ ClearFails /\ Finish(p, "forwarded") /\ Happens
       \/ (ClearKey \/ ClearFails) /\ Finish(p, "failed") /\ Happens
    /\ UNCHANGED <<row, received, hw, light, aired>>

(* _store_received_alert. Forwarding reports success to the callback       *)
(* whatever became of the broadcast; only the message id tells. A header   *)
(* that is on file for less than ten minutes is not filed again.           *)
FiledAs_Fault(a) == IF a.heard THEN "linked" ELSE "unlinked"
FiledAs(a) == IF verdict[a] = "forwarded" THEN "linked" ELSE "unlinked"

File ==
    LET a == Mine("monitor") IN
    /\ At("monitor", "filing")
    /\ \/ received' = [received EXCEPT ![a] = FiledAs(a)] /\ UNCHANGED events
       \/ \E b \in Alerts \ {a} : b.header = a.header /\ received[b] # "none"
          /\ UNCHANGED <<received, events>>
       \/ Happens /\ UNCHANGED received
    /\ prog' = [prog EXCEPT !["monitor"] = Idle]
    /\ UNCHANGED <<row, verdict, active, incoming, hw, light, aired>>

(* The process dies. The alert is known to the database or was heard once: *)
(* no one takes it up again. What it set in Redis stays until it expires.  *)
Crash(p) ==
    /\ ~At(p, "idle")
    /\ Happens
    /\ prog' = [prog EXCEPT ![p] = Idle]
    /\ verdict' = IF p # "web" /\ verdict[Mine(p)] = "none"
                    THEN [verdict EXCEPT ![Mine(p)] = "lost"] ELSE verdict
    /\ UNCHANGED <<row, received, active, incoming, hw, light, aired>>

-----------------------------------------------------------------------------
(* The operator, and the passing of time.                                  *)

(* A package is generated and stored; nothing is played until it is sent.  *)
(* The weekly test stores a row in the same table and plays nothing.       *)
Generate(w) ==
    /\ row[w] = "none"
    /\ Record(w)
    /\ UNCHANGED <<verdict, received, active, incoming, hw, light, aired, events>>

(* The operator sends what is stored. No record of the sending is checked  *)
(* against, or added to, the rows of the duplicate check.                  *)
Send(x) ==
    /\ At("web", "idle")
    /\ row[x] \in {"fresh", "old"}
    /\ Happens
    /\ SetKeys(x) \/ SetsInPart(x)
    /\ aired' = aired \cup {x}
    /\ prog' = [prog EXCEPT !["web"] = [Idle EXCEPT !.at = "onair", !.item = x]]
    /\ UNCHANGED <<row, verdict, received, hw, light>>

SendActivation == \E w \in Activations : Send(w)
ResendMessage == \E a \in Alerts : Send(a)

SendEnds ==
    /\ At("web", "onair")
    /\ \/ ClearKey /\ UNCHANGED events
       \/ ClearFails /\ Happens
    /\ prog' = [prog EXCEPT !["web"] = Idle]
    /\ UNCHANGED <<row, verdict, received, hw, light, aired>>

Delete(x) ==
    /\ row[x] \in {"fresh", "old"}
    /\ Happens
    /\ row' = [row EXCEPT ![x] = "deleted"]
    /\ UNCHANGED <<prog, verdict, received, active, incoming, hw, light, aired>>

DeleteActivation == \E w \in Activations : Delete(w)
DeleteMessage == \E a \in Alerts : Delete(a)

(* A row leaves the 15 minutes of the duplicate check.                     *)
Age(x) ==
    /\ row[x] = "fresh"
    /\ row' = [row EXCEPT ![x] = "old"]
    /\ UNCHANGED <<prog, verdict, received, active, incoming, hw, light, aired, events>>

(* The keys expire a minute after the end of what they announce, and five  *)
(* minutes after they were set.                                            *)
ExpireActive_Fault == FALSE /\ UNCHANGED fwdVars
ExpireActive ==
    /\ active # NoItem
    /\ \A p \in Programs : ~(At(p, "onair") /\ Mine(p) = active)
    /\ active' = NoItem
    /\ UNCHANGED <<prog, row, verdict, received, incoming, hw, light, aired, events>>

ExpireIncoming ==
    /\ incoming # NoItem
    /\ \A p \in Programs : ~(At(p, "built") /\ Mine(p) = incoming)
    /\ incoming' = NoItem
    /\ UNCHANGED <<prog, row, verdict, received, active, hw, light, aired, events>>

-----------------------------------------------------------------------------
(* The hardware service: once a second it reads the two keys, one after    *)
(* the other, and acts on the edges. A read that fails reads as absent.    *)

PollActive ==
    /\ hw.at = "active"
    /\ \/ hw' = [hw EXCEPT !.at = "incoming", !.sees = (active # NoItem)] /\ UNCHANGED events
       \/ hw' = [hw EXCEPT !.at = "incoming", !.sees = FALSE] /\ Happens
    /\ UNCHANGED <<prog, row, verdict, received, active, incoming, light, aired>>

(* The light after a poll that sees a and i where the last one saw hw's.   *)
Shown_Fault(a, i) ==
    IF a /\ ~hw.wasActive THEN "red"
    ELSE IF ~a /\ hw.wasActive THEN "green"
    ELSE IF ~a /\ i /\ ~hw.wasIncoming THEN "yellow"
    ELSE light

Shown(a, i) ==
    IF a /\ ~hw.wasActive THEN "red"
    ELSE IF ~a /\ hw.wasActive THEN "green"
    ELSE IF ~a /\ i /\ ~hw.wasIncoming THEN "yellow"
    ELSE IF ~a /\ ~i /\ hw.wasIncoming THEN "green"
    ELSE light

PollIncoming ==
    /\ hw.at = "incoming"
    /\ \E i \in {incoming # NoItem, FALSE} :
         /\ hw' = [at |-> "active", sees |-> FALSE, wasActive |-> hw.sees, wasIncoming |-> i]
         /\ light' = Shown(hw.sees, i)
         /\ IF i = (incoming # NoItem) THEN UNCHANGED events ELSE Happens
    /\ UNCHANGED <<prog, row, verdict, received, active, incoming, aired>>

-----------------------------------------------------------------------------
FwdNext ==
    \/ \E p \in Programs :
         \/ \E a \in Alerts : Refuse(p, a) \/ Accept(p, a)
         \/ CheckMessages(p) \/ CheckActivations(p) \/ Build(p) \/ Commit(p)
         \/ OnAir(p) \/ OffAir(p) \/ Crash(p)
    \/ File
    \/ \E w \in Activations : Generate(w)
    \/ SendActivation \/ ResendMessage \/ SendEnds
    \/ DeleteActivation \/ DeleteMessage
    \/ \E x \in Items : Age(x)
    \/ ExpireActive \/ ExpireIncoming
    \/ PollActive \/ PollIncoming

(* A forwarded alert is taken to its end and a playout ends with its audio *)
(* (the player is run without a timeout: it is assumed to return), keys    *)
(* expire, and the hardware service polls every second.                    *)
FwdFairness ==
    /\ \A p \in Programs :
         WF_fwdVars(\/ CheckMessages(p) \/ CheckActivations(p) \/ Build(p)
                    \/ Commit(p) \/ OnAir(p) \/ OffAir(p))
    /\ WF_fwdVars(File) /\ WF_fwdVars(SendEnds)
    /\ WF_fwdVars(ExpireActive) /\ WF_fwdVars(ExpireIncoming)
    /\ WF_fwdVars(PollActive \/ PollIncoming)

FwdSpec == FwdInit /\ [][FwdNext]_fwdVars /\ FwdFairness

-----------------------------------------------------------------------------
(* Before an alert that is checked goes on the air, whatever was put on    *)
(* record for the same event and places in the last 15 minutes was         *)
(* recorded after its own check had begun (auto_forward.py:91 against      *)
(* eas.py:2663): the window between check and record, a query that raised  *)
(* and an upgrade are the only ways to air the same thing twice.           *)
RepeatOnlyIfConcurrent ==
    \A p \in Programs \ {"web"} :
        At(p, "recorded") /\ Checked(Mine(p)) /\ ~prog[p].blind =>
            \A x \in Items \ {Mine(p)} :
                row[x] = "fresh" /\ Overlaps(Mine(p), x) => x \in prog[p].late

(* A received alert with a message id was put on the air, in a broadcast   *)
(* with a record of its own, and is filed once that broadcast is over      *)
(* (eas_monitor.py:417, eas_monitor.py:462).                               *)
LinkedWasAired ==
    \A a \in Alerts : received[a] = "linked" =>
        /\ a \in aired /\ row[a] # "none"
        /\ \A p \in Programs \ {"web"} : Mine(p) = a => ~At(p, "onair")

(* Every alert is settled once and heard only from the record, so never if *)
(* it was refused, a duplicate or failed before its record; one that is    *)
(* settled as failed after that was heard, though processes die, playouts  *)
(* raise, the operator resends and checks and records of three processes   *)
(* interleave (auto_forward.py:340, eas.py:2773, eas_monitor.py:462).      *)
Delivery == INSTANCE AlertDelivery WITH
    onRecord <- {x \in Items : row[x] # "none"}, heard <- aired, outcome <- verdict,
    linked <- {a \in Alerts : received[a] = "linked"}
ImplementsDelivery == Delivery!DeliverySpec

(* What the light shows is what the last poll saw, though it is only told  *)
(* of changes: red exactly during what looked like a broadcast, yellow     *)
(* only between a marker and its broadcast (hardware_service.py:2496).     *)
LightFollowsPolls ==
    /\ light = "red" <=> hw.wasActive
    /\ light = "yellow" => hw.wasIncoming /\ ~hw.wasActive

(* Once nothing more is forwarded, sent or broken, the light goes back to  *)
(* green for good, whatever died on the air and whichever key was lost     *)
(* (eas.py:122, eas.py:92, hardware_service.py:2556).                      *)
LightSettles == <>[](light = "green")

=============================================================================
