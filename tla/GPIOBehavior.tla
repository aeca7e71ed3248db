---------------------------- MODULE GPIOBehavior ----------------------------
(***************************************************************************)
(* The relays of one broadcaster: its GPIOBehaviorManager                  *)
(* (app_utils/gpio.py) turns the life of each alert, as                    *)
(* EASBroadcaster.handle_alert (app_utils/eas.py) goes through it, into    *)
(* activations and deactivations of the controller's pins.  setup.matrix   *)
(* is the behavior_matrix: the behaviors assigned to each pin.             *)
(*                                                                         *)
(* One alert is handled at a time, by the alert thread.  Pulses and flash  *)
(* beacons are threads of their own, which go on beside it and may outlive *)
(* the alert that started them.                                            *)
(***************************************************************************)
EXTENDS GPIOController

CONSTANT
    MaxAlerts  \* bound: alerts handled in one behaviour

Holds == {"duration_of_alert", "playout", "forwarding_alert"}
Pulses == {"incoming_alert", "five_seconds"}
Behaviors == Holds \cup Pulses \cup {"flash"}

ASSUME MatrixAssumption == 
    Pins \subseteq Nat /\ \A s \in Setups : s.matrix \in [Pins -> SUBSET Behaviors]
ASSUME AlertsAssumption == MaxAlerts \in Nat

Phases == {"idle", "incoming", "starting", "flashing", "all", "playing",
           "ending", "stopping"}

(* The threads of _pulse_behavior, told apart by the alert they belong to. *)
Pulse == [pin : Pins, behavior : Pulses, alert : 1 .. MaxAlerts]

(* A _flash_worker: at the test of its stop event, or past it on its way   *)
(* to one of its two calls.  _stop_flash takes its list of the workers     *)
(* ("listed") before it sets their events ("set") one by one.              *)
Beacon == [at : {"test", "on", "off"}, phase : {0, 1}, stop : {"clear", "listed", "set"}]

VARIABLES
    phase,       \* where the alert thread is in handle_alert
    alerts,      \* alerts handled so far, the current one included
    forwarded,   \* is_forwarded of the current alert
    owed,        \* what to release after playout: what start_alert holds, or
                 \* everything that activate_all activated
    todo,        \* pins (and behaviors) the current loop has left
    holds,       \* _hold_map
    waiting,     \* pulse threads that have yet to activate their pin
    pulsing,     \* pulse threads asleep between activate and deactivate
    beacons,     \* the flash workers: alert number and pin to worker
    registered   \* _flash_threads: pin to the alert number of its worker

managerVars == <<phase, alerts, forwarded, owed, todo, holds, waiting, pulsing,
                 beacons, registered>>
vars == <<setup, gpioVars, managerVars>>

TypeOK ==
    /\ GPIOTypeOK
    /\ phase \in Phases
    /\ alerts \in 0 .. MaxAlerts
    /\ forwarded \in BOOLEAN
    /\ owed \in {"nothing", "manager", "all"}
    /\ todo \subseteq Pins \X (Behaviors \cup {"all", "off"})
    /\ holds \in [Pins -> SUBSET Holds]
    /\ waiting \subseteq Pulse
    /\ pulsing \subseteq Pulse
    /\ beacons \in [(1 .. MaxAlerts) \X Pins -> Beacon \cup {None}]
    /\ registered \in [Pins -> 0 .. MaxAlerts]

Init ==
    /\ GPIOInit
    /\ phase = "idle"
    /\ alerts = 0
    /\ forwarded = FALSE
    /\ owed = "nothing"
    /\ todo = {}
    /\ holds = [p \in Pins |-> {}]
    /\ waiting = {}
    /\ pulsing = {}
    /\ beacons = [b \in (1 .. MaxAlerts) \X Pins |-> None]
    /\ registered = [p \in Pins |-> 0]

-----------------------------------------------------------------------------
(* handle_alert, up to the start of the playout.                           *)

PinsFor(behavior) == {p \in Pins : behavior \in setup.matrix[p]}

HoldsOf(isForwarded) ==
    {"duration_of_alert", "playout"} \cup (IF isForwarded THEN {"forwarding_alert"} ELSE {})

Entries(behaviors) == {e \in Pins \X behaviors : e[2] \in setup.matrix[e[1]]}

(* The loops over behaviors go through them in this order.                 *)
Rank == [duration_of_alert |-> 1, playout |-> 2, forwarding_alert |-> 3]
NextHold(entry) == entry \in todo /\ \A e \in todo : Rank[entry[2]] <= Rank[e[2]]

Spawn(behavior) ==
    waiting' = waiting \cup
        {[pin |-> p, behavior |-> behavior, alert |-> alerts'] : p \in PinsFor(behavior)}

AlertArrives(isForwarded) ==
    /\ phase = "idle" /\ alerts < MaxAlerts
    /\ alerts' = alerts + 1
    /\ forwarded' = isForwarded
    /\ owed' = "nothing"
    /\ Spawn("incoming_alert")
    /\ phase' = "incoming"
    /\ UNCHANGED <<gpioVars, todo, holds, pulsing, beacons, registered>>

(* The record of the alert could not be saved: nothing is broadcast.       *)
AlertAbandoned ==
    /\ phase = "incoming"
    /\ phase' = "idle"
    /\ UNCHANGED <<gpioVars, alerts, forwarded, owed, todo, holds, waiting, pulsing,
                   beacons, registered>>

StartAlert ==
    /\ phase = "incoming"
    /\ phase' = "starting"
    /\ todo' = Entries(HoldsOf(forwarded))
    /\ UNCHANGED <<gpioVars, alerts, forwarded, owed, holds, waiting, pulsing,
                   beacons, registered>>

(* Whoever finds the pin active already gets no hold on it.                *)
AddHold(p, b) ==
    /\ phase = "starting" /\ NextHold(<<p, b>>)
    /\ todo' = todo \ {<<p, b>>}
    /\ \/ /\ b \in holds[p]
          /\ owed' = "manager"
          /\ UNCHANGED <<gpioVars, holds>>
       \/ /\ b \notin holds[p]
          /\ \E success \in BOOLEAN :
                /\ Activate(p, success)
                /\ holds' = IF success THEN [holds EXCEPT ![p] = @ \cup {b}] ELSE holds
                /\ owed' = IF success THEN "manager" ELSE owed
    /\ UNCHANGED <<phase, alerts, forwarded, waiting, pulsing, beacons, registered>>

HoldsAdded ==
    /\ phase = "starting" /\ todo = {}
    /\ phase' = "flashing"
    /\ todo' = Entries({"flash"})
    /\ UNCHANGED <<gpioVars, alerts, forwarded, owed, holds, waiting, pulsing,
                   beacons, registered>>

BeaconPartner(p) == IF setup.partner[p] \in PinsFor("flash") THEN setup.partner[p] ELSE None

(* In the order of the pins; one worker serves both pins of a pair.        *)
StartBeacon(p) ==
    /\ phase = "flashing"
    /\ <<p, "flash">> \in todo
    /\ \A e \in todo : p <= e[1]
    /\ IF registered[p] # 0
       THEN /\ todo' = todo \ {<<p, "flash">>}
            /\ UNCHANGED <<beacons, registered, owed>>
       ELSE /\ todo' = {e \in todo : e[1] # p /\ (BeaconPartner(e[1]) = None
                            \/ BeaconPartner(e[1]) \notin {p, BeaconPartner(p)})}
            /\ beacons' = [beacons EXCEPT ![<<alerts, p>>] =
                              [at |-> "test", phase |-> 0, stop |-> "clear"]]
            /\ registered' = [registered EXCEPT ![p] = alerts]
            /\ owed' = "manager"
    /\ UNCHANGED <<gpioVars, phase, alerts, forwarded, holds, waiting, pulsing>>

(* The end of start_alert; if it did nothing, activate_all follows.        *)
BeaconsStarted ==
    /\ phase = "flashing" /\ todo = {}
    /\ UNCHANGED alerts
    /\ Spawn("five_seconds")
    /\ owed' = IF PinsFor("five_seconds") # {} THEN "manager" ELSE owed
    /\ phase' = IF owed' = "manager" THEN "playing" ELSE "all"
    /\ todo' = IF owed' = "manager" THEN {} ELSE Pins \X {"all"}
    /\ UNCHANGED <<gpioVars, forwarded, holds, pulsing, beacons, registered>>

ActivateAll(p) ==
    /\ phase = "all"
    /\ <<p, "all">> \in todo
    /\ \E success \in BOOLEAN :
          /\ Activate(p, success)
          /\ owed' = IF success THEN "all" ELSE owed
    /\ todo' = todo \ {<<p, "all">>}
    /\ UNCHANGED <<phase, alerts, forwarded, holds, waiting, pulsing, beacons, registered>>

AllActivated ==
    /\ phase = "all" /\ todo = {}
    /\ phase' = "playing"
    /\ UNCHANGED <<gpioVars, alerts, forwarded, owed, todo, holds, waiting, pulsing,
                   beacons, registered>>

-----------------------------------------------------------------------------
(* handle_alert, after the playout.                                        *)

(* Fault: end_alert is not told that the alert was a forwarded one.        *)
PlayoutEnds_NotForwarded ==
    /\ phase = "playing"
    /\ phase' = "ending"
    /\ todo' = CASE owed = "manager" -> Entries(HoldsOf(FALSE))
                 [] owed = "all"     -> Pins \X {"all"}
                 [] OTHER            -> {}
    /\ UNCHANGED <<gpioVars, alerts, forwarded, owed, holds, waiting, pulsing,
                   beacons, registered>>

PlayoutEnds ==
    /\ phase = "playing"
    /\ phase' = "ending"
    /\ todo' = CASE owed = "manager" -> Entries(HoldsOf(forwarded))
                 [] owed = "all"     -> Pins \X {"all"}
                 [] OTHER            -> {}
    /\ UNCHANGED <<gpioVars, alerts, forwarded, owed, holds, waiting, pulsing,
                   beacons, registered>>

(* Fault: the pin is released and the hold stays in _hold_map.             *)
ReleaseHold_KeepsHold(p, b) ==
    /\ phase = "ending" /\ owed = "manager" /\ NextHold(<<p, b>>)
    /\ todo' = todo \ {<<p, b>>}
    /\ IF holds[p] = {b} THEN Deactivate(p) ELSE UNCHANGED gpioVars
    /\ UNCHANGED <<phase, alerts, forwarded, owed, holds, waiting, pulsing, beacons, registered>>

(* The last hold on a pin takes the pin with it.                           *)
ReleaseHold(p, b) ==
    /\ phase = "ending" /\ owed = "manager" /\ NextHold(<<p, b>>)
    /\ todo' = todo \ {<<p, b>>}
    /\ holds' = [holds EXCEPT ![p] = @ \ {b}]
    /\ IF holds[p] = {b} THEN Deactivate(p) ELSE UNCHANGED gpioVars
    /\ UNCHANGED <<phase, alerts, forwarded, owed, waiting, pulsing, beacons, registered>>

DeactivateAll(p) ==
    /\ phase = "ending"
    /\ <<p, "all">> \in todo
    /\ Deactivate(p)
    /\ todo' = todo \ {<<p, "all">>}
    /\ UNCHANGED <<phase, alerts, forwarded, owed, holds, waiting, pulsing, beacons, registered>>

(* ... and the listing of the flash workers that _stop_flash begins with.  *)
HoldsReleased ==
    /\ phase = "ending" /\ todo = {}
    /\ IF owed = "manager"
       THEN /\ phase' = "stopping"
            /\ todo' = {<<p, "flash">> : p \in {q \in Pins : registered[q] # 0}}
            /\ beacons' = [b \in DOMAIN beacons |->
                  IF registered[b[2]] = b[1] /\ beacons[b] # None
                  THEN [beacons[b] EXCEPT !.stop = "listed"] ELSE beacons[b]]
            /\ registered' = [p \in Pins |-> 0]
       ELSE /\ phase' = "idle"
            /\ UNCHANGED <<todo, beacons, registered>>
    /\ UNCHANGED <<gpioVars, alerts, forwarded, owed, holds, waiting, pulsing>>

(* _stop_flash: signal a worker, then switch off its pin and the partner.  *)
StopBeacon(p) ==
    /\ phase = "stopping"
    /\ <<p, "flash">> \in todo
    /\ \A e \in todo : e[2] = "flash"
    /\ beacons' = [b \in DOMAIN beacons |->
          IF b[2] = p /\ beacons[b] # None /\ beacons[b].stop = "listed"
          THEN [beacons[b] EXCEPT !.stop = "set"] ELSE beacons[b]]
    /\ todo' = (todo \ {<<p, "flash">>}) \cup ({p, setup.partner[p]} \cap Pins) \X {"off"}
    /\ UNCHANGED <<gpioVars, phase, alerts, forwarded, owed, holds, waiting,
                   pulsing, registered>>

SwitchOff(p) ==
    /\ phase = "stopping"
    /\ <<p, "off">> \in todo
    /\ Deactivate(p)
    /\ todo' = todo \ {<<p, "off">>}
    /\ UNCHANGED <<phase, alerts, forwarded, owed, holds, waiting, pulsing, beacons, registered>>

AlertEnds ==
    /\ phase = "stopping" /\ todo = {}
    /\ phase' = "idle"
    /\ UNCHANGED <<gpioVars, alerts, forwarded, owed, todo, holds, waiting, pulsing,
                   beacons, registered>>

AlertThread ==
    \/ AlertAbandoned \/ StartAlert \/ HoldsAdded \/ BeaconsStarted \/ AllActivated
    \/ PlayoutEnds \/ HoldsReleased \/ AlertEnds
    \/ \E p \in Pins :
          \/ \E b \in Holds : AddHold(p, b) \/ ReleaseHold(p, b)
          \/ StartBeacon(p) \/ ActivateAll(p) \/ DeactivateAll(p)
          \/ StopBeacon(p) \/ SwitchOff(p)

-----------------------------------------------------------------------------
(* The manager's own threads.                                              *)

PulseBegins(u) ==
    /\ u \in waiting
    /\ waiting' = waiting \ {u}
    /\ \E success \in BOOLEAN :
          /\ Activate(u.pin, success)
          /\ pulsing' = IF success THEN pulsing \cup {u} ELSE pulsing
    /\ UNCHANGED <<phase, alerts, forwarded, owed, todo, holds, beacons, registered>>

PulseEnds(u) ==
    /\ u \in pulsing
    /\ pulsing' = pulsing \ {u}
    /\ Deactivate(u.pin)
    /\ UNCHANGED <<phase, alerts, forwarded, owed, todo, holds, waiting, beacons, registered>>

BeaconAt(b, place) == beacons[b] # None /\ beacons[b].at = place

(* The worker stops, and takes its pin's entry out of _flash_threads, or   *)
(* goes on for another phase.                                              *)
BeaconTests(b) ==
    /\ BeaconAt(b, "test")
    /\ beacons' = [beacons EXCEPT ![b] =
          IF beacons[b].stop = "set" THEN None ELSE [beacons[b] EXCEPT !.at = "on"]]
    /\ registered' = IF beacons[b].stop = "set" THEN [registered EXCEPT ![b[2]] = 0] ELSE registered
    /\ UNCHANGED <<gpioVars, phase, alerts, forwarded, owed, todo, holds, waiting, pulsing>>

BeaconOn(b) ==
    /\ BeaconAt(b, "on")
    /\ LET p == IF beacons[b].phase = 0 THEN b[2] ELSE BeaconPartner(b[2])
       IN  IF p = None THEN UNCHANGED gpioVars ELSE \E success \in BOOLEAN : Activate(p, success)
    /\ beacons' = [beacons EXCEPT ![b].at = "off"]
    /\ UNCHANGED <<phase, alerts, forwarded, owed, todo, holds, waiting, pulsing, registered>>

BeaconOff(b) ==
    /\ BeaconAt(b, "off")
    /\ LET p == IF beacons[b].phase = 1 THEN b[2] ELSE BeaconPartner(b[2])
       IN  IF p = None THEN UNCHANGED gpioVars ELSE Deactivate(p)
    /\ beacons' = [beacons EXCEPT ![b].at = "test", ![b].phase = 1 - @]
    /\ UNCHANGED <<phase, alerts, forwarded, owed, todo, holds, waiting, pulsing, registered>>

ManagerThreads ==
    \/ \E u \in waiting \cup pulsing : PulseBegins(u) \/ PulseEnds(u)
    \/ \E b \in DOMAIN beacons : BeaconTests(b) \/ BeaconOn(b) \/ BeaconOff(b)

Next ==
    /\ \/ \E isForwarded \in BOOLEAN : AlertArrives(isForwarded)
       \/ AlertThread
       \/ ManagerThreads
       \/ Threads /\ UNCHANGED managerVars
    /\ UNCHANGED setup

Spec == Init /\ [][Next]_vars

-----------------------------------------------------------------------------
(* Properties.                                                             *)

(* No hold outlives its alert: a hold that was left behind would make the  *)
(* next alert believe that its relay is on, and leave it off.              *)
HoldsEnd == phase = "idle" => \A p \in Pins : holds[p] = {}

HeldBy(p) == setup.matrix[p] \cap HoldsOf(forwarded)

(* A relay that only playout holds drive is not released while the alert   *)
(* is on the air, unless its watchdog fires or its device fails - whatever *)
(* pulses and beacons do with the other pins.                              *)
HeldPinsStay ==
    phase = "playing" => \A p \in Pins :
        HeldBy(p) # {} /\ setup.matrix[p] \subseteq Holds => state[p] # "inactive"

(* "This ensures the relay stays active the entire time the station has    *)
(* control of the airchain": so does one that other behaviors drive too.   *)
RelayHeldThroughout ==
    phase = "playing" => \A p \in Pins :
        HeldBy(p) # {} /\ "flash" \notin setup.matrix[p] => state[p] # "inactive"
=============================================================================
