------------------------- MODULE GPIOBehaviorProofs -------------------------
(***************************************************************************)
(* Proofs about GPIOBehavior for any pins, any installation the operator   *)
(* may have configured, and any number of alerts.  The controller's        *)
(* invariant is proved for each operation of GPIOController, whoever calls *)
(* it; the manager's rests on the order of handle_alert's steps.           *)
(***************************************************************************)
EXTENDS GPIOBehavior, TLAPS

(* FlashOwned, by the threads that exist.                                  *)
FlashStops ==
    failures = 0 =>
        \A f \in Flashers : flasher[f] # None /\ ~flasher[f].stop =>
            state[flasher[f].pin] = "active" /\ flashOf[flasher[f].pin] = f

(* What every operation of the controller preserves.                       *)
GInv == GPIOTypeOK /\ WatchdogArmed /\ FlashStops

(* Telling a pin's flash thread to stop, with the pin no longer active,    *)
(* leaves no other thread of the pin behind.                               *)
LEMMA ReleaseKeepsGInv ==
    ASSUME GInv, NEW p \in Pins, NEW done \in States \ {"active"},
           Release(p, done), watchdogs' \in [Pins -> 0 .. MaxWatchdogs], UNCHANGED setup,
           \A q \in Pins \ {p} : watchdogs'[q] = watchdogs[q]
    PROVE  GInv'
  <1> USE PinsAssumption, FlasherAssumption DEF GInv
  <1>1. GPIOTypeOK'
    <2>1. flasher' \in [Flashers -> Flasher \cup {None}]
      <3>1. \A r \in Flasher : [r EXCEPT !.stop = TRUE] \in Flasher
        BY DEF Flasher
      <3>2. \A f \in Flashers : flasher[f] \in Flasher \cup {None}
        BY DEF GPIOTypeOK
      <3> QED
        BY <3>1, <3>2 DEF Release, StopFlash
    <2>2. /\ setup' \in Setups
          /\ state' \in [Pins -> States]
          /\ level' \in [Pins -> BOOLEAN]
          /\ flashOf' \in [Pins -> Flashers \cup {None}]
          /\ failures' \in 0 .. MaxFailures
      BY DEF Release, StopFlash, GPIOTypeOK
    <2> QED
      BY <2>1, <2>2 DEF GPIOTypeOK
  <1>2. WatchdogArmed'
    BY DEF WatchdogArmed, Release, GPIOTypeOK
  <1>3. FlashStops'
    <2> SUFFICES ASSUME failures' = 0, NEW f \in Flashers, flasher'[f] # None, ~flasher'[f].stop
                 PROVE  state'[flasher'[f].pin] = "active" /\ flashOf'[flasher'[f].pin] = f
      BY DEF FlashStops
    <2>1. f # flashOf[p] \/ flasher[f] = None
      BY DEF Release, StopFlash, GPIOTypeOK, Flasher
    <2>2. flasher'[f] = flasher[f]
      BY <2>1 DEF Release, StopFlash
    <2>3. state[flasher[f].pin] = "active" /\ flashOf[flasher[f].pin] = f /\ flasher[f].pin \in Pins
      BY <2>2 DEF FlashStops, Release, GPIOTypeOK, Flasher
    <2>4. flasher[f].pin # p
      BY <2>1, <2>2, <2>3
    <2> QED
      BY <2>2, <2>3, <2>4 DEF Release, StopFlash, GPIOTypeOK
  <1> QED
    BY <1>1, <1>2, <1>3

(* A device that raises puts its pin in error: nothing is promised about   *)
(* flash threads any more, and no watchdog is needed.                      *)
LEMMA FailureKeepsGInv ==
    ASSUME GInv, NEW p \in Pins, DeviceFails(p),
           watchdogs' \in [Pins -> 0 .. MaxWatchdogs], UNCHANGED setup,
           \A q \in Pins \ {p} : watchdogs'[q] = watchdogs[q]
    PROVE  GInv'
  <1> USE PinsAssumption DEF GInv
  <1>1. GPIOTypeOK'
    <2>1. state' \in [Pins -> States]
      BY DEF GPIOTypeOK, DeviceFails, States
    <2>2. failures' \in 0 .. MaxFailures
      BY DEF GPIOTypeOK, DeviceFails
    <2> QED
      BY <2>1, <2>2 DEF GPIOTypeOK, DeviceFails
  <1>2. WatchdogArmed'
    BY DEF WatchdogArmed, GPIOTypeOK, DeviceFails
  <1>3. FlashStops'
    BY DEF FlashStops, GPIOTypeOK, DeviceFails
  <1> QED
    BY <1>1, <1>2, <1>3

(* activate() starts a watchdog and, if the pin flashes, the one thread    *)
(* that its deactivation will stop: the pin was not active, so an earlier  *)
(* thread has been told to stop already.                                   *)
LEMMA ActivateKeepsGInv ==
    ASSUME GInv, NEW p \in Pins, NEW success \in BOOLEAN, Activate(p, success),
           UNCHANGED setup
    PROVE  GInv'
  <1> USE PinsAssumption, FlasherAssumption DEF GInv
  <1>1. CASE UNCHANGED gpioVars
    BY <1>1 DEF gpioVars, GPIOTypeOK, WatchdogArmed, FlashStops
  <1>2. CASE DeviceFails(p) /\ UNCHANGED watchdogs
    BY <1>2, FailureKeepsGInv DEF GPIOTypeOK
  <1>3. CASE state[p] # "active" /\ Energize(p)
    <2>1. /\ setup' \in Setups
          /\ state' \in [Pins -> States]
          /\ level' \in [Pins -> BOOLEAN]
          /\ watchdogs' \in [Pins -> 0 .. MaxWatchdogs]
          /\ failures' \in 0 .. MaxFailures
      BY <1>3 DEF Energize, GPIOTypeOK, States
    <2>2. WatchdogArmed'
      BY <1>3 DEF WatchdogArmed, Energize, GPIOTypeOK
    <2>3. CASE p \notin setup.flash
      BY <1>3, <2>1, <2>2, <2>3 DEF Energize, StartFlash, GPIOTypeOK, FlashStops, Flasher
    <2>4. CASE p \in setup.flash
      <3> DEFINE New == [pin |-> p, at |-> "test", phase |-> 0, stop |-> FALSE]
      <3>1. PICK f \in Flashers : /\ flasher[f] = None
                                  /\ flasher' = [flasher EXCEPT ![f] = New]
                                  /\ flashOf' = [flashOf EXCEPT ![p] = f]
        BY <1>3, <2>4 DEF Energize, StartFlash
      <3>2. New \in Flasher
        BY DEF Flasher
      <3>3. GPIOTypeOK'
        BY <2>1, <3>1, <3>2 DEF GPIOTypeOK
      <3>4. FlashStops'
        <4> SUFFICES ASSUME failures' = 0, NEW g \in Flashers, flasher'[g] # None,
                            ~flasher'[g].stop
                     PROVE  state'[flasher'[g].pin] = "active" /\ flashOf'[flasher'[g].pin] = g
          BY DEF FlashStops
        <4>1. CASE g = f
          BY <1>3, <3>1, <4>1 DEF Energize, GPIOTypeOK
        <4>2. CASE g # f
          <5>1. flasher'[g] = flasher[g]
            BY <3>1, <4>2
          <5>2. /\ state[flasher[g].pin] = "active" /\ flashOf[flasher[g].pin] = g
                /\ flasher[g].pin \in Pins
            BY <1>3, <5>1 DEF Energize, FlashStops, GPIOTypeOK, Flasher
          <5>3. flasher[g].pin # p
            BY <1>3, <5>2
          <5> QED
            BY <1>3, <3>1, <5>1, <5>2, <5>3 DEF Energize, GPIOTypeOK
        <4> QED
          BY <4>1, <4>2
      <3> QED
        BY <2>2, <3>3, <3>4
    <2> QED
      BY <2>3, <2>4
  <1> QED
    BY <1>1, <1>2, <1>3 DEF Activate

LEMMA DeactivateKeepsGInv ==
    ASSUME GInv, NEW p \in Pins, Deactivate(p), UNCHANGED setup
    PROVE  GInv'
  <1>1. watchdogs' \in [Pins -> 0 .. MaxWatchdogs]
    BY DEF Deactivate, GInv, GPIOTypeOK
  <1>2. CASE Release(p, "inactive")
    BY <1>1, <1>2, ReleaseKeepsGInv DEF Deactivate, States
  <1>3. CASE DeviceFails(p)
    BY <1>1, <1>3, FailureKeepsGInv DEF Deactivate
  <1>4. CASE UNCHANGED <<state, level, flasher, flashOf, failures>>
    BY <1>4 DEF Deactivate, GInv, GPIOTypeOK, WatchdogArmed, FlashStops
  <1> QED
    BY <1>2, <1>3, <1>4 DEF Deactivate

(* A watchdog that wakes up ends the pin's activation, whichever it is.    *)
LEMMA WatchdogKeepsGInv ==
    ASSUME GInv, NEW p \in Pins, WatchdogFires(p), UNCHANGED setup
    PROVE  GInv'
  <1> USE PinsAssumption
  <1>1. /\ watchdogs' \in [Pins -> 0 .. MaxWatchdogs]
        /\ \A q \in Pins \ {p} : watchdogs'[q] = watchdogs[q]
    BY DEF WatchdogFires, GInv, GPIOTypeOK
  <1>2. CASE Release(p, "watchdog_timeout")
    BY <1>1, <1>2, ReleaseKeepsGInv DEF WatchdogFires, States
  <1>3. CASE DeviceFails(p)
    BY <1>1, <1>3, FailureKeepsGInv DEF WatchdogFires
  <1>4. CASE state[p] # "active" /\ UNCHANGED <<state, level, flasher, flashOf, failures>>
    BY <1>1, <1>4 DEF WatchdogFires, GInv, GPIOTypeOK, WatchdogArmed, FlashStops
  <1> QED
    BY <1>2, <1>3, <1>4 DEF WatchdogFires

(* A flash thread never clears a stop event, and works on its own pin.     *)
LEMMA FlashKeepsGInv ==
    ASSUME GInv, NEW f \in Flashers, Flash(f), UNCHANGED setup
    PROVE  GInv'
  <1> USE PinsAssumption, FlasherAssumption
  <1>1. /\ flasher[f] # None /\ flasher[f] \in Flasher
        /\ UNCHANGED <<state, watchdogs, flashOf>>
    BY DEF Flash, FlashTests, FlashToggles, FlashFails, FlashEnds, GInv, GPIOTypeOK
  <1>2. level' \in [Pins -> BOOLEAN]
    <2>1. level \in [Pins -> BOOLEAN]
      BY DEF GInv, GPIOTypeOK
    <2>2. CASE UNCHANGED level
      BY <2>1, <2>2
    <2>3. CASE FlashToggles(f)
      BY <2>1, <2>3, Zenon DEF FlashToggles
    <2>4. CASE FlashFails(f)
      BY <2>1, <2>4, Zenon DEF FlashFails
    <2>5. CASE FlashEnds(f)
      BY <2>1, <2>5, Zenon DEF FlashEnds
    <2> QED
      BY <2>2, <2>3, <2>4, <2>5 DEF Flash, FlashTests
  <1>3. failures' \in 0 .. MaxFailures /\ (failures' = 0 => failures = 0)
    BY DEF Flash, FlashTests, FlashToggles, FlashFails, FlashEnds, GInv, GPIOTypeOK
  <1>4. \/ /\ flasher' = [flasher EXCEPT ![f] = flasher'[f]]
           /\ flasher'[f] \in Flasher
           /\ flasher'[f].pin = flasher[f].pin /\ flasher'[f].stop = flasher[f].stop
        \/ flasher' = [flasher EXCEPT ![f] = None]
    <2>1. CASE FlashTests(f)
      BY <1>1, <2>1 DEF FlashTests, GInv, GPIOTypeOK, Flasher
    <2>2. CASE FlashToggles(f)
      BY <1>1, <2>2 DEF FlashToggles, GInv, GPIOTypeOK, Flasher
    <2>3. CASE FlashFails(f)
      BY <1>1, <2>3 DEF FlashFails, GInv, GPIOTypeOK, Flasher
    <2>4. CASE FlashEnds(f)
      BY <2>4 DEF FlashEnds
    <2> QED
      BY <2>1, <2>2, <2>3, <2>4 DEF Flash
  <1>5. GPIOTypeOK'
    BY <1>1, <1>2, <1>3, <1>4 DEF GInv, GPIOTypeOK
  <1>6. WatchdogArmed'
    BY <1>1 DEF GInv, WatchdogArmed
  <1>7. FlashStops'
    BY <1>1, <1>3, <1>4 DEF GInv, FlashStops, GPIOTypeOK
  <1> QED
    BY <1>5, <1>6, <1>7 DEF GInv

-----------------------------------------------------------------------------
(* The manager's variables.                                                *)

ManagerTypeOK ==
    /\ phase \in Phases
    /\ alerts \in 0 .. MaxAlerts
    /\ forwarded \in BOOLEAN
    /\ owed \in {"nothing", "manager", "all"}
    /\ todo \subseteq Pins \X (Behaviors \cup {"all", "off"})
    /\ holds \in [Pins -> SUBSET Holds]
    /\ waiting \subseteq Pulse
    /\ pulsing \subseteq Pulse
    /\ beacons \in [(1 .. MaxAlerts) \X Pins -> Beacon \cup {None}]
    /\ registered \in [Pins -> 0 .. MaxAlerts]

(* An alert that is being handled has a number.                            *)
MInv == ManagerTypeOK /\ (phase # "idle" => alerts > 0)

LEMMA EntriesTyped ==
    ASSUME NEW B \in SUBSET Behaviors
    PROVE  Entries(B) \subseteq Pins \X (Behaviors \cup {"all", "off"})
  BY DEF Entries

LEMMA HoldsTyped ==
    ASSUME NEW isForwarded \in BOOLEAN
    PROVE  HoldsOf(isForwarded) \subseteq Holds /\ Holds \subseteq Behaviors
  BY DEF HoldsOf, Holds, Behaviors

(* The pulses of an alert carry its number.                                *)
LEMMA SpawnTyped ==
    ASSUME NEW b \in Pulses, waiting \subseteq Pulse, alerts' \in 1 .. MaxAlerts, Spawn(b)
    PROVE  waiting' \subseteq Pulse
  BY DEF Spawn, Pulse, PinsFor

(* The alert thread, up to the playout.                                    *)
LEMMA BeforePlayoutTyped ==
    ASSUME MInv, UNCHANGED setup,
           \/ \E isForwarded \in BOOLEAN : AlertArrives(isForwarded)
           \/ AlertAbandoned \/ StartAlert \/ HoldsAdded \/ BeaconsStarted \/ AllActivated
           \/ \E p \in Pins : \/ \E b \in Holds : AddHold(p, b)
                             \/ StartBeacon(p) \/ ActivateAll(p)
    PROVE  MInv'
  <1> USE AlertsAssumption DEF MInv, ManagerTypeOK, Phases
  <1>1. ASSUME NEW isForwarded \in BOOLEAN, AlertArrives(isForwarded)
        PROVE  MInv'
    <2>1. alerts' \in 1 .. MaxAlerts
      BY <1>1 DEF AlertArrives
    <2>2. waiting' \subseteq Pulse
      BY <1>1, <2>1, SpawnTyped DEF AlertArrives, Pulses
    <2> QED
      BY <1>1, <2>1, <2>2 DEF AlertArrives
  <1>2. CASE AlertAbandoned
    BY <1>2 DEF AlertAbandoned
  <1>3. CASE StartAlert
    <2>1. todo' \subseteq Pins \X (Behaviors \cup {"all", "off"})
      BY <1>3, HoldsTyped, EntriesTyped DEF StartAlert
    <2> QED
      BY <1>3, <2>1 DEF StartAlert
  <1>4. CASE HoldsAdded
    <2>1. todo' \subseteq Pins \X (Behaviors \cup {"all", "off"})
      BY <1>4, EntriesTyped DEF HoldsAdded, Behaviors
    <2> QED
      BY <1>4, <2>1 DEF HoldsAdded
  <1>5. CASE BeaconsStarted
    <2>1. waiting' \subseteq Pulse
      BY <1>5, SpawnTyped DEF BeaconsStarted, Pulses
    <2>2. todo' \subseteq Pins \X (Behaviors \cup {"all", "off"})
      BY <1>5 DEF BeaconsStarted
    <2>3. owed' \in {"nothing", "manager", "all"} /\ phase' \in Phases \ {"idle"}
      BY <1>5 DEF BeaconsStarted
    <2> QED
      BY <1>5, <2>1, <2>2, <2>3 DEF BeaconsStarted
  <1>6. CASE AllActivated
    BY <1>6 DEF AllActivated
  <1>7. ASSUME NEW p \in Pins, NEW b \in Holds, AddHold(p, b)
        PROVE  MInv'
    BY <1>7 DEF AddHold
  <1>8. ASSUME NEW p \in Pins, StartBeacon(p)
        PROVE  MInv'
    <2>1. [at |-> "test", phase |-> 0, stop |-> "clear"] \in Beacon
      BY DEF Beacon
    <2>2. beacons' \in [(1 .. MaxAlerts) \X Pins -> Beacon \cup {None}]
      BY <1>8, <2>1 DEF StartBeacon
    <2> QED
      BY <1>8, <2>2 DEF StartBeacon
  <1>9. ASSUME NEW p \in Pins, ActivateAll(p)
        PROVE  MInv'
    BY <1>9 DEF ActivateAll
  <1> QED
    BY <1>1, <1>2, <1>3, <1>4, <1>5, <1>6, <1>7, <1>8, <1>9

(* The alert thread, after the playout.                                    *)
LEMMA AfterPlayoutTyped ==
    ASSUME MInv, setup \in Setups, UNCHANGED setup,
           \/ PlayoutEnds \/ HoldsReleased \/ AlertEnds
           \/ \E p \in Pins : \/ \E b \in Holds : ReleaseHold(p, b)
                             \/ DeactivateAll(p) \/ StopBeacon(p) \/ SwitchOff(p)
    PROVE  MInv'
  <1> USE AlertsAssumption, FlasherAssumption DEF MInv, ManagerTypeOK, Phases
  <1>1. CASE PlayoutEnds
    <2>1. todo' \subseteq Pins \X (Behaviors \cup {"all", "off"})
      BY <1>1, HoldsTyped, EntriesTyped DEF PlayoutEnds
    <2> QED
      BY <1>1, <2>1 DEF PlayoutEnds
  <1>2. CASE HoldsReleased
    <2>1. \A r \in Beacon : [r EXCEPT !.stop = "listed"] \in Beacon
      BY DEF Beacon
    <2>2. beacons' \in [(1 .. MaxAlerts) \X Pins -> Beacon \cup {None}]
      BY <1>2, <2>1 DEF HoldsReleased
    <2>3. registered' \in [Pins -> 0 .. MaxAlerts]
      BY <1>2 DEF HoldsReleased
    <2>4. todo' \subseteq Pins \X (Behaviors \cup {"all", "off"})
      BY <1>2 DEF HoldsReleased, Behaviors
    <2> QED
      BY <1>2, <2>2, <2>3, <2>4 DEF HoldsReleased
  <1>3. CASE AlertEnds
    BY <1>3 DEF AlertEnds
  <1>4. ASSUME NEW p \in Pins, NEW b \in Holds, ReleaseHold(p, b)
        PROVE  MInv'
    BY <1>4 DEF ReleaseHold
  <1>5. ASSUME NEW p \in Pins, DeactivateAll(p) \/ SwitchOff(p)
        PROVE  MInv'
    BY <1>5 DEF DeactivateAll, SwitchOff
  <1>6. ASSUME NEW p \in Pins, StopBeacon(p)
        PROVE  MInv'
    <2>1. \A r \in Beacon : [r EXCEPT !.stop = "set"] \in Beacon
      BY DEF Beacon
    <2>2. beacons' \in [(1 .. MaxAlerts) \X Pins -> Beacon \cup {None}]
      BY <1>6, <2>1 DEF StopBeacon
    <2> QED
      BY <1>6, <2>2 DEF StopBeacon
  <1> QED
    BY <1>1, <1>2, <1>3, <1>4, <1>5, <1>6

LEMMA ManagerThreadsTyped ==
    ASSUME MInv, UNCHANGED setup, ManagerThreads
    PROVE  MInv'
  <1> USE AlertsAssumption, FlasherAssumption DEF MInv, ManagerTypeOK
  <1>1. ASSUME NEW u, PulseBegins(u) \/ PulseEnds(u)
        PROVE  MInv'
    BY <1>1 DEF PulseBegins, PulseEnds
  <1>2. ASSUME NEW b \in DOMAIN beacons, BeaconTests(b)
        PROVE  MInv'
    <2>1. beacons[b] \in Beacon /\ b[2] \in Pins
      BY <1>2 DEF BeaconTests, BeaconAt
    <2>2. [beacons[b] EXCEPT !.at = "on"] \in Beacon
      BY <2>1 DEF Beacon
    <2>3. beacons' \in [(1 .. MaxAlerts) \X Pins -> Beacon \cup {None}]
      BY <1>2, <2>2 DEF BeaconTests
    <2>4. registered' \in [Pins -> 0 .. MaxAlerts]
      BY <1>2 DEF BeaconTests
    <2> QED
      BY <1>2, <2>3, <2>4 DEF BeaconTests
  <1>3. ASSUME NEW b \in DOMAIN beacons, BeaconOn(b)
        PROVE  MInv'
    <2>1. beacons[b] \in Beacon
      BY <1>3 DEF BeaconOn, BeaconAt
    <2>2. beacons' \in [(1 .. MaxAlerts) \X Pins -> Beacon \cup {None}]
      BY <1>3, <2>1 DEF BeaconOn, Beacon
    <2> QED
      BY <1>3, <2>2 DEF BeaconOn
  <1>4. ASSUME NEW b \in DOMAIN beacons, BeaconOff(b)
        PROVE  MInv'
    <2>1. beacons[b] \in Beacon
      BY <1>4 DEF BeaconOff, BeaconAt
    <2>2. beacons' \in [(1 .. MaxAlerts) \X Pins -> Beacon \cup {None}]
      BY <1>4, <2>1 DEF BeaconOff, Beacon
    <2> QED
      BY <1>4, <2>2 DEF BeaconOff
  <1> QED
    BY <1>1, <1>2, <1>3, <1>4 DEF ManagerThreads

LEMMA StepKeepsMInv ==
    ASSUME MInv, setup \in Setups, [Next]_vars
    PROVE  MInv'
  <1>1. CASE UNCHANGED managerVars
    BY <1>1 DEF managerVars, MInv, ManagerTypeOK
  <1>2. CASE Next
    <2>1. CASE AlertThread
      BY <1>2, <2>1, BeforePlayoutTyped, AfterPlayoutTyped DEF Next, AlertThread
    <2>2. CASE \E isForwarded \in BOOLEAN : AlertArrives(isForwarded)
      BY <1>2, <2>2, BeforePlayoutTyped DEF Next
    <2>3. CASE ManagerThreads
      BY <1>2, <2>3, ManagerThreadsTyped DEF Next
    <2> QED
      BY <1>1, <1>2, <2>1, <2>2, <2>3 DEF Next
  <1> QED
    BY <1>1, <1>2 DEF vars

-----------------------------------------------------------------------------
(* Whatever a step of the broadcaster does to the pins, it does it through *)
(* one operation of the controller on one pin.                             *)
Operation ==
    \/ UNCHANGED gpioVars
    \/ \E p \in Pins, success \in BOOLEAN : Activate(p, success)
    \/ \E p \in Pins : Deactivate(p)
    \/ Threads

LEMMA AlertThreadOperates ==
    ASSUME AlertThread
    PROVE  Operation
  <1>1. CASE AlertAbandoned \/ StartAlert \/ HoldsAdded \/ AllActivated
    BY <1>1 DEF AlertAbandoned, StartAlert, HoldsAdded, AllActivated, Operation
  <1>2. CASE BeaconsStarted
    BY <1>2 DEF BeaconsStarted, Operation
  <1>3. CASE PlayoutEnds \/ AlertEnds
    BY <1>3 DEF PlayoutEnds, AlertEnds, Operation
  <1>4. CASE HoldsReleased
    BY <1>4 DEF HoldsReleased, Operation
  <1>5. ASSUME NEW p \in Pins, NEW b \in Holds, AddHold(p, b)
        PROVE  Operation
    BY <1>5 DEF AddHold, Operation
  <1>6. ASSUME NEW p \in Pins, NEW b \in Holds, ReleaseHold(p, b)
        PROVE  Operation
    BY <1>6 DEF ReleaseHold, Operation
  <1>7. ASSUME NEW p \in Pins, StartBeacon(p) \/ StopBeacon(p)
        PROVE  Operation
    BY <1>7 DEF StartBeacon, StopBeacon, Operation
  <1>8. ASSUME NEW p \in Pins, ActivateAll(p)
        PROVE  Operation
    BY <1>8 DEF ActivateAll, Operation
  <1>9. ASSUME NEW p \in Pins, DeactivateAll(p) \/ SwitchOff(p)
        PROVE  Operation
    BY <1>9 DEF DeactivateAll, SwitchOff, Operation
  <1> QED
    BY <1>1, <1>2, <1>3, <1>4, <1>5, <1>6, <1>7, <1>8, <1>9 DEF AlertThread

LEMMA ManagerThreadsOperate ==
    ASSUME MInv, ManagerThreads
    PROVE  Operation
  <1>1. ASSUME NEW u \in waiting \cup pulsing, PulseBegins(u) \/ PulseEnds(u)
        PROVE  Operation
    <2>1. u.pin \in Pins
      BY DEF MInv, ManagerTypeOK, Pulse
    <2> QED
      BY <1>1, <2>1 DEF PulseBegins, PulseEnds, Operation
  <1>2. ASSUME NEW b \in DOMAIN beacons, BeaconTests(b) \/ BeaconOn(b) \/ BeaconOff(b)
        PROVE  Operation
    <2>1. b[2] \in Pins
      BY DEF MInv, ManagerTypeOK
    <2>2. BeaconPartner(b[2]) \in Pins \cup {None}
      BY DEF BeaconPartner, PinsFor
    <2>3. CASE BeaconTests(b)
      BY <2>3 DEF BeaconTests, Operation
    <2>4. CASE BeaconOn(b)
      BY <2>1, <2>2, <2>4 DEF BeaconOn, Operation
    <2>5. CASE BeaconOff(b)
      BY <2>1, <2>2, <2>5 DEF BeaconOff, Operation
    <2> QED
      BY <1>2, <2>3, <2>4, <2>5
  <1> QED
    BY <1>1, <1>2 DEF ManagerThreads

LEMMA StepIsOperation ==
    ASSUME MInv, [Next]_vars
    PROVE  Operation /\ UNCHANGED setup
  <1>1. CASE UNCHANGED vars
    BY <1>1 DEF vars, Operation
  <1>2. ASSUME NEW isForwarded \in BOOLEAN, AlertArrives(isForwarded)
        PROVE  Operation
    BY <1>2 DEF AlertArrives, Operation
  <1>3. Threads => Operation
    BY DEF Operation
  <1> QED
    BY <1>1, <1>2, <1>3, AlertThreadOperates, ManagerThreadsOperate DEF Next

LEMMA StepKeepsGInv ==
    ASSUME MInv, GInv, [Next]_vars
    PROVE  GInv'
  <1>1. Operation /\ UNCHANGED setup
    BY StepIsOperation DEF GInv, GPIOTypeOK
  <1>2. CASE UNCHANGED gpioVars
    BY <1>1, <1>2 DEF GInv, gpioVars, GPIOTypeOK, WatchdogArmed, FlashStops
  <1>3. CASE \E p \in Pins, success \in BOOLEAN : Activate(p, success)
    BY <1>1, <1>3, ActivateKeepsGInv
  <1>4. CASE \E p \in Pins : Deactivate(p)
    BY <1>1, <1>4, DeactivateKeepsGInv
  <1>5. CASE Threads
    BY <1>1, <1>5, WatchdogKeepsGInv, FlashKeepsGInv DEF Threads
  <1> QED
    BY <1>1, <1>2, <1>3, <1>4, <1>5 DEF Operation

-----------------------------------------------------------------------------
(* Holds.  A hold is one of the current alert's, whoever has a hold will   *)
(* be released through the manager, and the loop of end_alert still has    *)
(* every hold ahead of it.                                                 *)
HInv ==
    /\ \A p \in Pins : holds[p] \subseteq HoldsOf(forwarded) \cap setup.matrix[p]
    /\ owed # "manager" \/ phase \in {"idle", "incoming", "stopping"} =>
          \A p \in Pins : holds[p] = {}
    /\ phase = "starting" => todo \subseteq Entries(HoldsOf(forwarded))
    /\ phase = "all" => owed # "manager"
    /\ phase = "ending" => \A p \in Pins : \A b \in holds[p] : <<p, b>> \in todo

LEMMA StepKeepsHInv ==
    ASSUME MInv, HInv, setup \in Setups, [Next]_vars
    PROVE  HInv'
  <1> USE DEF MInv, ManagerTypeOK, Phases
  <1>0. UNCHANGED setup
    BY DEF Next, vars
  <1>1. CASE UNCHANGED <<setup, phase, forwarded, owed, todo, holds>>
    BY <1>1 DEF HInv, HoldsOf, Entries
  <1>2. ASSUME NEW isForwarded \in BOOLEAN, AlertArrives(isForwarded)
        PROVE  HInv'
    BY <1>2 DEF AlertArrives, HInv
  <1>3. CASE AlertAbandoned \/ AllActivated \/ AlertEnds
    BY <1>0, <1>3 DEF AlertAbandoned, AllActivated, AlertEnds, HInv, HoldsOf
  <1>4. CASE StartAlert
    BY <1>0, <1>4 DEF StartAlert, HInv, HoldsOf, Entries
  <1>5. CASE HoldsAdded
    BY <1>0, <1>5 DEF HoldsAdded, HInv, HoldsOf
  <1>6. CASE BeaconsStarted
    BY <1>0, <1>6 DEF BeaconsStarted, HInv, HoldsOf
  <1>7. CASE PlayoutEnds
    <2>1. CASE owed = "manager"
      <3>1. \A p \in Pins : \A b \in holds[p] : <<p, b>> \in Entries(HoldsOf(forwarded))
        BY DEF HInv, Entries
      <3> QED
        BY <1>0, <1>7, <2>1, <3>1 DEF PlayoutEnds, HInv, HoldsOf
    <2>2. CASE owed # "manager"
      BY <1>0, <1>7, <2>2 DEF PlayoutEnds, HInv, HoldsOf
    <2> QED
      BY <2>1, <2>2
  <1>8. CASE HoldsReleased
    <2>1. \A p \in Pins : holds[p] = {}
      BY <1>8 DEF HoldsReleased, HInv
    <2> QED
      BY <1>0, <1>8, <2>1 DEF HoldsReleased, HInv
  <1>9. ASSUME NEW p \in Pins, NEW b \in Holds, AddHold(p, b)
        PROVE  HInv'
    <2>1. b \in HoldsOf(forwarded) \cap setup.matrix[p]
      BY <1>9 DEF AddHold, NextHold, HInv, Entries
    <2>2. \A q \in Pins : holds'[q] \subseteq HoldsOf(forwarded) \cap setup.matrix[q]
      BY <1>9, <2>1 DEF AddHold, HInv
    <2>3. owed' # "manager" => \A q \in Pins : holds'[q] = {}
      BY <1>9 DEF AddHold, HInv
    <2>4. todo' \subseteq Entries(HoldsOf(forwarded))
      BY <1>9 DEF AddHold, HInv
    <2>5. phase = "starting" /\ phase' = "starting" /\ forwarded' = forwarded
      BY <1>9 DEF AddHold
    <2> QED
      BY <1>0, <2>2, <2>3, <2>4, <2>5 DEF HInv, HoldsOf, Entries
  <1>10. ASSUME NEW p \in Pins, NEW b \in Holds, ReleaseHold(p, b)
         PROVE  HInv'
    <2>1. \A q \in Pins : \A c \in holds'[q] : <<q, c>> \in todo'
      BY <1>10 DEF ReleaseHold, HInv
    <2>2. \A q \in Pins : holds'[q] \subseteq holds[q]
      BY <1>10 DEF ReleaseHold
    <2> QED
      BY <1>0, <1>10, <2>1, <2>2 DEF ReleaseHold, HInv, HoldsOf
  <1>11. ASSUME NEW p \in Pins, StartBeacon(p) \/ StopBeacon(p) \/ SwitchOff(p)
         PROVE  HInv'
    BY <1>0, <1>11 DEF StartBeacon, StopBeacon, SwitchOff, HInv, HoldsOf
  <1>12. ASSUME NEW p \in Pins, ActivateAll(p)
         PROVE  HInv'
    BY <1>0, <1>12 DEF ActivateAll, HInv, HoldsOf
  <1>13. ASSUME NEW p \in Pins, DeactivateAll(p)
         PROVE  HInv'
    <2>1. \A q \in Pins : \A c \in holds[q] : <<q, c>> \in todo'
      BY <1>13 DEF DeactivateAll, HInv, Holds
    <2> QED
      BY <1>0, <1>13, <2>1 DEF DeactivateAll, HInv, HoldsOf
  <1>14. ManagerThreads => UNCHANGED <<phase, forwarded, owed, todo, holds>>
    BY DEF ManagerThreads, PulseBegins, PulseEnds, BeaconTests, BeaconOn, BeaconOff
  <1> QED
    BY <1>0, <1>1, <1>2, <1>3, <1>4, <1>5, <1>6, <1>7, <1>8, <1>9, <1>10, <1>11, <1>12,
       <1>13, <1>14 DEF Next, AlertThread, vars, managerVars

-----------------------------------------------------------------------------
(* The invariants of the broadcaster.                                      *)

IInv == MInv /\ GInv /\ HInv

LEMMA InitIInv == Init => IInv
  <1> SUFFICES ASSUME Init
               PROVE  IInv
    OBVIOUS
  <1> USE PinsAssumption, AlertsAssumption, FlasherAssumption DEF Init, GPIOInit
  <1>1. MInv
    <2>1. /\ phase \in Phases /\ forwarded \in BOOLEAN
          /\ owed \in {"nothing", "manager", "all"}
      BY DEF Phases
    <2>2. alerts \in 0 .. MaxAlerts /\ registered \in [Pins -> 0 .. MaxAlerts]
      OBVIOUS
    <2>3. beacons \in [(1 .. MaxAlerts) \X Pins -> Beacon \cup {None}]
      OBVIOUS
    <2> QED
      BY <2>1, <2>2, <2>3 DEF MInv, ManagerTypeOK
  <1>2. GInv
    BY DEF GInv, GPIOTypeOK, WatchdogArmed, FlashStops, States
  <1>3. HInv
    BY DEF HInv
  <1> QED
    BY <1>1, <1>2, <1>3 DEF IInv

THEOREM Invariance == Spec => []IInv
  <1>1. IInv /\ [Next]_vars => IInv'
    BY StepKeepsMInv, StepKeepsGInv, StepKeepsHInv DEF IInv, GInv, GPIOTypeOK
  <1> QED
    BY InitIInv, <1>1, PTL DEF Spec

(* Type correctness: whatever the operator configured and however the      *)
(* threads of gpio.py interleave, every table keeps its shape; in          *)
(* particular only holds are entered in _hold_map.                         *)
THEOREM TypeCorrect == Spec => []TypeOK
  <1>1. IInv => TypeOK
    BY DEF IInv, MInv, ManagerTypeOK, GInv, TypeOK
  <1> QED
    BY Invariance, <1>1, PTL

(* "Watchdog timers to prevent stuck relays": in every behaviour, a pin    *)
(* that is active has a watchdog asleep that will end its activation.      *)
THEOREM RelaysWatched == Spec => []WatchdogArmed
  <1>1. IInv => WatchdogArmed
    BY DEF IInv, GInv
  <1> QED
    BY Invariance, <1>1, PTL

(* end_alert releases whatever start_alert took: no hold of an alert is    *)
(* left in _hold_map when the next one arrives.                            *)
THEOREM HoldsReleasedInTime == Spec => []HoldsEnd
  <1>1. IInv => HoldsEnd
    BY DEF IInv, HInv, HoldsEnd
  <1> QED
    BY Invariance, <1>1, PTL

-----------------------------------------------------------------------------
(* Pins that only holds drive: no pulse and no beacon ever deactivates     *)
(* one, and from start_alert on each has been activated or is still to be. *)
HoldsOnly(p) == setup.matrix[p] \subseteq Holds /\ HeldBy(p) # {}

Covered(p) ==
    \/ state[p] # "inactive"
    \/ phase = "starting" /\ holds[p] = {} /\ \A b \in HeldBy(p) : <<p, b>> \in todo

ThreadsInv ==
    /\ \A u \in waiting \cup pulsing : u.behavior \in setup.matrix[u.pin]
    /\ \A b \in DOMAIN beacons : beacons[b] # None => "flash" \in setup.matrix[b[2]]
    /\ phase = "flashing" => todo \subseteq Entries({"flash"})

CoverInv ==
    phase \in {"starting", "flashing", "all", "playing"} =>
        \A p \in Pins : HoldsOnly(p) => Covered(p)

KInv == ThreadsInv /\ CoverInv

(* A pin becomes inactive by its own deactivation only.                    *)
LEMMA ActivatedPin ==
    ASSUME GPIOTypeOK, NEW p \in Pins, NEW success \in BOOLEAN, Activate(p, success)
    PROVE  /\ \A q \in Pins \ {p} : state'[q] = state[q]
           /\ state'[p] # "inactive"
  BY DEF Activate, DeviceFails, Energize, GPIOTypeOK, gpioVars

LEMMA DeactivatedPin ==
    ASSUME GPIOTypeOK, NEW p \in Pins, Deactivate(p)
    PROVE  \A q \in Pins \ {p} : state'[q] = state[q]
  BY DEF Deactivate, Release, DeviceFails, GPIOTypeOK

LEMMA ThreadsKeepPins ==
    ASSUME GPIOTypeOK, Threads, NEW q \in Pins, state'[q] = "inactive"
    PROVE  state[q] = "inactive"
  <1>1. ASSUME NEW p \in Pins, WatchdogFires(p) PROVE state[q] = "inactive"
    BY <1>1 DEF WatchdogFires, Release, DeviceFails, GPIOTypeOK
  <1>2. ASSUME NEW f \in Flashers, Flash(f) PROVE state[q] = "inactive"
    BY <1>2 DEF Flash, FlashTests, FlashToggles, FlashFails, FlashEnds
  <1> QED
    BY <1>1, <1>2 DEF Threads

(* The threads of the manager only drive pins of their own behaviors.      *)
LEMMA ManagerThreadsKeepPins ==
    ASSUME IInv, KInv, ManagerThreads, NEW q \in Pins, HoldsOnly(q), state'[q] = "inactive"
    PROVE  state[q] = "inactive"
  <1> USE DEF IInv, MInv, GInv, ManagerTypeOK
  <1>0. Holds \cap Pulses = {} /\ "flash" \notin Holds
    BY DEF Holds, Pulses
  <1>1. ASSUME NEW u \in waiting, PulseBegins(u) PROVE state[q] = "inactive"
    <2>1. u.pin \in Pins
      BY DEF Pulse
    <2> QED
      BY <1>1, <2>1, ActivatedPin DEF PulseBegins
  <1>2. ASSUME NEW u \in pulsing, PulseEnds(u) PROVE state[q] = "inactive"
    <2>1. u.pin \in Pins /\ u.behavior \in Pulses
      BY DEF Pulse
    <2>2. u.pin # q
      BY <1>0, <2>1 DEF KInv, ThreadsInv, HoldsOnly
    <2> QED
      BY <1>2, <2>1, <2>2, DeactivatedPin DEF PulseEnds
  <1>3. ASSUME NEW b \in DOMAIN beacons, BeaconTests(b) PROVE state[q] = "inactive"
    BY <1>3 DEF BeaconTests, gpioVars
  <1>4. ASSUME NEW b \in DOMAIN beacons, BeaconOn(b) PROVE state[q] = "inactive"
    <2>1. b[2] \in Pins /\ BeaconPartner(b[2]) \in Pins \cup {None}
      BY DEF BeaconPartner, PinsFor
    <2>2. \/ UNCHANGED gpioVars
          \/ \E p \in Pins, success \in BOOLEAN : Activate(p, success)
      BY <1>4, <2>1 DEF BeaconOn
    <2> QED
      BY <2>2, ActivatedPin DEF gpioVars
  <1>5. ASSUME NEW b \in DOMAIN beacons, BeaconOff(b) PROVE state[q] = "inactive"
    <2>1. b[2] \in Pins /\ BeaconPartner(b[2]) \in PinsFor("flash") \cup {None}
      BY DEF BeaconPartner
    <2>2. "flash" \in setup.matrix[b[2]]
      BY <1>5 DEF BeaconOff, BeaconAt, KInv, ThreadsInv
    <2>3. \A p \in Pins : "flash" \in setup.matrix[p] => p # q
      BY <1>0 DEF HoldsOnly
    <2>4. UNCHANGED gpioVars \/ \E p \in Pins \ {q} : Deactivate(p)
      BY <1>5, <2>1, <2>2, <2>3 DEF BeaconOff, PinsFor
    <2> QED
      BY <2>4, DeactivatedPin DEF gpioVars
  <1> QED
    BY <1>1, <1>2, <1>3, <1>4, <1>5 DEF ManagerThreads, PulseBegins, PulseEnds

(* Pulses and beacons belong to pins with these behaviors.                 *)
LEMMA StepKeepsThreads ==
    ASSUME IInv, ThreadsInv, [Next]_vars
    PROVE  ThreadsInv'
  <1> USE DEF IInv, MInv, ManagerTypeOK
  <1>0. UNCHANGED setup
    BY DEF Next, vars
  <1>1. CASE UNCHANGED <<phase, todo, waiting, pulsing, beacons>>
    BY <1>0, <1>1 DEF ThreadsInv, Entries
  <1>2. ASSUME NEW behavior \in Pulses, Spawn(behavior)
        PROVE  \A u \in waiting' : u.behavior \in setup.matrix[u.pin]
    BY <1>2 DEF Spawn, PinsFor, ThreadsInv
  <1>3. ASSUME NEW isForwarded \in BOOLEAN, AlertArrives(isForwarded) PROVE ThreadsInv'
    <2>1. \A u \in waiting' : u.behavior \in setup.matrix[u.pin]
      BY <1>2, <1>3 DEF AlertArrives, Pulses
    <2> QED
      BY <1>0, <1>3, <2>1 DEF AlertArrives, ThreadsInv
  <1>4. CASE BeaconsStarted
    <2>1. \A u \in waiting' : u.behavior \in setup.matrix[u.pin]
      BY <1>2, <1>4 DEF BeaconsStarted, Pulses
    <2> QED
      BY <1>0, <1>4, <2>1 DEF BeaconsStarted, ThreadsInv
  <1>5. CASE AlertAbandoned \/ StartAlert \/ AllActivated \/ PlayoutEnds \/ AlertEnds
    BY <1>0, <1>5 DEF AlertAbandoned, StartAlert, AllActivated, PlayoutEnds, AlertEnds, ThreadsInv
  <1>6. CASE HoldsAdded
    BY <1>0, <1>6 DEF HoldsAdded, ThreadsInv, Entries
  <1>7. ASSUME NEW p \in Pins, StartBeacon(p) PROVE ThreadsInv'
    <2>1. "flash" \in setup.matrix[p] /\ <<alerts, p>> \in DOMAIN beacons
      BY <1>7 DEF StartBeacon, ThreadsInv, Entries
    <2>2. \A b \in DOMAIN beacons' : beacons'[b] # None => b \in DOMAIN beacons
                                        /\ (beacons[b] # None \/ b = <<alerts, p>>)
      BY <1>7, <2>1 DEF StartBeacon
    <2>3. \A b \in DOMAIN beacons' : beacons'[b] # None => "flash" \in setup.matrix[b[2]]
      BY <2>1, <2>2 DEF ThreadsInv
    <2> QED
      BY <1>0, <1>7, <2>3 DEF StartBeacon, ThreadsInv, Entries
  <1>8. ASSUME NEW p \in Pins, NEW b \in Holds, AddHold(p, b) \/ ReleaseHold(p, b)
        PROVE  ThreadsInv'
    BY <1>0, <1>8 DEF AddHold, ReleaseHold, ThreadsInv
  <1>9. ASSUME NEW p \in Pins, ActivateAll(p) \/ DeactivateAll(p) \/ SwitchOff(p)
        PROVE  ThreadsInv'
    BY <1>0, <1>9 DEF ActivateAll, DeactivateAll, SwitchOff, ThreadsInv
  <1>10. ASSUME DOMAIN beacons' = DOMAIN beacons,
                \A b \in DOMAIN beacons : beacons'[b] # None => beacons[b] # None,
                waiting' \cup pulsing' \subseteq waiting \cup pulsing,
                phase' = "flashing" => phase = "flashing" /\ todo' \subseteq todo
         PROVE  ThreadsInv'
    BY <1>0, <1>10 DEF ThreadsInv, Entries
  <1>11. CASE HoldsReleased
    BY <1>10, <1>11 DEF HoldsReleased
  <1>12. ASSUME NEW p \in Pins, StopBeacon(p) PROVE ThreadsInv'
    BY <1>10, <1>12 DEF StopBeacon
  <1>13. CASE ManagerThreads
    <2>1. ASSUME NEW u \in waiting \cup pulsing, PulseBegins(u) \/ PulseEnds(u) PROVE ThreadsInv'
      BY <1>10, <2>1 DEF PulseBegins, PulseEnds
    <2>2. ASSUME NEW b \in DOMAIN beacons, BeaconTests(b) \/ BeaconOn(b) \/ BeaconOff(b)
          PROVE  ThreadsInv'
      <3>1. beacons[b] # None /\ UNCHANGED <<phase, todo, waiting, pulsing>>
        BY <2>2 DEF BeaconTests, BeaconOn, BeaconOff, BeaconAt
      <3>2. DOMAIN beacons' = DOMAIN beacons
            /\ \A c \in DOMAIN beacons \ {b} : beacons'[c] = beacons[c]
        BY <2>2 DEF BeaconTests, BeaconOn, BeaconOff
      <3> QED
        BY <1>10, <3>1, <3>2
    <2> QED
      BY <1>13, <2>1, <2>2 DEF ManagerThreads
  <1> QED
    BY <1>1, <1>3, <1>4, <1>5, <1>6, <1>7, <1>8, <1>9, <1>11, <1>12, <1>13
       DEF Next, AlertThread, vars, managerVars

LEMMA StepKeepsCover ==
    ASSUME IInv, KInv, [Next]_vars
    PROVE  CoverInv'
  <1> SUFFICES ASSUME phase' \in {"starting", "flashing", "all", "playing"},
                      NEW q \in Pins, HoldsOnly(q)'
               PROVE  Covered(q)'
    BY DEF CoverInv
  <1> USE DEF IInv, MInv, GInv, ManagerTypeOK
  <1>0. UNCHANGED setup
    BY DEF Next, vars
  <1>1. ASSUME phase = phase', forwarded' = forwarded, UNCHANGED <<todo, holds>>,
               state'[q] = "inactive" => state[q] = "inactive"
        PROVE  Covered(q)'
    BY <1>0, <1>1 DEF KInv, CoverInv, Covered, HoldsOnly, HeldBy, HoldsOf
  <1>2. CASE StartAlert
    <2>1. holds[q] = {}
      BY <1>2 DEF StartAlert, HInv
    <2>2. \A b \in HeldBy(q)' : <<q, b>> \in todo'
      BY <1>0, <1>2 DEF StartAlert, HeldBy, Entries, HoldsOf
    <2> QED
      BY <1>2, <2>1, <2>2 DEF StartAlert, Covered
  <1>3. ASSUME NEW p \in Pins, NEW b \in Holds, AddHold(p, b) PROVE Covered(q)'
    <2>1. /\ phase = "starting" /\ phase' = "starting" /\ UNCHANGED forwarded
          /\ todo' = todo \ {<<p, b>>}
      BY <1>3 DEF AddHold
    <2>2. Covered(q) /\ HeldBy(q)' = HeldBy(q)
      BY <1>0, <2>1 DEF KInv, CoverInv, HoldsOnly, HeldBy, HoldsOf
    <2>3. \/ UNCHANGED <<state, holds>> /\ b \in holds[p]
          \/ \E success \in BOOLEAN : Activate(p, success)
      BY <1>3 DEF AddHold, gpioVars
    <2>4. q # p => holds'[q] = holds[q]
      BY <1>3 DEF AddHold
    <2>5. CASE UNCHANGED <<state, holds>> /\ b \in holds[p]
      BY <2>1, <2>2, <2>5 DEF Covered
    <2>6. CASE \E success \in BOOLEAN : Activate(p, success)
      <3>1. state'[p] # "inactive" /\ (q # p => state'[q] = state[q])
        BY <2>6, ActivatedPin
      <3> QED
        BY <2>1, <2>2, <2>4, <3>1 DEF Covered
    <2> QED
      BY <2>3, <2>5, <2>6
  <1>4. CASE HoldsAdded
    <2>1. HoldsOnly(q) /\ phase = "starting" /\ todo = {} /\ UNCHANGED state
      BY <1>0, <1>4 DEF HoldsAdded, HoldsOnly, HeldBy, HoldsOf, gpioVars
    <2>2. state[q] # "inactive"
      BY <2>1 DEF KInv, CoverInv, Covered, HoldsOnly
    <2> QED
      BY <2>1, <2>2 DEF Covered
  <1>5. CASE BeaconsStarted \/ AllActivated
    <2>1. /\ HoldsOnly(q) /\ phase \in {"flashing", "all"} /\ UNCHANGED state
      BY <1>0, <1>5 DEF BeaconsStarted, AllActivated, HoldsOnly, HeldBy, HoldsOf, gpioVars
    <2> QED
      BY <2>1 DEF KInv, CoverInv, Covered
  <1>6. ASSUME NEW p \in Pins, StartBeacon(p) PROVE Covered(q)'
    <2>1. HoldsOnly(q) /\ phase = "flashing" /\ UNCHANGED state
      BY <1>0, <1>6 DEF StartBeacon, HoldsOnly, HeldBy, HoldsOf, gpioVars
    <2> QED
      BY <2>1 DEF KInv, CoverInv, Covered
  <1>7. ASSUME NEW p \in Pins, ActivateAll(p) PROVE Covered(q)'
    <2>1. HoldsOnly(q) /\ phase = "all"
      BY <1>0, <1>7 DEF ActivateAll, HoldsOnly, HeldBy, HoldsOf
    <2>2. state'[p] # "inactive" /\ (q # p => state'[q] = state[q])
      BY <1>7, ActivatedPin DEF ActivateAll
    <2> QED
      BY <2>1, <2>2 DEF KInv, CoverInv, Covered
  <1>8. CASE ManagerThreads
    <2>1. UNCHANGED <<phase, forwarded, todo, holds>>
      BY <1>8 DEF ManagerThreads, PulseBegins, PulseEnds, BeaconTests, BeaconOn, BeaconOff
    <2>2. HoldsOnly(q)
      BY <1>0, <2>1 DEF HoldsOnly, HeldBy, HoldsOf
    <2> QED
      BY <1>1, <1>8, <2>1, <2>2, ManagerThreadsKeepPins
  <1>9. CASE Threads /\ UNCHANGED managerVars
    BY <1>1, <1>9, ThreadsKeepPins DEF managerVars
  <1>10. CASE UNCHANGED vars
    BY <1>1, <1>10 DEF vars, managerVars, gpioVars
  <1>11. \A isForwarded \in BOOLEAN : ~AlertArrives(isForwarded)
    BY DEF AlertArrives
  <1>12. ~(AlertAbandoned \/ PlayoutEnds \/ HoldsReleased \/ AlertEnds)
    BY DEF AlertAbandoned, PlayoutEnds, HoldsReleased, AlertEnds
  <1>13. \A p \in Pins : ~(DeactivateAll(p) \/ StopBeacon(p) \/ SwitchOff(p))
    BY DEF DeactivateAll, StopBeacon, SwitchOff
  <1>14. \A p \in Pins, b \in Holds : ~ReleaseHold(p, b)
    BY DEF ReleaseHold
  <1> QED
    BY <1>2, <1>3, <1>4, <1>5, <1>6, <1>7, <1>8, <1>9, <1>10, <1>11, <1>12, <1>13, <1>14
       DEF Next, AlertThread

(* Whatever the matrix, the pairs and the timing of pulses and beacons, a  *)
(* pin with hold behaviors only stays on while its alert is on the air.    *)
THEOREM HeldPinsHold == Spec => []HeldPinsStay
  <1>1. Init => KInv
    BY DEF Init, GPIOInit, KInv, ThreadsInv, CoverInv
  <1>2. IInv /\ KInv /\ [Next]_vars => KInv'
    BY StepKeepsThreads, StepKeepsCover DEF KInv
  <1>3. KInv => HeldPinsStay
    BY DEF KInv, CoverInv, HoldsOnly, Covered, HeldPinsStay
  <1> QED
    BY Invariance, <1>1, <1>2, <1>3, PTL DEF Spec
-----------------------------------------------------------------------------
(* Flash threads and outputs: the threads there are belong to pins that    *)
(* flash, one leaves its loop unasked only after an exception, and what    *)
(* they have switched last does not matter to the pins they do not drive.  *)
RunInv ==
    /\ \A f \in Flashers : flasher[f] # None => flasher[f].pin \in setup.flash
    /\ \A p \in Pins \ setup.flash : flashOf[p] = None
    /\ failures = 0 => FlashRuns /\ \A f \in Flashers :
          flasher[f] # None /\ flasher[f].at = "cleanup" => flasher[f].stop

LInv == RunInv /\ LevelFollowsState

(* A pin is switched off: its thread, if it has one, is told to stop, and  *)
(* that thread is no other pin's.                                          *)
LEMMA ReleaseKeepsLInv ==
    ASSUME GInv, LInv, NEW p \in Pins, NEW done \in States \ {"active"}, state[p] = "active",
           Release(p, done), UNCHANGED setup
    PROVE  LInv'
  <1> USE PinsAssumption, FlasherAssumption DEF GInv, GPIOTypeOK
  <1>1. \A f \in Flashers : /\ (flasher'[f] = None) <=> (flasher[f] = None)
                            /\ flasher[f] # None => /\ flasher'[f].pin = flasher[f].pin
                                                    /\ flasher'[f].at = flasher[f].at
                                                    /\ flasher[f].stop => flasher'[f].stop
                            /\ f # flashOf[p] => flasher'[f] = flasher[f]
    BY DEF Release, StopFlash, Flasher
  <1>2. /\ \A q \in Pins \ {p} : /\ state'[q] = state[q] /\ level'[q] = level[q]
                                 /\ flashOf'[q] = flashOf[q]
        /\ state'[p] = done /\ ~level'[p] /\ flashOf'[p] = None
        /\ failures' = failures
    BY DEF Release, StopFlash
  <1>3. ASSUME failures = 0 PROVE FlashRuns'
    <2> SUFFICES ASSUME NEW q \in setup.flash, state'[q] = "active"
                 PROVE  \E f \in Flashers : flashOf'[q] = f /\ RunsFor(f, q)'
      BY DEF FlashRuns
    <2>1. q \in Pins /\ q # p /\ state[q] = "active"
      BY <1>2
    <2>2. PICK f \in Flashers : flashOf[q] = f /\ RunsFor(f, q)
      BY <1>3, <2>1 DEF LInv, RunInv, FlashRuns
    <2>3. flashOf[p] # f
      <3>1. CASE p \in setup.flash
        <4>1. PICK g \in Flashers : flashOf[p] = g /\ RunsFor(g, p)
          BY <1>3, <3>1 DEF LInv, RunInv, FlashRuns
        <4> QED
          BY <2>1, <2>2, <4>1 DEF RunsFor
      <3>2. CASE p \notin setup.flash
        BY <3>2 DEF LInv, RunInv
      <3> QED
        BY <3>1, <3>2
    <2> QED
      BY <1>1, <1>2, <2>1, <2>2, <2>3 DEF RunsFor
  <1>4. RunInv'
    BY <1>1, <1>2, <1>3 DEF LInv, RunInv
  <1>5. LevelFollowsState'
    BY <1>2 DEF LInv, LevelFollowsState, Flashes
  <1> QED
    BY <1>4, <1>5 DEF LInv

LEMMA FailureKeepsLInv ==
    ASSUME GInv, LInv, NEW p \in Pins, DeviceFails(p), UNCHANGED setup
    PROVE  LInv'
  <1> USE DEF GInv, GPIOTypeOK, LInv
  <1>1. failures' # 0
    BY DEF DeviceFails
  <1>2. RunInv'
    BY <1>1 DEF DeviceFails, RunInv
  <1>3. LevelFollowsState'
    BY DEF DeviceFails, LevelFollowsState, Flashes
  <1> QED
    BY <1>2, <1>3

LEMMA ActivateKeepsLInv ==
    ASSUME GInv, LInv, NEW p \in Pins, NEW success \in BOOLEAN, Activate(p, success),
           UNCHANGED setup
    PROVE  LInv'
  <1> USE PinsAssumption, FlasherAssumption DEF GInv, GPIOTypeOK
  <1>1. CASE UNCHANGED gpioVars
    BY <1>1 DEF gpioVars, LInv, RunInv, FlashRuns, RunsFor, LevelFollowsState, Flashes
  <1>2. CASE DeviceFails(p)
    BY <1>2, FailureKeepsLInv
  <1>3. CASE state[p] # "active" /\ Energize(p)
    <2>1. /\ level' = [level EXCEPT ![p] = TRUE] /\ state' = [state EXCEPT ![p] = "active"]
          /\ failures' = failures
      BY <1>3 DEF Energize
    <2>2. LevelFollowsState'
      BY <2>1 DEF LInv, LevelFollowsState, Flashes
    <2>3. CASE p \notin setup.flash
      <3>1. UNCHANGED <<flasher, flashOf>>
        BY <1>3, <2>3 DEF Energize, StartFlash
      <3>2. RunInv'
        BY <2>1, <2>3, <3>1 DEF LInv, RunInv, FlashRuns, RunsFor
      <3> QED
        BY <2>2, <3>2 DEF LInv
    <2>4. CASE p \in setup.flash
      <3> DEFINE New == [pin |-> p, at |-> "test", phase |-> 0, stop |-> FALSE]
      <3>1. PICK f \in Flashers : /\ flasher[f] = None
                                  /\ flasher' = [flasher EXCEPT ![f] = New]
                                  /\ flashOf' = [flashOf EXCEPT ![p] = f]
        BY <1>3, <2>4 DEF Energize, StartFlash
      <3>2. New # None
        <4>1. New \in Flasher
          BY DEF Flasher
        <4> QED
          BY <4>1
      <3>3. ASSUME failures = 0 PROVE FlashRuns'
        <4> SUFFICES ASSUME NEW q \in setup.flash, state'[q] = "active"
                     PROVE  \E g \in Flashers : flashOf'[q] = g /\ RunsFor(g, q)'
          BY DEF FlashRuns
        <4>1. CASE q = p
          BY <3>1, <3>2, <4>1 DEF RunsFor
        <4>2. CASE q # p
          <5>1. q \in Pins /\ state[q] = "active"
            BY <2>1, <4>2
          <5>2. PICK g \in Flashers : flashOf[q] = g /\ RunsFor(g, q)
            BY <3>3, <5>1 DEF LInv, RunInv, FlashRuns
          <5>3. g # f
            BY <3>1, <5>2 DEF RunsFor
          <5> QED
            BY <3>1, <4>2, <5>1, <5>2, <5>3 DEF RunsFor
        <4> QED
          BY <4>1, <4>2
      <3>4. RunInv'
        BY <2>1, <2>4, <3>1, <3>2, <3>3 DEF LInv, RunInv
      <3> QED
        BY <2>2, <3>4 DEF LInv
    <2> QED
      BY <2>3, <2>4
  <1> QED
    BY <1>1, <1>2, <1>3 DEF Activate

LEMMA DeactivateKeepsLInv ==
    ASSUME GInv, LInv, NEW p \in Pins, Deactivate(p) \/ WatchdogFires(p), UNCHANGED setup
    PROVE  LInv'
  <1>1. CASE state[p] = "active" /\ (Release(p, "inactive") \/ Release(p, "watchdog_timeout"))
    BY <1>1, ReleaseKeepsLInv DEF States
  <1>2. CASE DeviceFails(p)
    BY <1>2, FailureKeepsLInv
  <1>3. CASE UNCHANGED <<state, level, flasher, flashOf, failures>>
    BY <1>3 DEF LInv, RunInv, FlashRuns, RunsFor, LevelFollowsState, Flashes
  <1> QED
    BY <1>1, <1>2, <1>3 DEF Deactivate, WatchdogFires

(* A flash thread switches its pin and the partner, and nothing else.      *)
LEMMA FlashKeepsLInv ==
    ASSUME GInv, LInv, NEW f \in Flashers, Flash(f), UNCHANGED setup
    PROVE  LInv'
  <1> USE PinsAssumption, FlasherAssumption
  <1>0. GPIOTypeOK
    BY DEF GInv
  <1>1. /\ flasher[f] # None /\ flasher[f] \in Flasher
        /\ UNCHANGED <<state, flashOf>> /\ flasher[f].pin \in setup.flash
        /\ failures' \in Nat /\ (failures' = 0 => failures = 0)
    BY <1>0 DEF Flash, FlashTests, FlashToggles, FlashFails, FlashEnds, GPIOTypeOK, LInv, RunInv
  <1>2. /\ \A g \in Flashers \ {f} : flasher'[g] = flasher[g]
        /\ \/ flasher'[f] = None /\ flasher[f].at = "cleanup"
           \/ /\ flasher'[f] # None /\ flasher'[f].pin = flasher[f].pin
              /\ flasher'[f].stop = flasher[f].stop
              /\ flasher'[f].at = "cleanup" => flasher[f].stop \/ failures' # 0
    <2>1. CASE FlashTests(f)
      BY <1>0, <1>1, <2>1 DEF FlashTests, GPIOTypeOK, Flasher
    <2>2. CASE FlashToggles(f)
      BY <1>0, <1>1, <2>2 DEF FlashToggles, GPIOTypeOK, Flasher
    <2>3. CASE FlashFails(f)
      BY <1>0, <1>1, <2>3 DEF FlashFails, GPIOTypeOK, Flasher
    <2>4. CASE FlashEnds(f)
      BY <1>0, <1>1, <2>4 DEF FlashEnds, GPIOTypeOK
    <2> QED
      BY <2>1, <2>2, <2>3, <2>4 DEF Flash
  <1>3. ASSUME failures' = 0 PROVE FlashRuns'
    <2> SUFFICES ASSUME NEW q \in setup.flash, state'[q] = "active"
                 PROVE  \E g \in Flashers : flashOf'[q] = g /\ RunsFor(g, q)'
      BY DEF FlashRuns
    <2>1. PICK g \in Flashers : flashOf[q] = g /\ RunsFor(g, q)
      BY <1>1, <1>3 DEF LInv, RunInv, FlashRuns
    <2>2. g = f => flasher[f].at # "cleanup"
      BY <1>1, <1>3, <2>1 DEF LInv, RunInv, RunsFor
    <2> QED
      BY <1>1, <1>2, <2>1, <2>2 DEF RunsFor
  <1>4. RunInv'
    BY <1>1, <1>2, <1>3 DEF LInv, RunInv
  <1>5. \A q \in Pins : ~Flashes(q) => level'[q] = level[q]
    <2> SUFFICES ASSUME NEW q \in Pins, ~Flashes(q)
                 PROVE  level'[q] = level[q]
      OBVIOUS
    <2>1. q # flasher[f].pin /\ q # setup.partner[flasher[f].pin] /\ level \in [Pins -> BOOLEAN]
      BY <1>0, <1>1 DEF Flashes, GPIOTypeOK
    <2>2. CASE FlashToggles(f)
      BY <2>1, <2>2 DEF FlashToggles
    <2>3. CASE FlashTests(f) \/ FlashFails(f) \/ FlashEnds(f)
      BY <2>1, <2>3 DEF FlashTests, FlashFails, FlashEnds
    <2> QED
      BY <2>2, <2>3 DEF Flash
  <1>6. LevelFollowsState'
    BY <1>1, <1>5 DEF LInv, LevelFollowsState, Flashes
  <1> QED
    BY <1>4, <1>6 DEF LInv

LEMMA StepKeepsLInv ==
    ASSUME IInv, LInv, [Next]_vars
    PROVE  LInv'
  <1>1. Operation /\ UNCHANGED setup
    BY StepIsOperation DEF IInv
  <1>2. CASE UNCHANGED gpioVars
    BY <1>1, <1>2 DEF gpioVars, LInv, RunInv, FlashRuns, RunsFor, LevelFollowsState, Flashes
  <1>3. CASE \E p \in Pins, success \in BOOLEAN : Activate(p, success)
    BY <1>1, <1>3, ActivateKeepsLInv DEF IInv
  <1>4. CASE (\E p \in Pins : Deactivate(p)) \/ Threads
    BY <1>1, <1>4, DeactivateKeepsLInv, FlashKeepsLInv DEF Threads, IInv
  <1> QED
    BY <1>1, <1>2, <1>3, <1>4 DEF Operation

THEOREM LevelInvariance == Spec => []LInv
  <1>1. Init => LInv
    BY PinsAssumption DEF Init, GPIOInit, LInv, RunInv, FlashRuns, LevelFollowsState, Flashes
  <1>2. IInv /\ LInv /\ [Next]_vars => LInv'
    BY StepKeepsLInv
  <1> QED
    BY <1>1, <1>2, Invariance, PTL DEF Spec

(* As long as no device raised an exception, deactivating a pin reaches    *)
(* every flash thread of it that is still running, and an active pin that  *)
(* is to flash has one (gpio.py:966, gpio.py:1057).                        *)
THEOREM FlashesStop == Spec => []FlashStoppable
  <1>1. IInv /\ LInv => FlashStoppable
    BY DEF IInv, GInv, FlashStops, LInv, RunInv, FlashStoppable, FlashOwned, RunsFor
  <1> QED
    BY <1>1, Invariance, LevelInvariance, PTL

(* What the controller reports of a relay that no flash thread drives is   *)
(* how its output is, whatever raised, flashed or fired beside it, for any *)
(* pins and partners (gpio.py:929, gpio.py:1038).                          *)
THEOREM RelaysAreAsReported == Spec => []LevelFollowsState
  <1>1. LInv => LevelFollowsState
    BY DEF LInv
  <1> QED
    BY <1>1, LevelInvariance, PTL

=============================================================================
