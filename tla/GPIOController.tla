--------------------------- MODULE GPIOController ---------------------------
(***************************************************************************)
(* The relay outputs of one GPIOController (app_utils/gpio.py).            *)
(*                                                                         *)
(* activate(), deactivate() and the body of the watchdog run under the     *)
(* controller's lock from beginning to end, their sleeps included, so each *)
(* of them is one step.  Three kinds of threads outlive the call that      *)
(* starts them: the watchdog of each activation, which nothing cancels,    *)
(* the flash thread of each activation of a flashing pin, which takes the  *)
(* lock for each toggle only, and whoever will deactivate the pin.         *)
(***************************************************************************)
EXTENDS Integers, FiniteSets

CONSTANTS
    Pins,          \* configured pins
    Setups,        \* what the operator may have configured for them
    MaxWatchdogs,  \* bound: watchdog threads of one pin that are asleep
    Flashers,      \* identities of flash threads; bound: how many exist at once
    MaxFailures,   \* bound: exceptions raised by the devices
    None

ASSUME PinsAssumption ==
    /\ \A s \in Setups :
          /\ s.flash \subseteq Pins
          /\ s.partner \in [Pins -> Pins \cup {None}]
          /\ \A p \in Pins : s.partner[p] # p
    /\ MaxWatchdogs \in Nat \ {0}
    /\ MaxFailures \in Nat

States == {"inactive", "active", "error", "watchdog_timeout"}

(* A flash thread: about to test its stop event, past the test on its way  *)
(* to toggle, or done with its loop.  stop is its stop event.              *)
Flasher == [pin : Pins, at : {"test", "toggle", "cleanup"}, phase : {0, 1},
            stop : BOOLEAN]

ASSUME FlasherAssumption == None \notin Pins \cup Flashers \cup Flasher

VARIABLES
    setup,      \* _pins: flash, the pins with flash_enabled, and partner, the
                \* flash_partner_pin of each (fixed while the program runs)
    state,      \* _states
    level,      \* is the output of the pin's device on?
    watchdogs,  \* watchdog threads of the pin that are still asleep
    flasher,    \* the flash threads that exist
    flashOf,    \* _flash_stop_events: the flash thread deactivate() will stop
    failures    \* exceptions raised by devices so far

gpioVars == <<state, level, watchdogs, flasher, flashOf, failures>>

GPIOTypeOK ==
    /\ setup \in Setups
    /\ state \in [Pins -> States]
    /\ level \in [Pins -> BOOLEAN]
    /\ watchdogs \in [Pins -> 0 .. MaxWatchdogs]
    /\ flasher \in [Flashers -> Flasher \cup {None}]
    /\ flashOf \in [Pins -> Flashers \cup {None}]
    /\ failures \in 0 .. MaxFailures

(* add_pin of every pin, with its device.                                  *)
GPIOInit ==
    /\ setup \in Setups
    /\ state = [p \in Pins |-> "inactive"]
    /\ level = [p \in Pins |-> FALSE]
    /\ watchdogs = [p \in Pins |-> 0]
    /\ flasher = [f \in Flashers |-> None]
    /\ flashOf = [p \in Pins |-> None]
    /\ failures = 0

-----------------------------------------------------------------------------
(* activate().                                                             *)

(* Fault: the exception is logged, and the pin keeps its state.            *)
DeviceFails_KeepsState(p) ==
    /\ failures < MaxFailures
    /\ failures' = failures + 1
    /\ UNCHANGED <<state, level, flasher, flashOf>>

(* The device raised: the pin is in error, and nothing was started or      *)
(* stopped for it.                                                         *)
DeviceFails(p) ==
    /\ failures < MaxFailures
    /\ failures' = failures + 1
    /\ state' = [state EXCEPT ![p] = "error"]
    /\ UNCHANGED <<level, flasher, flashOf>>

StartFlash(p) ==
    IF p \notin setup.flash THEN UNCHANGED <<flasher, flashOf>>
    ELSE \E f \in Flashers :
            /\ flasher[f] = None
            /\ flasher' = [flasher EXCEPT ![f] =
                  [pin |-> p, at |-> "test", phase |-> 0, stop |-> FALSE]]
            /\ flashOf' = [flashOf EXCEPT ![p] = f]

(* The device is on: a watchdog of its own for this activation.            *)
Energize(p) ==
    /\ watchdogs[p] < MaxWatchdogs
    /\ level' = [level EXCEPT ![p] = TRUE]
    /\ state' = [state EXCEPT ![p] = "active"]
    /\ watchdogs' = [watchdogs EXCEPT ![p] = @ + 1]
    /\ StartFlash(p)
    /\ UNCHANGED failures

(* What activate() does and returns.                                       *)
Activate(p, success) ==
    \/ ~success /\ state[p] = "active" /\ UNCHANGED gpioVars
    \/ ~success /\ state[p] # "active" /\ DeviceFails(p) /\ UNCHANGED watchdogs
    \/ success /\ state[p] # "active" /\ Energize(p)

-----------------------------------------------------------------------------
(* deactivate().                                                           *)

(* Fault: the stop event is forgotten without being set.                   *)
StopFlash_Forgets(p) ==
    /\ flashOf' = [flashOf EXCEPT ![p] = None]
    /\ UNCHANGED flasher

(* The thread is told to stop; it cannot end before the caller gives the   *)
(* lock back, so the join only costs time.                                 *)
StopFlash(p) ==
    /\ flashOf' = [flashOf EXCEPT ![p] = None]
    /\ flasher' = [f \in Flashers |->
          IF f = flashOf[p] /\ flasher[f] # None
          THEN [flasher[f] EXCEPT !.stop = TRUE] ELSE flasher[f]]

(* The device is off.                                                      *)
Release(p, done) ==
    /\ level' = [level EXCEPT ![p] = FALSE]
    /\ state' = [state EXCEPT ![p] = done]
    /\ StopFlash(p)
    /\ UNCHANGED failures

(* _stop_watchdog forgets the watchdog thread, which stays asleep.         *)
Deactivate(p) ==
    /\ \/ state[p] # "active" /\ UNCHANGED <<state, level, flasher, flashOf, failures>>
       \/ state[p] = "active" /\ (Release(p, "inactive") \/ DeviceFails(p))
    /\ UNCHANGED watchdogs

-----------------------------------------------------------------------------
(* The threads of the controller.                                          *)

(* A watchdog wakes up: whatever activation the pin is in now ends.        *)
WatchdogFires(p) ==
    /\ watchdogs[p] > 0
    /\ watchdogs' = [watchdogs EXCEPT ![p] = @ - 1]
    /\ \/ state[p] # "active" /\ UNCHANGED <<state, level, flasher, flashOf, failures>>
       \/ state[p] = "active" /\ (Release(p, "watchdog_timeout") \/ DeviceFails(p))

FlashTests(f) ==
    /\ flasher[f] # None /\ flasher[f].at = "test"
    /\ flasher' = [flasher EXCEPT ![f].at =
          IF flasher[f].stop THEN "cleanup" ELSE "toggle"]
    /\ UNCHANGED <<state, level, watchdogs, flashOf, failures>>

(* Fault: the phase is counted up instead of alternating.                  *)
FlashToggles_NoWrap(f) ==
    /\ flasher[f] # None /\ flasher[f].at = "toggle"
    /\ LET p == flasher[f].pin
           on == flasher[f].phase = 0
       IN  level' = [q \in Pins |->
              IF q = p THEN on ELSE IF q = setup.partner[p] THEN ~on ELSE level[q]]
    /\ flasher' = [flasher EXCEPT ![f].at = "test", ![f].phase = @ + 1]
    /\ UNCHANGED <<state, watchdogs, flashOf, failures>>

(* The thread tested its stop event before it had the lock: by now it may  *)
(* have been told to stop.                                                 *)
FlashToggles(f) ==
    /\ flasher[f] # None /\ flasher[f].at = "toggle"
    /\ LET p == flasher[f].pin
           on == flasher[f].phase = 0
       IN  level' = [q \in Pins |->
              IF q = p THEN on ELSE IF q = setup.partner[p] THEN ~on ELSE level[q]]
    /\ flasher' = [flasher EXCEPT ![f].at = "test", ![f].phase = 1 - @]
    /\ UNCHANGED <<state, watchdogs, flashOf, failures>>

(* A device raised, the pin's own or its partner's: the thread leaves its  *)
(* loop.                                                                   *)
FlashFails(f) ==
    /\ flasher[f] # None /\ flasher[f].at = "toggle"
    /\ failures < MaxFailures
    /\ failures' = failures + 1
    /\ LET p == flasher[f].pin
       IN  \/ UNCHANGED level
          \/ /\ setup.partner[p] # None
             /\ level' = [level EXCEPT ![p] = flasher[f].phase = 0]
    /\ flasher' = [flasher EXCEPT ![f].at = "cleanup"]
    /\ UNCHANGED <<state, watchdogs, flashOf>>

(* The cleanup only ever switches its pin on.                              *)
FlashEnds(f) ==
    /\ flasher[f] # None /\ flasher[f].at = "cleanup"
    /\ LET p == flasher[f].pin
       IN  level' = [level EXCEPT ![p] = @ \/ state[p] = "active"]
    /\ flasher' = [flasher EXCEPT ![f] = None]
    /\ UNCHANGED <<state, watchdogs, flashOf, failures>>

Flash(f) == FlashTests(f) \/ FlashToggles(f) \/ FlashFails(f) \/ FlashEnds(f)

Threads == (\E p \in Pins : WatchdogFires(p)) \/ (\E f \in Flashers : Flash(f))

-----------------------------------------------------------------------------
(* Properties.                                                             *)

(* "Watchdog timers to prevent stuck relays": however activations,         *)
(* releases and late watchdogs of earlier activations interleave, a pin    *)
(* that is active has a watchdog that has not fired yet.                   *)
WatchdogArmed == \A p \in Pins : state[p] = "active" => watchdogs[p] > 0

RunsFor(f, p) == flasher[f] # None /\ flasher[f].pin = p /\ ~flasher[f].stop

(* As long as no device raised an exception, a flash thread that will not  *)
(* stop by itself is the one that its pin's deactivation will stop, and    *)
(* every active pin that is to flash has one: activations and releases     *)
(* that follow each other faster than the threads come and go neither      *)
(* leave one behind nor a pin without (gpio.py:966, gpio.py:1057).          *)
FlashOwned == \A f \in Flashers, p \in Pins :
                 RunsFor(f, p) => state[p] = "active" /\ flashOf[p] = f
FlashRuns == \A p \in setup.flash : state[p] = "active" =>
                 \E f \in Flashers : flashOf[p] = f /\ RunsFor(f, p)
FlashStoppable == failures = 0 => FlashOwned /\ FlashRuns

(* A relay that no flash thread drives, its own or that of a pin it is the *)
(* partner of, is on when the controller reports it active and off when it *)
(* reports it released, after exceptions and late watchdogs as well        *)
(* (gpio.py:929, gpio.py:1038).                                             *)
Flashes(p) == p \in setup.flash \/ \E q \in setup.flash : setup.partner[q] = p
LevelFollowsState ==
    \A p \in Pins : ~Flashes(p) =>
        /\ state[p] = "active" => level[p]
        /\ state[p] \in {"inactive", "watchdog_timeout"} => ~level[p]

(* "If the pin is still marked as active, it's set to solid ON.            *)
(* Otherwise, it's set to OFF": when no flash thread of a deactivated pin  *)
(* is left, the pin is off.                                                *)
FlashLeavesPinsOff ==
    failures = 0 =>
        \A p \in Pins :
            (\A f \in Flashers : flasher[f] # None => flasher[f].pin # p)
                => (state[p] = "inactive" => ~level[p])
=============================================================================
