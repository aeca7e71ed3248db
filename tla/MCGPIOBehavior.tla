--------------------------- MODULE MCGPIOBehavior ---------------------------
(* Small instances of GPIOBehavior: one or two relays, pins 1 and 2.       *)
EXTENDS GPIOBehavior, TLC

CONSTANTS f1, f2

NoPartner == [p \in Pins |-> None]
Each(first, second) == [p \in Pins |-> IF p = 1 THEN first ELSE second]

(* A transmitter's relay and a beacon.                                     *)
KeyAndBeacon == [flash |-> {}, partner |-> NoPartner,
    matrix |-> Each({"playout", "forwarding_alert"}, {"flash"})]

(* A flashing light for forwarded alerts, and a relay that is pulsed when  *)
(* any alert arrives: an alert that is not forwarded activates everything. *)
ForwardAndPulse == [flash |-> {1}, partner |-> NoPartner,
    matrix |-> Each({"forwarding_alert"}, {"incoming_alert"})]

(* A pair of beacons.                                                      *)
Pair == [flash |-> {}, partner |-> Each(2, 1), matrix |-> Each({"flash"}, {"flash"})]

(* A relay that is pulsed when an alert arrives and held while it plays,   *)
(* next to one that is only held.                                          *)
PulsedKey == [flash |-> {}, partner |-> NoPartner,
    matrix |-> Each({"incoming_alert", "forwarding_alert"}, {"playout"})]

(* A light that flashes while an alert plays.                              *)
Light == [flash |-> {1}, partner |-> NoPartner, matrix |-> Each({"playout"}, {})]

Installations == {KeyAndBeacon, ForwardAndPulse, Pair}
OnlyPulsedKey == {PulsedKey}
OnlyLight == {Light}
FlasherSymmetry == Permutations(Flashers)
=============================================================================
