---------------------------- MODULE MCEASMonitor ----------------------------
(* Small instances of EASMonitor for TLC.                                  *)
EXTENDS EASMonitor

CONSTANTS s1, s2, h1, h2, t1, t2

(* Two headers with different event codes.                                 *)
DistinctEvents == [h \in Headers |-> IF h = h1 THEN "TOR" ELSE "SVR"]

(* Two headers with the same event code and different locations.           *)
SameEvents == [h \in Headers |-> "TOR"]
=============================================================================
