--------------------------- MODULE MasterElection ---------------------------
(***************************************************************************)
(* What the lock promises about who takes itself for the master: a worker  *)
(* becomes one only while there are no more masters than the key has       *)
(* lapsed, so that without a lapse there is never more than one.           *)
(***************************************************************************)
EXTENDS Naturals, FiniteSets

CONSTANT Workers

VARIABLES
    masters,   \* workers that take themselves for the master
    lapses     \* how often the key lapsed

electionVars == <<masters, lapses>>

ElectionInit == masters = {} /\ lapses = 0

Elect(w) ==
    /\ w \notin masters /\ Cardinality(masters) <= lapses
    /\ masters' = masters \cup {w}
    /\ UNCHANGED lapses

Retire(w) ==
    /\ w \in masters
    /\ masters' = masters \ {w}
    /\ UNCHANGED lapses

Lapse == lapses' = lapses + 1 /\ UNCHANGED masters

ElectionNext == Lapse \/ \E w \in Workers : Elect(w) \/ Retire(w)

ElectionSpec == ElectionInit /\ [][ElectionNext]_electionVars

=============================================================================
