--------------------------- MODULE AlertLifecycle ---------------------------
(***************************************************************************)
(* What the EAS monitor promises about every header it accepts, whatever   *)
(* its loops, rings and timers do.  An accepted alert waits at its source; *)
(* from there it either gives way to a later header of that source or is   *)
(* released, and a released alert is delivered to the callback once.  An   *)
(* alert that left a stage never comes back to it.                         *)
(***************************************************************************)
CONSTANTS
    Ids,      \* identities of the alerts
    Sources,  \* audio sources
    None      \* no alert waits

VARIABLES
    waiting,     \* the alert that waits at each source, or None
    released,    \* alerts on their way to the callback
    delivered,   \* alerts the callback was given
    overwritten  \* alerts that gave way to a later header

vars == <<waiting, released, delivered, overwritten>>

Init ==
    /\ waiting = [s \in Sources |-> None]
    /\ released = {}
    /\ delivered = {}
    /\ overwritten = {}

Waiting == {waiting[s] : s \in Sources} \ {None}

Accept(i, s) ==
    /\ i \notin Waiting \cup released \cup delivered \cup overwritten
    /\ waiting' = [waiting EXCEPT ![s] = i]
    /\ overwritten' = overwritten \cup ({waiting[s]} \ {None})
    /\ UNCHANGED <<released, delivered>>

Release(s) ==
    /\ waiting[s] # None
    /\ waiting' = [waiting EXCEPT ![s] = None]
    /\ released' = released \cup {waiting[s]}
    /\ UNCHANGED <<delivered, overwritten>>

Deliver(i) ==
    /\ i \in released
    /\ released' = released \ {i}
    /\ delivered' = delivered \cup {i}
    /\ UNCHANGED <<waiting, overwritten>>

Next ==
    \/ \E i \in Ids : Deliver(i) \/ \E s \in Sources : Accept(i, s)
    \/ \E s \in Sources : Release(s)

Spec == Init /\ [][Next]_vars
=============================================================================
