---------------------------- MODULE AlertDelivery ----------------------------
(***************************************************************************)
(* What automatic forwarding promises about every alert, whatever its      *)
(* processes, queries, players and Redis do: its outcome is settled once;  *)
(* only what is on record is broadcast, and only what is not settled yet   *)
(* goes on record, so that an alert that was refused or found to be a      *)
(* duplicate is never heard.  A failure is settled either before the       *)
(* record, and then nothing is ever heard, or when the broadcast had begun *)
(* and its playout raised; what is settled as forwarded was broadcast, and *)
(* only that is linked to the alert that was received.                     *)
(***************************************************************************)
CONSTANTS
    Items,     \* alerts, and what the operator makes
    Alerts     \* the alerts among them

VARIABLES
    onRecord,  \* items with a record, also an old or a deleted one
    heard,     \* items that were broadcast
    outcome,   \* of each alert
    linked     \* received alerts that name their broadcast

deliveryVars == <<onRecord, heard, outcome, linked>>

Open == "none"
Dropped == {"refused", "duplicate"}

DeliveryInit ==
    /\ onRecord = {} /\ heard = {}
    /\ outcome = [a \in Alerts |-> Open]
    /\ linked = {}

PutOnRecord(x) ==
    /\ x \notin onRecord
    /\ x \in Alerts => outcome[x] = Open
    /\ onRecord' = onRecord \cup {x}
    /\ UNCHANGED <<heard, outcome, linked>>

Broadcast(x) ==
    /\ x \in onRecord
    /\ heard' = heard \cup {x}
    /\ UNCHANGED <<onRecord, outcome, linked>>

Drop(a) ==
    /\ outcome[a] = Open /\ a \notin onRecord
    /\ \E o \in Dropped : outcome' = [outcome EXCEPT ![a] = o]
    /\ UNCHANGED <<onRecord, heard, linked>>

Fail(a) ==
    /\ outcome[a] = Open
    /\ a \in onRecord => a \in heard
    /\ outcome' = [outcome EXCEPT ![a] = "failed"]
    /\ UNCHANGED <<onRecord, heard, linked>>

Forward(a) ==
    /\ outcome[a] = Open /\ a \in heard
    /\ outcome' = [outcome EXCEPT ![a] = "forwarded"]
    /\ UNCHANGED <<onRecord, heard, linked>>

Lose(a) ==
    /\ outcome[a] = Open
    /\ outcome' = [outcome EXCEPT ![a] = "lost"]
    /\ UNCHANGED <<onRecord, heard, linked>>

Link(a) ==
    /\ outcome[a] = "forwarded" /\ a \notin linked
    /\ linked' = linked \cup {a}
    /\ UNCHANGED <<onRecord, heard, outcome>>

DeliveryNext ==
    \/ \E x \in Items : PutOnRecord(x) \/ Broadcast(x)
    \/ \E a \in Alerts : Drop(a) \/ Fail(a) \/ Forward(a) \/ Lose(a) \/ Link(a)

DeliverySpec == DeliveryInit /\ [][DeliveryNext]_deliveryVars

=============================================================================
