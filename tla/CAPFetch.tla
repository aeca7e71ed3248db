------------------------------ MODULE CAPFetch ------------------------------
(***************************************************************************)
(* fetch_cap_alerts (poller/cap_poller.py): the payloads of all endpoints  *)
(* are read one after the other into a dictionary with one payload per     *)
(* identifier. The same identifier may come several times, from several    *)
(* endpoints, as an alert, its update or its cancellation, and in any      *)
(* order; _should_replace_alert settles each collision by itself.          *)
(***************************************************************************)
EXTENDS CAPPayloads

CONSTANT
    Copies        \* the payloads of which a fetch may get some

ASSUME CopiesAssumption == Copies \subseteq Payload

VARIABLES
    listed,    \* what the endpoints answered
    unread,    \* what of it is still to be read
    passed,    \* what was read and has a signature of its own (signature_cache)
    kept       \* alerts_by_identifier

fetchVars == <<listed, unread, passed, kept>>

FetchTypeOK ==
    /\ listed \in SUBSET Copies
    /\ unread \in SUBSET listed
    /\ passed \in SUBSET (listed \ unread)
    /\ kept \in SUBSET passed

Keep_Fault(K, c) == {d \in K : d.id # c.id} \cup {c}
Keep(K, c) ==
    LET same == {d \in K : d.id = c.id} IN
    IF \A d \in same : Replaces(c, d) THEN (K \ same) \cup {c} ELSE K

FetchInit ==
    /\ listed \in SUBSET Copies
    /\ unread = listed
    /\ passed = {}
    /\ kept = {}

Repeated(c) == \E d \in passed : Signature(d) = Signature(c)

Read(c) ==
    /\ c \in unread
    /\ unread' = unread \ {c}
    /\ IF Repeated(c)
         THEN UNCHANGED <<passed, kept>>
         ELSE passed' = passed \cup {c} /\ kept' = Keep(kept, c)
    /\ UNCHANGED listed

FetchNext == \E c \in Copies : Read(c)

FetchSpec == FetchInit /\ [][FetchNext]_fetchVars

-----------------------------------------------------------------------------
(* In whatever order the payloads come, and in the middle of it as well as *)
(* at the end: of every identifier read exactly one payload is kept, and   *)
(* nothing that was read under a signature of its own would replace it: a  *)
(* cancellation, in particular, is not given up for an update that was     *)
(* sent later (cap_poller.py:1565, cap_poller.py:1722).                    *)
KeepsBest ==
    /\ kept \subseteq Best(passed)
    /\ OneOfEach(kept, listed \ unread)

=============================================================================
