----------------------------- MODULE CAPPayloads -----------------------------
(***************************************************************************)
(* What the CAP poller's fetch and its saves have in common: the payloads  *)
(* and which of two with one identifier is kept (poller/cap_poller.py).    *)
(***************************************************************************)
EXTENDS Naturals, FiniteSets

CONSTANT Endpoints    \* the feeds

(* id: the CAP identifier; event: the VTEC event it belongs to; action:    *)
(* its VTEC action; kind: the message type; sent: the time of issue;       *)
(* polygon: does it come with a geometry; match: how its locations match   *)
(* the station's, by SAME code or storage zone, by another zone, or not;   *)
(* text: its sender and headline.                                          *)
Payload == [id : Nat \ {0}, event : Nat \ {0}, action : STRING, kind : STRING,
            sent : Nat, text : Nat, polygon : BOOLEAN, endpoint : Endpoints,
            match : {"same", "zone", "none"}]

(* Payloads with the same source, identifier, sender, time and headline    *)
(* count as one, and the first of them that is read stands for all.        *)
Signature(c) == <<c.endpoint, c.id, c.text, c.sent>>
OnePerSignature(S) ==
    {T \in SUBSET S : \A c \in S : \E d \in T :
        \A e \in T : Signature(e) = Signature(c) <=> e = d}

Priority == [CANCEL |-> 4, UPDATE |-> 3, ALERT |-> 2, ACK |-> 1]
PriorityOf(kind) == IF kind \in DOMAIN Priority THEN Priority[kind] ELSE 0

(* _should_replace_alert: c takes the place of e.                          *)
Replaces(c, e) ==
    IF (c.kind = "CANCEL") # (e.kind = "CANCEL") THEN c.kind = "CANCEL"
    ELSE \/ c.sent > e.sent
         \/ /\ c.sent = e.sent
            /\ \/ PriorityOf(c.kind) > PriorityOf(e.kind)
               \/ /\ PriorityOf(c.kind) = PriorityOf(e.kind)
                  /\ c.polygon /\ ~e.polygon

(* What nothing in S replaces, and one of every identifier in S.           *)
Best(S) == {c \in S : \A d \in S : d.id = c.id => ~Replaces(d, c)}
OneOfEach(K, S) == \A c \in S : \E d \in K : /\ d.id = c.id
                                           /\ \A e \in K : e.id = c.id => e = d

=============================================================================
