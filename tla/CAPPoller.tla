----------------------------- MODULE CAPPoller -----------------------------
(***************************************************************************)
(* The CAP poller (poller/cap_poller.py): it fetches the endpoints, keeps  *)
(* one payload per identifier, saves what matches the station, links the   *)
(* products of a VTEC event into a chain, and hands new alerts to          *)
(* auto_forward_cap_alert (AlertForwarding). Everything is committed step  *)
(* by step, so that a crash or an error leaves what was committed; beside  *)
(* the poller the administrator imports, expires and deletes alerts, and a *)
(* second poller may run at the same time.                                 *)
(***************************************************************************)
EXTENDS CAPPayloads

CONSTANTS
    Payloads,     \* what the feeds will list
    Pollers,      \* processes that poll
    MaxCapEvents  \* bound: crashes, errors, deletions and imports

ASSUME PollerAssumption == Payloads \subseteq Payload /\ MaxCapEvents \in Nat

Ids == {c.id : c \in Payloads}
NoPayload == [id |-> 0]
NoRow == [stamp |-> 0]
Row == [stamp : Nat \ {0}, event : Nat, sup : {0} \cup Ids,
        status : {"Actual", "Expired"}, cut : BOOLEAN]

VARIABLES
    feed,      \* what the endpoints list
    over,      \* identifiers whose expiry time has passed
    poller,    \* where each poller is, what it has yet to save, what it saves
               \* and the row it inserted or found for that
    table,     \* CAPAlert rows: stamp, the order of insertion (id); event, the
               \* VTEC event; sup, superseded_by_id; status; cut, expires was
               \* set by a cancellation
    stamp,     \* last id given
    airings,   \* history: how often each identifier was handed to forwarding
    deletions, \* history: how often its row was deleted
    raced,     \* history: a row was inserted between another one's and its chain
    capEvents  \* how many so far

capVars == <<feed, over, poller, table, stamp, airings, deletions, raced, capEvents>>

Resting == [at |-> "idle", todo |-> {}, item |-> NoPayload, own |-> 0]
Exists(i) == table[i] # NoRow

CapTypeOK ==
    /\ feed \subseteq Payloads
    /\ over \subseteq Ids
    /\ poller \in [Pollers ->
         [at : {"idle", "picking", "inserting", "updating", "chaining", "forwarding"},
          todo : SUBSET Payloads, item : Payloads \cup {NoPayload}, own : Nat]]
    /\ table \in [Ids -> Row \cup {NoRow}]
    /\ stamp \in Nat
    /\ \A i \in Ids : table[i].stamp <= stamp
    /\ airings \in [Ids -> Nat]
    /\ deletions \in [Ids -> Nat]
    /\ raced \in BOOLEAN
    /\ capEvents \in 0 .. MaxCapEvents

CapInit ==
    /\ feed = {}
    /\ over = {}
    /\ poller = [p \in Pollers |-> Resting]
    /\ table = [i \in Ids |-> NoRow]
    /\ stamp = 0
    /\ airings = [i \in Ids |-> 0]
    /\ deletions = [i \in Ids |-> 0]
    /\ raced = FALSE
    /\ capEvents = 0

CapHappens == capEvents < MaxCapEvents /\ capEvents' = capEvents + 1
PollerAt(p, place) == poller[p].at = place
Chaining == \E p \in Pollers : PollerAt(p, "chaining")
PollerTo(p, place) == poller' = [poller EXCEPT ![p].at = place]
WithRow(p, place, n) == poller' = [poller EXCEPT ![p].at = place, ![p].own = n]
Done(p) ==
    poller' = [poller EXCEPT ![p].at = "picking", ![p].item = NoPayload, ![p].own = 0]

(* Is the row that the poller inserted or looked up still there?           *)
HasRow(p) == LET i == poller[p].item.id IN Exists(i) /\ table[i].stamp = poller[p].own

-----------------------------------------------------------------------------
(* The feeds. A service issues its products in order; a product is listed  *)
(* until it is withdrawn, and time passes.                                 *)

Issue(c) ==
    /\ c \notin feed
    /\ \A d \in feed : d.sent <= c.sent
    /\ c.id \notin over
    /\ feed' = feed \cup {c}
    /\ UNCHANGED <<over, poller, table, stamp, airings, deletions, raced, capEvents>>

ExpiryPasses(i) ==
    /\ i \notin over
    /\ \E c \in feed : c.id = i
    /\ over' = over \cup {i}
    /\ feed' = {c \in feed : c.id # i}
    /\ UNCHANGED <<poller, table, stamp, airings, deletions, raced, capEvents>>

-----------------------------------------------------------------------------
(* fetch_cap_alerts, which CAPFetch details: an endpoint that fails is     *)
(* skipped, and of the payloads with one identifier a best one is kept.    *)

Fetched(failed) == {c \in feed : c.endpoint \notin failed}

Poll(p, failed) ==
    /\ PollerAt(p, "idle")
    /\ \E passed \in OnePerSignature(Fetched(failed)) : \E kept \in SUBSET Best(passed) :
         /\ OneOfEach(kept, passed)
         /\ poller' = [poller EXCEPT ![p] = [Resting EXCEPT !.at = "picking", !.todo = kept]]
    /\ UNCHANGED <<feed, over, table, stamp, airings, deletions, raced, capEvents>>

-----------------------------------------------------------------------------
(* Relevance, and the look-up of save_cap_alert. What matches by a zone    *)
(* alone is published on a channel that nothing in the system subscribes   *)
(* to; it is neither stored nor forwarded.                                 *)
Pick(p, c) ==
    /\ PollerAt(p, "picking")
    /\ c \in poller[p].todo
    /\ poller' = [poller EXCEPT ![p].todo = @ \ {c},
                     ![p].item = IF c.match = "same" THEN c ELSE NoPayload,
                     ![p].own = IF c.match = "same" THEN table[c.id].stamp ELSE 0,
                     ![p].at = IF c.match # "same" THEN "picking"
                               ELSE IF Exists(c.id) THEN "updating" ELSE "inserting"]
    /\ UNCHANGED <<feed, over, table, stamp, airings, deletions, raced, capEvents>>

PollEnds(p) ==
    /\ PollerAt(p, "picking")
    /\ poller[p].todo = {}
    /\ poller' = [poller EXCEPT ![p] = Resting]
    /\ UNCHANGED <<feed, over, table, stamp, airings, deletions, raced, capEvents>>

(* _insert_new_alert up to its first commit; the identifier is unique, and *)
(* an IntegrityError turns the insertion into an update.                   *)
InsertRow_Fault(p) ==
    LET c == poller[p].item IN
    /\ PollerAt(p, "inserting")
    /\ table' = [table EXCEPT ![c.id] =
          [stamp |-> stamp + 1, event |-> c.event, sup |-> 0,
           status |-> "Actual", cut |-> FALSE]]
    /\ stamp' = stamp + 1
    /\ WithRow(p, "chaining", stamp + 1)
    /\ UNCHANGED <<feed, over, airings, deletions, raced, capEvents>>

InsertRow(p) ==
    LET c == poller[p].item IN
    /\ PollerAt(p, "inserting")
    /\ IF Exists(c.id)
         THEN /\ WithRow(p, "updating", table[c.id].stamp)
              /\ UNCHANGED <<table, stamp, raced>>
         ELSE /\ table' = [table EXCEPT ![c.id] =
                    [stamp |-> stamp + 1, event |-> c.event, sup |-> 0,
                     status |-> "Actual", cut |-> FALSE]]
              /\ stamp' = stamp + 1
              /\ raced' = (raced \/ Chaining)
              /\ WithRow(p, "chaining", stamp + 1)
    /\ UNCHANGED <<feed, over, airings, deletions, capEvents>>

(* _mark_vtec_chain_superseded: whatever was issued before or after it,    *)
(* every product of the event that is not superseded yet is superseded by  *)
(* this one; a cancellation also ends them. A product that was deleted     *)
(* meanwhile cannot be pointed to, and the save fails.                     *)
Prior_Self(c) == {i \in Ids : Exists(i) /\ table[i].event = c.event /\ table[i].sup = 0}
Prior(c) == {i \in Ids : /\ Exists(i) /\ i # c.id
                         /\ table[i].event = c.event /\ table[i].sup = 0}

Superseded(c) ==
    [i \in Ids |->
       IF i \notin Prior(c) THEN table[i]
       ELSE IF c.action \in {"CAN", "EXP"}
         THEN [table[i] EXCEPT !.sup = c.id, !.status = "Expired", !.cut = TRUE]
         ELSE [table[i] EXCEPT !.sup = c.id]]

Chain(p) ==
    LET c == poller[p].item IN
    /\ PollerAt(p, "chaining")
    /\ IF c.action = "NEW"
         THEN PollerTo(p, "forwarding") /\ UNCHANGED table
         ELSE IF HasRow(p)
           THEN PollerTo(p, "forwarding") /\ table' = Superseded(c)
           ELSE Done(p) /\ UNCHANGED table
    /\ UNCHANGED <<feed, over, stamp, airings, deletions, raced, capEvents>>

(* process_intersections, and for a product that has not expired the       *)
(* notifications and auto_forward_cap_alert, which decides, airs and       *)
(* records (AlertForwarding).                                              *)
IsOver(i) == i \in over \/ (Exists(i) /\ table[i].cut)

HandOver(p) ==
    LET c == poller[p].item IN
    /\ PollerAt(p, "forwarding")
    /\ airings' = IF HasRow(p) /\ ~IsOver(c.id)
                    THEN [airings EXCEPT ![c.id] = @ + 1] ELSE airings
    /\ Done(p)
    /\ UNCHANGED <<feed, over, table, stamp, deletions, raced, capEvents>>

(* _update_existing_alert: status and expiry are those of the feed again;  *)
(* the link to a superseding product stays; an alert without VTEC identity *)
(* gets one. Nothing is forwarded.                                         *)
Update_Fault(p) ==
    LET c == poller[p].item IN
    /\ PollerAt(p, "updating")
    /\ table' = IF ~HasRow(p) THEN table
                  ELSE [table EXCEPT ![c.id] =
                          [@ EXCEPT !.status = "Actual", !.cut = FALSE, !.sup = 0]]
    /\ Done(p)
    /\ UNCHANGED <<feed, over, stamp, airings, deletions, raced, capEvents>>

Update(p) ==
    LET c == poller[p].item IN
    /\ PollerAt(p, "updating")
    /\ table' = IF ~HasRow(p) THEN table
                  ELSE [table EXCEPT ![c.id] =
                          [@ EXCEPT !.status = "Actual", !.cut = FALSE,
                                    !.event = IF table[c.id].event = 0
                                                THEN c.event ELSE table[c.id].event]]
    /\ Done(p)
    /\ UNCHANGED <<feed, over, stamp, airings, deletions, raced, capEvents>>

(* A query or commit raises: the save is rolled back to its last commit    *)
(* and reported as not new; the poll goes on with the next payload.        *)
SaveFails(p) ==
    /\ poller[p].at \in {"inserting", "updating", "chaining", "forwarding"}
    /\ CapHappens
    /\ Done(p)
    /\ UNCHANGED <<feed, over, table, stamp, airings, deletions, raced>>

CrashPoller(p) ==
    /\ ~PollerAt(p, "idle")
    /\ CapHappens
    /\ poller' = [poller EXCEPT ![p] = Resting]
    /\ UNCHANGED <<feed, over, table, stamp, airings, deletions, raced>>

-----------------------------------------------------------------------------
(* The administrator.                                                      *)

(* The manual import stores what is listed, without VTEC identity, and     *)
(* forwards nothing.                                                       *)
Import(c) ==
    /\ c \in feed /\ ~Exists(c.id)
    /\ CapHappens
    /\ table' = [table EXCEPT ![c.id] = [stamp |-> stamp + 1, event |-> 0, sup |-> 0,
                                         status |-> "Actual", cut |-> FALSE]]
    /\ stamp' = stamp + 1
    /\ raced' = (raced \/ Chaining)
    /\ UNCHANGED <<feed, over, poller, airings, deletions>>

MarkExpired ==
    /\ \E i \in Ids : Exists(i) /\ IsOver(i) /\ table[i].status # "Expired"
    /\ table' = [i \in Ids |-> IF Exists(i) /\ IsOver(i)
                                 THEN [table[i] EXCEPT !.status = "Expired"]
                                 ELSE table[i]]
    /\ UNCHANGED <<feed, over, poller, stamp, airings, deletions, raced, capEvents>>

(* Rows are deleted one by one or all the expired ones at once; a link to  *)
(* a deleted row becomes NULL.                                             *)
Without(gone) ==
    [i \in Ids |-> IF i \in gone \/ ~Exists(i) THEN NoRow
                   ELSE IF table[i].sup \in gone THEN [table[i] EXCEPT !.sup = 0]
                   ELSE table[i]]

DeleteAlerts(gone) ==
    /\ gone # {}
    /\ \A i \in gone : Exists(i)
    /\ CapHappens
    /\ table' = Without(gone)
    /\ deletions' = [i \in Ids |-> IF i \in gone THEN deletions[i] + 1 ELSE deletions[i]]
    /\ UNCHANGED <<feed, over, poller, stamp, airings, raced>>

DeleteOne == \E i \in Ids : DeleteAlerts({i})
ClearExpired == DeleteAlerts({i \in Ids : /\ Exists(i)
                                          /\ IsOver(i) \/ table[i].status = "Expired"})

-----------------------------------------------------------------------------
CapNext ==
    \/ \E c \in Payloads : Issue(c) \/ Import(c)
    \/ \E i \in Ids : ExpiryPasses(i)
    \/ \E p \in Pollers :
         \/ \E failed \in SUBSET Endpoints : Poll(p, failed)
         \/ \E c \in Payloads : Pick(p, c)
         \/ PollEnds(p) \/ InsertRow(p) \/ Chain(p) \/ HandOver(p) \/ Update(p)
         \/ SaveFails(p) \/ CrashPoller(p)
    \/ MarkExpired \/ DeleteOne \/ ClearExpired

CapSpec == CapInit /\ [][CapNext]_capVars

-----------------------------------------------------------------------------
(* An alert is handed to forwarding once for every time it is inserted:    *)
(* not again by an update, by a poller that lost the race for the          *)
(* insertion, or after a restart (cap_poller.py:2374, cap_poller.py:2590). *)
AiredOncePerRow == \A i \in Ids : airings[i] <= 1 + deletions[i]

(* As long as nothing was inserted between the insertion of a product and  *)
(* the linking of its chain, a product is superseded by one that was       *)
(* inserted after it, so that the chain of an event has an end             *)
(* (cap_poller.py:2614).                                                   *)
ChainGoesForward ==
    ~raced => \A i, j \in Ids :
                Exists(i) /\ Exists(j) /\ table[i].sup = j =>
                    table[i].stamp < table[j].stamp

(* Superseded once, a product stays superseded by the same product,        *)
(* whatever the feed lists and whoever comes later, until one of the two   *)
(* is deleted (cap_poller.py:2650, models.py:177).                         *)
LinksStay ==
    [][\A i \in Ids :
         Exists(i) /\ Exists(i)' /\ table[i].sup # 0 /\ deletions' = deletions =>
             table[i].sup' = table[i].sup]_capVars

=============================================================================
