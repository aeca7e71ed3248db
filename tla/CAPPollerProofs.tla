-------------------------- MODULE CAPPollerProofs --------------------------
(***************************************************************************)
(* Proofs about CAPPoller for any payloads, any number of pollers and any  *)
(* number of crashes, errors and deletions.                                *)
(***************************************************************************)
EXTENDS CAPPoller, TLAPS

Saving == {"inserting", "updating", "chaining", "forwarding"}
Fresh(p) == poller[p].at \in {"chaining", "forwarding"}

PollerType == [at : {"idle", "picking", "inserting", "updating", "chaining", "forwarding"},
               todo : SUBSET Payloads, item : Payloads \cup {NoPayload}, own : Nat]

(* A poller that saves has a payload; no two hold the same insertion.      *)
PollersInv ==
    /\ \A p \in Pollers : poller[p].own <= stamp
    /\ \A p \in Pollers : poller[p].at \in Saving => poller[p].item \in Payloads
    /\ \A p, q \in Pollers : Fresh(p) /\ Fresh(q) /\ poller[p].own = poller[q].own => p = q

(* Every insertion may be handed over once, and the one that a poller      *)
(* still holds has not been.                                               *)
AiringInv ==
    /\ \A i \in Ids : airings[i] <= deletions[i] + 1
    /\ \A i \in Ids : ~Exists(i) => airings[i] <= deletions[i]
    /\ \A p \in Pollers : Fresh(p) /\ HasRow(p) =>
         airings[poller[p].item.id] <= deletions[poller[p].item.id]

(* The row whose chain is to be linked is the newest.                      *)
NewestInv ==
    ~raced => \A p \in Pollers : PollerAt(p, "chaining") /\ HasRow(p) =>
                \A i \in Ids \ {poller[p].item.id} : table[i].stamp < poller[p].own

CapInv == CapTypeOK /\ PollersInv /\ AiringInv /\ NewestInv /\ ChainGoesForward

LEMMA IdsAreNumbers == Ids \subseteq Nat \ {0} /\ \A c \in Payloads : c.id \in Ids /\ c.event \in Nat \ {0}
  BY PollerAssumption DEF Ids, Payload

(* A row has a stamp, the absence of one has none.                         *)
LEMMA RowsHaveStamps ==
    ASSUME CapTypeOK, NEW i \in Ids
    PROVE  /\ table[i].stamp \in Nat
           /\ Exists(i) <=> table[i].stamp # 0
           /\ Exists(i) <=> table[i] \in Row
  <1>1. table[i] \in Row \cup {NoRow}
    BY DEF CapTypeOK
  <1>2. NoRow.stamp = 0
    BY DEF NoRow
  <1>3. \A r \in Row : r.stamp \in Nat \ {0}
    BY DEF Row
  <1> QED
    BY <1>1, <1>2, <1>3 DEF Exists

LEMMA CapInvInit == CapInit => CapInv
  <1> SUFFICES ASSUME CapInit PROVE CapInv
    OBVIOUS
  <1>1. \A p \in Pollers : poller[p].at = "idle" /\ poller[p].own = 0
    BY DEF CapInit, Resting
  <1>2. \A i \in Ids : table[i] = NoRow /\ table[i].stamp = 0
    BY DEF CapInit, NoRow
  <1>3. CapTypeOK
    <2>1. poller \in [Pollers -> PollerType]
      BY DEF CapInit, Resting, PollerType
    <2>2. raced \in BOOLEAN
      BY DEF CapInit
    <2>3. capEvents \in 0 .. MaxCapEvents
      BY PollerAssumption DEF CapInit
    <2> QED
      BY <1>2, <2>1, <2>2, <2>3 DEF CapInit, CapTypeOK, PollerType
  <1>4. PollersInv
    BY <1>1 DEF CapInit, PollersInv, Saving, Fresh
  <1>5. AiringInv
    BY <1>1 DEF CapInit, AiringInv, Fresh
  <1>6. NewestInv /\ ChainGoesForward
    BY <1>1, <1>2 DEF NewestInv, ChainGoesForward, PollerAt, Exists
  <1> QED
    BY <1>3, <1>4, <1>5, <1>6 DEF CapInv

-----------------------------------------------------------------------------
(* The three ways in which a step may matter to the invariant: rows are    *)
(* kept or deleted, a row is inserted, an alert is handed over.            *)

(* Rows are kept, or deleted and counted, and no poller comes to hold one. *)
LEMMA KeepingStep ==
    ASSUME CapInv, CapTypeOK', UNCHANGED <<stamp, airings, raced>>,
           \A i \in Ids : /\ deletions'[i] >= deletions[i]
                          /\ \/ table'[i].stamp = table[i].stamp
                             \/ table'[i].stamp = 0 /\ deletions'[i] > deletions[i],
           \A p \in Pollers : poller'[p].own <= stamp,
           \A p \in Pollers : poller'[p].at \in Saving => poller'[p].item \in Payloads,
           \A p \in Pollers : poller'[p].at \in {"chaining", "forwarding"} =>
               /\ poller[p].at \in {"chaining", "forwarding"}
               /\ poller'[p].at = "chaining" => poller[p].at = "chaining"
               /\ poller'[p].item = poller[p].item /\ poller'[p].own = poller[p].own,
           ChainGoesForward'
    PROVE  CapInv'
  <1>1. \A i \in Ids : /\ table[i].stamp \in Nat /\ table'[i].stamp \in Nat
                       /\ Exists(i) <=> table[i].stamp # 0
                       /\ Exists(i)' <=> table'[i].stamp # 0
                       /\ airings[i] \in Nat /\ deletions[i] \in Nat /\ deletions'[i] \in Nat
    <2>1. \A i \in Ids : table[i].stamp \in Nat /\ (Exists(i) <=> table[i].stamp # 0)
      BY RowsHaveStamps DEF CapInv
    <2>2. \A i \in Ids : table'[i].stamp \in Nat /\ (Exists(i)' <=> table'[i].stamp # 0)
      <3>1. \A i \in Ids : table'[i] \in Row \cup {NoRow}
        BY DEF CapTypeOK
      <3> QED
        BY <3>1 DEF Exists, NoRow, Row
    <2> QED
      BY <2>1, <2>2 DEF CapInv, CapTypeOK
  <1>2. PollersInv'
    BY DEF CapInv, PollersInv, Fresh
  <1>3. ASSUME NEW p \in Pollers, Fresh(p)', HasRow(p)'
        PROVE  Fresh(p) /\ HasRow(p) /\ poller[p].item.id \in Ids
               /\ poller'[p].item.id = poller[p].item.id /\ poller'[p].own = poller[p].own
    <2>1. Fresh(p) /\ poller'[p].item = poller[p].item /\ poller'[p].own = poller[p].own
      BY <1>3 DEF Fresh
    <2>2. poller[p].item.id \in Ids
      BY <2>1, IdsAreNumbers DEF CapInv, PollersInv, Fresh, Saving
    <2> QED
      BY <1>1, <1>3, <2>1, <2>2 DEF HasRow
  <1>4. AiringInv'
    <2>1. \A i \in Ids : airings'[i] <= deletions'[i] + 1
      BY <1>1 DEF CapInv, AiringInv
    <2>2. \A i \in Ids : ~Exists(i)' => airings'[i] <= deletions'[i]
      BY <1>1 DEF CapInv, AiringInv
    <2>3. ASSUME NEW p \in Pollers, Fresh(p)', HasRow(p)'
          PROVE  airings'[poller'[p].item.id] <= deletions'[poller'[p].item.id]
      BY <1>1, <1>3, <2>3 DEF CapInv, AiringInv
    <2> QED
      BY <2>1, <2>2, <2>3 DEF AiringInv
  <1>5. NewestInv'
    <2> SUFFICES ASSUME ~raced, NEW p \in Pollers, PollerAt(p, "chaining")', HasRow(p)',
                        NEW i \in Ids \ {poller'[p].item.id}
                 PROVE  table'[i].stamp < poller'[p].own
      BY DEF NewestInv
    <2>1. PollerAt(p, "chaining") /\ Fresh(p)'
      BY DEF PollerAt, Fresh
    <2>2. HasRow(p) /\ poller'[p].item.id = poller[p].item.id /\ poller'[p].own = poller[p].own
      BY <1>3, <2>1
    <2>3. table[i].stamp < poller[p].own /\ poller[p].own \in Nat
      BY <2>1, <2>2 DEF CapInv, NewestInv, CapTypeOK
    <2> QED
      BY <1>1, <2>2, <2>3
  <1> QED
    BY <1>2, <1>4, <1>5 DEF CapInv

(* A row is inserted, by a poller that goes on with it or by the import.   *)
LEMMA InsertingStep ==
    ASSUME CapInv, CapTypeOK', NEW k \in Ids, ~Exists(k),
           table'[k].stamp = stamp + 1, table'[k].sup = 0,
           \A i \in Ids \ {k} : table'[i] = table[i],
           stamp' = stamp + 1, raced' = (raced \/ Chaining),
           UNCHANGED <<airings, deletions>>,
           NEW inserter,
           \A p \in Pollers \ {inserter} : poller'[p] = poller[p],
           inserter \in Pollers =>
               /\ poller'[inserter].at = "chaining" /\ poller'[inserter].own = stamp + 1
               /\ poller'[inserter].item \in Payloads /\ poller'[inserter].item.id = k
    PROVE  CapInv'
  <1>1. \A i \in Ids : /\ table[i].stamp \in Nat /\ table[i].stamp <= stamp
                       /\ Exists(i) <=> table[i].stamp # 0
                       /\ airings[i] \in Nat /\ deletions[i] \in Nat
    BY RowsHaveStamps DEF CapInv, CapTypeOK
  <1>2. stamp \in Nat /\ \A p \in Pollers : poller[p].own \in Nat /\ poller[p].own <= stamp
    BY DEF CapInv, CapTypeOK, PollersInv
  <1>3. PollersInv'
    BY <1>2 DEF CapInv, PollersInv, Fresh, Saving
  <1>4. ASSUME NEW p \in Pollers \ {inserter}, Fresh(p)', HasRow(p)'
        PROVE  Fresh(p) /\ HasRow(p) /\ poller'[p] = poller[p] /\ poller[p].item.id # k
               /\ poller[p].item.id \in Ids
    <2>1. Fresh(p) /\ poller'[p] = poller[p]
      BY <1>4 DEF Fresh
    <2>2. poller[p].item.id \in Ids
      BY <2>1, IdsAreNumbers DEF CapInv, PollersInv, Fresh, Saving
    <2> QED
      BY <1>2, <1>4, <2>1, <2>2 DEF HasRow, Exists
  <1>5. AiringInv'
    <2>1. \A i \in Ids : airings'[i] <= deletions'[i] + 1
      BY <1>1 DEF CapInv, AiringInv
    <2>2. ASSUME NEW i \in Ids, ~Exists(i)' PROVE airings'[i] <= deletions'[i]
      <3>1. ~Exists(i)
        BY <2>2 DEF Exists
      <3> QED
        BY <3>1 DEF CapInv, AiringInv
    <2>3. ASSUME NEW p \in Pollers, Fresh(p)', HasRow(p)'
          PROVE  airings'[poller'[p].item.id] <= deletions'[poller'[p].item.id]
      <3>1. CASE p = inserter
        BY <3>1 DEF CapInv, AiringInv
      <3>2. CASE p # inserter
        BY <1>4, <2>3, <3>2 DEF CapInv, AiringInv
      <3> QED
        BY <3>1, <3>2
    <2> QED
      BY <2>1, <2>2, <2>3 DEF AiringInv
  <1>6. NewestInv'
    <2> SUFFICES ASSUME ~raced', NEW p \in Pollers, PollerAt(p, "chaining")',
                        NEW i \in Ids \ {poller'[p].item.id}
                 PROVE  table'[i].stamp < poller'[p].own
      BY DEF NewestInv
    <2>1. p = inserter
      BY DEF Chaining, PollerAt
    <2> QED
      BY <1>1, <1>2, <2>1
  <1>7. ChainGoesForward'
    <2> SUFFICES ASSUME ~raced', NEW i \in Ids, NEW j \in Ids, Exists(i)', Exists(j)',
                        table'[i].sup = j
                 PROVE  table'[i].stamp < table'[j].stamp
      BY DEF ChainGoesForward
    <2>1. i # k /\ table'[i] = table[i] /\ Exists(i)
      BY IdsAreNumbers DEF Exists
    <2>2. CASE j = k
      BY <1>1, <1>2, <2>1, <2>2
    <2>3. CASE j # k
      BY <2>1, <2>3 DEF CapInv, ChainGoesForward, Exists
    <2> QED
      BY <2>2, <2>3
  <1> QED
    BY <1>3, <1>5, <1>6, <1>7 DEF CapInv

(* The row that a poller has is one with its stamp. *)
LEMMA HasRowOne ==
    ASSUME CapInv, NEW p \in Pollers, NEW q \in Pollers, Fresh(p), Fresh(q),
           HasRow(p), HasRow(q), poller[p].item.id = poller[q].item.id
    PROVE  p = q
  BY DEF CapInv, PollersInv, HasRow

LEMMA HandOverStep ==
    ASSUME CapInv, CapTypeOK', NEW p \in Pollers, HandOver(p)
    PROVE  CapInv'
  <1> DEFINE k == poller[p].item.id
  <1>1. /\ Fresh(p) /\ k \in Ids
        /\ UNCHANGED <<table, stamp, deletions, raced>>
    BY IdsAreNumbers DEF HandOver, PollerAt, Fresh, CapInv, PollersInv, Saving
  <1>2. /\ poller'[p].at = "picking" /\ poller'[p].own = 0
        /\ \A q \in Pollers \ {p} : poller'[q] = poller[q]
    BY DEF HandOver, Done, CapInv, CapTypeOK
  <1>3. \A i \in Ids : /\ airings[i] \in Nat /\ deletions[i] \in Nat
                       /\ airings'[i] = airings[i] \/ (i = k /\ HasRow(p) /\ airings'[i] = airings[i] + 1)
    BY <1>1 DEF HandOver, CapInv, CapTypeOK
  <1>4. PollersInv'
    <2>1. stamp \in Nat /\ stamp' = stamp
      BY <1>1 DEF CapInv, CapTypeOK
    <2>2. \A q \in Pollers : q # p => poller'[q] = poller[q]
      BY <1>2
    <2>3. \A q \in Pollers : poller'[q].own <= stamp
      BY <1>2, <2>1, <2>2 DEF CapInv, PollersInv
    <2>4. \A q \in Pollers : poller'[q].at \in Saving => poller'[q].item \in Payloads
      BY <1>2, <2>2 DEF CapInv, PollersInv, Saving
    <2>5. \A q \in Pollers : Fresh(q)' => q # p
      BY <1>2 DEF Fresh
    <2> QED
      BY <2>1, <2>2, <2>3, <2>4, <2>5 DEF CapInv, PollersInv, Fresh
  <1>5. AiringInv'
    <2>1. ASSUME NEW i \in Ids
          PROVE  airings'[i] <= deletions'[i] + 1 /\ (~Exists(i)' => airings'[i] <= deletions'[i])
      <3>1. HasRow(p) => airings[k] <= deletions[k] /\ Exists(k)
        BY <1>1 DEF CapInv, AiringInv, HasRow
      <3> QED
        BY <1>1, <1>3, <3>1 DEF CapInv, AiringInv, Exists
    <2>2. ASSUME NEW q \in Pollers, Fresh(q)', HasRow(q)'
          PROVE  airings'[poller'[q].item.id] <= deletions'[poller'[q].item.id]
      <3>1. q # p
        BY <1>2, <2>2 DEF Fresh
      <3>2. Fresh(q) /\ HasRow(q) /\ poller'[q] = poller[q]
        BY <1>1, <1>2, <2>2, <3>1 DEF Fresh, HasRow, Exists
      <3>3. poller[q].item.id \in Ids
        BY <3>2, IdsAreNumbers DEF CapInv, PollersInv, Fresh, Saving
      <3>4. HasRow(p) => poller[q].item.id # k
        BY <1>1, <3>1, <3>2, HasRowOne
      <3>5. airings'[poller[q].item.id] = airings[poller[q].item.id]
        BY <1>3, <3>3, <3>4
      <3> QED
        BY <1>1, <3>2, <3>5 DEF CapInv, AiringInv
    <2> QED
      BY <2>1, <2>2 DEF AiringInv
  <1>6. NewestInv'
    <2> SUFFICES ASSUME ~raced, NEW q \in Pollers, PollerAt(q, "chaining")', HasRow(q)',
                        NEW i \in Ids \ {poller'[q].item.id}
                 PROVE  table'[i].stamp < poller'[q].own
      BY <1>1 DEF NewestInv
    <2>1. q # p
      BY <1>2 DEF PollerAt
    <2>2. poller'[q] = poller[q] /\ PollerAt(q, "chaining") /\ HasRow(q)
      BY <1>1, <1>2, <2>1 DEF PollerAt, HasRow, Exists
    <2> QED
      BY <1>1, <2>2 DEF CapInv, NewestInv
  <1>7. ChainGoesForward'
    BY <1>1 DEF CapInv, ChainGoesForward, Exists
  <1> QED
    BY <1>4, <1>5, <1>6, <1>7 DEF CapInv

-----------------------------------------------------------------------------
(* Typing.                                                                 *)

NewRow(n, e) == [stamp |-> n, event |-> e, sup |-> 0, status |-> "Actual", cut |-> FALSE]

(* What the steps make of a poller and of a row.                           *)
LEMMA PollerValues ==
    ASSUME CapTypeOK, NEW p \in Pollers
    PROVE  /\ Resting \in PollerType
           /\ [poller[p] EXCEPT !.at = "picking", !.item = NoPayload, !.own = 0] \in PollerType
           /\ \A place \in Saving : \A n \in Nat :
                /\ [poller[p] EXCEPT !.at = place] \in PollerType
                /\ [poller[p] EXCEPT !.at = place, !.own = n] \in PollerType
  BY DEF CapTypeOK, Resting, PollerType, Saving

LEMMA NewRows ==
    ASSUME NEW n \in Nat \ {0}, NEW e \in Nat
    PROVE  NewRow(n, e) \in Row /\ NewRow(n, e).stamp = n /\ NewRow(n, e).sup = 0
  BY DEF NewRow, Row

LEMMA ChangedRows ==
    ASSUME NEW r \in Row, NEW j \in {0} \cup Ids, NEW e \in Nat
    PROVE  /\ [r EXCEPT !.sup = j] \in Row
           /\ [r EXCEPT !.sup = j, !.status = "Expired", !.cut = TRUE] \in Row
           /\ [r EXCEPT !.status = "Expired"] \in Row
           /\ [r EXCEPT !.status = "Actual", !.cut = FALSE, !.event = e] \in Row
           /\ [r EXCEPT !.sup = j].stamp = r.stamp
           /\ [r EXCEPT !.sup = j, !.status = "Expired", !.cut = TRUE].stamp = r.stamp
           /\ [r EXCEPT !.status = "Expired"].stamp = r.stamp
           /\ [r EXCEPT !.status = "Actual", !.cut = FALSE, !.event = e].stamp = r.stamp
           /\ [r EXCEPT !.sup = j].sup = j
           /\ [r EXCEPT !.sup = j, !.status = "Expired", !.cut = TRUE].sup = j
           /\ [r EXCEPT !.status = "Expired"].sup = r.sup
           /\ [r EXCEPT !.status = "Actual", !.cut = FALSE, !.event = e].sup = r.sup
  BY DEF Row

-----------------------------------------------------------------------------
(* One poller moves, and comes to hold no insertion that it did not hold.  *)
LEMMA MovingStep ==
    ASSUME CapInv, NEW p \in Pollers, NEW s \in PollerType,
           poller' = [poller EXCEPT ![p] = s],
           s.own <= stamp, s.at \in Saving => s.item \in Payloads,
           \/ s.at \notin {"chaining", "forwarding"}
           \/ /\ s.at = "forwarding" /\ PollerAt(p, "chaining")
              /\ s.item = poller[p].item /\ s.own = poller[p].own,
           feed' \subseteq Payloads, capEvents' \in 0 .. MaxCapEvents,
           UNCHANGED <<over, table, stamp, airings, deletions, raced>>
    PROVE  CapInv'
  <1>1. poller'[p] = s /\ \A q \in Pollers \ {p} : poller'[q] = poller[q]
    BY DEF CapInv, CapTypeOK
  <1>2. CapTypeOK'
    BY DEF CapInv, CapTypeOK, PollerType
  <1>3. \A q \in Pollers : poller'[q].own <= stamp
    BY <1>1 DEF CapInv, PollersInv
  <1>4. \A q \in Pollers : poller'[q].at \in Saving => poller'[q].item \in Payloads
    BY <1>1 DEF CapInv, PollersInv
  <1>5. \A q \in Pollers : poller'[q].at \in {"chaining", "forwarding"} =>
               /\ poller[q].at \in {"chaining", "forwarding"}
               /\ poller'[q].at = "chaining" => poller[q].at = "chaining"
               /\ poller'[q].item = poller[q].item /\ poller'[q].own = poller[q].own
    BY <1>1 DEF PollerAt
  <1>6. ChainGoesForward'
    BY DEF CapInv, ChainGoesForward, Exists
  <1>7. \A i \in Ids : /\ deletions'[i] >= deletions[i]
                       /\ table'[i].stamp = table[i].stamp
    BY DEF CapInv, CapTypeOK
  <1> QED
    BY <1>2, <1>3, <1>4, <1>5, <1>6, <1>7, KeepingStep

(* A poller leaves what it saves.                                          *)
LEMMA LeavingStep ==
    ASSUME CapInv, NEW p \in Pollers, Done(p) \/ poller' = [poller EXCEPT ![p] = Resting],
           feed' \subseteq Payloads, capEvents' \in 0 .. MaxCapEvents,
           UNCHANGED <<over, table, stamp, airings, deletions, raced>>
    PROVE  CapInv'
  <1>1. stamp \in Nat /\ CapTypeOK
    BY DEF CapInv, CapTypeOK
  <1>2. CASE Done(p)
    <2> DEFINE s == [poller[p] EXCEPT !.at = "picking", !.item = NoPayload, !.own = 0]
    <2>1. poller' = [poller EXCEPT ![p] = s]
      BY <1>1, <1>2 DEF Done, CapTypeOK
    <2>2. s.at = "picking" /\ s.own = 0
      BY <1>1 DEF CapTypeOK
    <2>3. s \in PollerType
      BY <1>1, PollerValues
    <2> HIDE DEF s
    <2>4. s.own <= stamp /\ s.at \notin Saving /\ s.at \notin {"chaining", "forwarding"}
      BY <1>1, <2>2 DEF Saving
    <2> QED
      BY <2>1, <2>3, <2>4, MovingStep
  <1>3. CASE poller' = [poller EXCEPT ![p] = Resting]
    <2>1. Resting.at = "idle" /\ Resting.own = 0
      BY DEF Resting
    <2>2. Resting \in PollerType
      BY <1>1, PollerValues
    <2>3. /\ Resting.own <= stamp /\ Resting.at \notin Saving
          /\ Resting.at \notin {"chaining", "forwarding"}
      BY <1>1, <2>1 DEF Saving
    <2> QED
      BY <1>3, <2>2, <2>3, MovingStep
  <1> QED
    BY <1>2, <1>3

LEMMA PollStep ==
    ASSUME CapInv, NEW p \in Pollers, NEW failed, Poll(p, failed)
    PROVE  CapInv'
  <1>0. PICK passed \in OnePerSignature(Fetched(failed)) : \E kept \in SUBSET Best(passed) :
          poller' = [poller EXCEPT ![p] = [Resting EXCEPT !.at = "picking", !.todo = kept]]
    BY DEF Poll
  <1>1. PICK kept \in SUBSET Best(passed) :
          poller' = [poller EXCEPT ![p] = [Resting EXCEPT !.at = "picking", !.todo = kept]]
    BY <1>0
  <1>2. kept \subseteq Payloads
    BY DEF OnePerSignature, Fetched, Best, CapInv, CapTypeOK
  <1> DEFINE s == [Resting EXCEPT !.at = "picking", !.todo = kept]
  <1>3. s \in PollerType /\ s.at = "picking" /\ s.own = 0
    BY <1>2 DEF Resting, PollerType
  <1>4. poller' = [poller EXCEPT ![p] = s]
    BY <1>1
  <1> HIDE DEF s
  <1>5. s.own <= stamp /\ s.at \notin Saving /\ s.at \notin {"chaining", "forwarding"}
    BY <1>3 DEF Saving, CapInv, CapTypeOK
  <1>6. /\ feed' \subseteq Payloads /\ capEvents' \in 0 .. MaxCapEvents
        /\ UNCHANGED <<over, table, stamp, airings, deletions, raced>>
    BY DEF Poll, CapInv, CapTypeOK
  <1> QED
    BY <1>3, <1>4, <1>5, <1>6, MovingStep

LEMMA PickStep ==
    ASSUME CapInv, NEW p \in Pollers, NEW c \in Payloads, Pick(p, c)
    PROVE  CapInv'
  <1> DEFINE s == [poller[p] EXCEPT !.todo = @ \ {c},
                     !.item = IF c.match = "same" THEN c ELSE NoPayload,
                     !.own = IF c.match = "same" THEN table[c.id].stamp ELSE 0,
                     !.at = IF c.match # "same" THEN "picking"
                            ELSE IF Exists(c.id) THEN "updating" ELSE "inserting"]
  <1>1. table[c.id].stamp \in Nat /\ table[c.id].stamp <= stamp /\ stamp \in Nat
    BY IdsAreNumbers, RowsHaveStamps DEF CapInv, CapTypeOK
  <1>2. poller' = [poller EXCEPT ![p] = s]
    BY DEF Pick, CapInv, CapTypeOK
  <1>3. poller[p] \in PollerType
    BY DEF CapInv, CapTypeOK, PollerType
  <1>4. /\ s.own \in {0, table[c.id].stamp}
        /\ s.at \in {"picking", "updating", "inserting"}
        /\ s.at \in Saving => s.item = c
        /\ s.item \in {c, NoPayload} /\ s.todo = poller[p].todo \ {c}
    BY <1>3 DEF PollerType, Saving
  <1>5. s \in PollerType
    BY <1>1, <1>3 DEF PollerType
  <1> HIDE DEF s
  <1>6. /\ s.own <= stamp /\ (s.at \in Saving => s.item \in Payloads)
        /\ s.at \notin {"chaining", "forwarding"}
    BY <1>1, <1>4
  <1>7. /\ feed' \subseteq Payloads /\ capEvents' \in 0 .. MaxCapEvents
        /\ UNCHANGED <<over, table, stamp, airings, deletions, raced>>
    BY DEF Pick, CapInv, CapTypeOK
  <1> QED
    BY <1>2, <1>5, <1>6, <1>7, MovingStep

LEMMA InsertRowStep ==
    ASSUME CapInv, NEW p \in Pollers, InsertRow(p)
    PROVE  CapInv'
  <1> DEFINE c == poller[p].item
  <1>1. c \in Payloads /\ c.id \in Ids /\ c.event \in Nat
    BY IdsAreNumbers DEF InsertRow, PollerAt, CapInv, PollersInv, Saving
  <1>2. poller[p] \in PollerType /\ stamp \in Nat /\ CapTypeOK
    BY DEF CapInv, CapTypeOK, PollerType
  <1>3. CASE Exists(c.id)
    <2> DEFINE s == [poller[p] EXCEPT !.at = "updating", !.own = table[c.id].stamp]
    <2>1. poller' = [poller EXCEPT ![p] = s]
      BY <1>2, <1>3 DEF InsertRow, WithRow, CapTypeOK
    <2>2. table[c.id].stamp \in Nat /\ table[c.id].stamp <= stamp
      BY <1>1, <1>2, RowsHaveStamps DEF CapTypeOK
    <2>3. s \in PollerType
      BY <1>2, <2>2, PollerValues DEF Saving
    <2>4. s.at = "updating" /\ s.own = table[c.id].stamp /\ s.item = c
      BY <1>2 DEF PollerType
    <2>5. UNCHANGED <<feed, over, capEvents, table, stamp, airings, deletions, raced>>
      BY <1>3 DEF InsertRow
    <2> HIDE DEF s
    <2>6. /\ s.own <= stamp /\ (s.at \in Saving => s.item \in Payloads)
          /\ s.at \notin {"chaining", "forwarding"}
      BY <1>1, <2>2, <2>4
    <2>7. /\ feed' \subseteq Payloads /\ capEvents' \in 0 .. MaxCapEvents
          /\ UNCHANGED <<over, table, stamp, airings, deletions, raced>>
      BY <1>2, <2>5 DEF CapTypeOK
    <2> QED
      BY <2>1, <2>3, <2>6, <2>7, MovingStep
  <1>4. CASE ~Exists(c.id)
    <2> DEFINE s == [poller[p] EXCEPT !.at = "chaining", !.own = stamp + 1]
    <2>1. /\ table' = [table EXCEPT ![c.id] = NewRow(stamp + 1, c.event)]
          /\ stamp' = stamp + 1 /\ raced' = (raced \/ Chaining)
          /\ UNCHANGED <<feed, over, airings, deletions, capEvents>>
      BY <1>4 DEF InsertRow, NewRow
    <2>2. poller' = [poller EXCEPT ![p] = s]
      BY <1>2, <1>4 DEF InsertRow, WithRow, CapTypeOK
    <2>3. s \in PollerType /\ s.at = "chaining" /\ s.own = stamp + 1 /\ s.item = c
      <3>1. s \in PollerType
        <4>1. "chaining" \in Saving /\ stamp + 1 \in Nat
          BY <1>2 DEF Saving
        <4> QED
          BY <1>2, <4>1, PollerValues
      <3> QED
        BY <1>2, <3>1 DEF PollerType
    <2>4. stamp + 1 \in Nat \ {0}
      BY <1>2
    <2>5. NewRow(stamp + 1, c.event) \in Row /\ NewRow(stamp + 1, c.event).stamp = stamp + 1
          /\ NewRow(stamp + 1, c.event).sup = 0
      BY <1>1, <2>4, NewRows
    <2> HIDE DEF s
    <2>6. /\ table'[c.id] = NewRow(stamp + 1, c.event)
          /\ \A i \in Ids \ {c.id} : table'[i] = table[i]
          /\ table' \in [Ids -> Row \cup {NoRow}]
      BY <1>1, <1>2, <2>1, <2>5 DEF CapTypeOK
    <2>7. poller'[p] = s /\ \A q \in Pollers \ {p} : poller'[q] = poller[q]
      BY <1>2, <2>2 DEF CapTypeOK
    <2>8. CapTypeOK'
      <3>1. poller' \in [Pollers -> PollerType]
        BY <1>2, <2>2, <2>3 DEF CapTypeOK, PollerType
      <3>2. \A i \in Ids : table'[i].stamp <= stamp'
        <4>1. \A i \in Ids : table[i].stamp \in Nat /\ table[i].stamp <= stamp
          BY <1>2, RowsHaveStamps DEF CapTypeOK
        <4> QED
          BY <1>2, <2>1, <2>5, <2>6, <4>1
      <3>3. raced' \in BOOLEAN
        BY <2>1, Zenon
      <3> QED
        BY <1>2, <2>1, <2>4, <2>6, <3>1, <3>2, <3>3 DEF CapTypeOK, PollerType
    <2> QED
      BY <1>1, <1>4, <2>1, <2>3, <2>5, <2>6, <2>7, <2>8, InsertingStep
  <1> QED
    BY <1>3, <1>4

-----------------------------------------------------------------------------
(* Steps that change rows but insert none.                                 *)
LEMMA RowsStep ==
    ASSUME CapInv,
           table' \in [Ids -> Row \cup {NoRow}],
           \A i \in Ids : table'[i].stamp = table[i].stamp,
           ChainGoesForward',
           \/ UNCHANGED poller
           \/ \E p \in Pollers : Done(p)
           \/ \E p \in Pollers : PollerAt(p, "chaining") /\ PollerTo(p, "forwarding"),
           UNCHANGED <<feed, over, stamp, airings, deletions, raced, capEvents>>
    PROVE  CapInv'
  <1>1. /\ poller' \in [Pollers -> PollerType]
        /\ \A q \in Pollers : poller'[q].own <= stamp
        /\ \A q \in Pollers : poller'[q].at \in Saving => poller'[q].item \in Payloads
        /\ \A q \in Pollers : poller'[q].at \in {"chaining", "forwarding"} =>
               /\ poller[q].at \in {"chaining", "forwarding"}
               /\ poller'[q].at = "chaining" => poller[q].at = "chaining"
               /\ poller'[q].item = poller[q].item /\ poller'[q].own = poller[q].own
    <2>1. CASE UNCHANGED poller
      BY <2>1 DEF CapInv, CapTypeOK, PollersInv, PollerType
    <2>2. ASSUME NEW p \in Pollers, Done(p) PROVE <1>1!:
      <3> DEFINE s == [poller[p] EXCEPT !.at = "picking", !.item = NoPayload, !.own = 0]
      <3>1. poller' = [poller EXCEPT ![p] = s]
        BY <2>2 DEF Done, CapInv, CapTypeOK
      <3>2. s \in PollerType
        BY PollerValues DEF CapInv
      <3>3. s.at = "picking" /\ s.own = 0
        BY DEF CapInv, CapTypeOK
      <3> HIDE DEF s
      <3>4. poller'[p] = s /\ \A q \in Pollers \ {p} : poller'[q] = poller[q]
        BY <3>1 DEF CapInv, CapTypeOK
      <3>5. poller' \in [Pollers -> PollerType]
        BY <3>1, <3>2 DEF CapInv, CapTypeOK, PollerType
      <3>6. stamp \in Nat
        BY DEF CapInv, CapTypeOK
      <3> QED
        BY <3>3, <3>4, <3>5, <3>6 DEF CapInv, PollersInv, Saving
    <2>3. ASSUME NEW p \in Pollers, PollerAt(p, "chaining"), PollerTo(p, "forwarding")
          PROVE  <1>1!:
      <3> DEFINE s == [poller[p] EXCEPT !.at = "forwarding"]
      <3>1. poller' = [poller EXCEPT ![p] = s]
        BY <2>3 DEF PollerTo, CapInv, CapTypeOK
      <3>2. s \in PollerType
        BY PollerValues DEF CapInv, Saving
      <3>3. s.at = "forwarding" /\ s.own = poller[p].own /\ s.item = poller[p].item
        BY DEF CapInv, CapTypeOK
      <3> HIDE DEF s
      <3>4. poller'[p] = s /\ \A q \in Pollers \ {p} : poller'[q] = poller[q]
        BY <3>1 DEF CapInv, CapTypeOK
      <3>5. poller' \in [Pollers -> PollerType]
        BY <3>1, <3>2 DEF CapInv, CapTypeOK, PollerType
      <3> QED
        BY <2>3, <3>3, <3>4, <3>5 DEF CapInv, PollersInv, Saving, PollerAt
    <2> QED
      BY <2>1, <2>2, <2>3
  <1>2. CapTypeOK'
    BY <1>1 DEF CapInv, CapTypeOK, PollerType
  <1>3. \A i \in Ids : deletions'[i] >= deletions[i]
    BY DEF CapInv, CapTypeOK
  <1> QED
    BY <1>1, <1>2, <1>3, KeepingStep

LEMMA ChainStep ==
    ASSUME CapInv, NEW p \in Pollers, Chain(p)
    PROVE  CapInv'
  <1> DEFINE c == poller[p].item
  <1>1. c \in Payloads /\ c.id \in Ids /\ PollerAt(p, "chaining")
    BY IdsAreNumbers DEF Chain, PollerAt, CapInv, PollersInv, Saving
  <1>2. UNCHANGED <<feed, over, stamp, airings, deletions, raced, capEvents>>
    BY DEF Chain
  <1>3. CASE UNCHANGED table /\ (PollerTo(p, "forwarding") \/ Done(p))
    <2>1. ChainGoesForward'
      BY <1>2, <1>3 DEF CapInv, ChainGoesForward, Exists
    <2>2. table' \in [Ids -> Row \cup {NoRow}] /\ \A i \in Ids : table'[i].stamp = table[i].stamp
      BY <1>3 DEF CapInv, CapTypeOK
    <2> QED
      BY <1>1, <1>2, <1>3, <2>1, <2>2, RowsStep
  <1>4. CASE HasRow(p) /\ PollerTo(p, "forwarding") /\ table' = Superseded(c)
    <2>1. ASSUME NEW i \in Ids
          PROVE  /\ table'[i] \in Row \cup {NoRow} /\ table'[i].stamp = table[i].stamp
                 /\ \/ table'[i].sup = table[i].sup
                    \/ table'[i].sup = c.id /\ i # c.id /\ Exists(i)
      <3>1. CASE i \notin Prior(c)
        <4>1. table'[i] = table[i]
          BY <1>4, <3>1 DEF Superseded
        <4> QED
          BY <4>1 DEF CapInv, CapTypeOK
      <3>2. CASE i \in Prior(c)
        <4>1. table[i] \in Row /\ Exists(i) /\ i # c.id
          BY <3>2, RowsHaveStamps DEF CapInv, Prior
        <4>2. c.id \in {0} \cup Ids /\ 0 \in Nat
          BY <1>1
        <4>3. CASE table'[i] = [table[i] EXCEPT !.sup = c.id]
          BY <4>1, <4>2, <4>3 DEF Row
        <4>4. CASE table'[i] = [table[i] EXCEPT !.sup = c.id, !.status = "Expired", !.cut = TRUE]
          BY <4>1, <4>2, <4>4 DEF Row
        <4> QED
          BY <1>4, <3>2, <4>3, <4>4 DEF Superseded
      <3> QED
        BY <3>1, <3>2
    <2>2. table' \in [Ids -> Row \cup {NoRow}]
      BY <1>4, <2>1 DEF Superseded
    <2>3. \A i \in Ids : Exists(i)' <=> Exists(i)
      <3>1. \A i \in Ids : Exists(i) <=> table[i].stamp # 0
        BY RowsHaveStamps DEF CapInv
      <3>2. \A i \in Ids : Exists(i)' <=> table'[i].stamp # 0
        BY <2>2 DEF Exists, NoRow, Row
      <3> QED
        BY <2>1, <3>1, <3>2
    <2>4. ~raced => \A i \in Ids \ {c.id} : table[i].stamp < table[c.id].stamp
      BY <1>1, <1>4 DEF CapInv, NewestInv, HasRow
    <2>5. ChainGoesForward'
      BY <1>1, <1>2, <2>1, <2>3, <2>4 DEF CapInv, ChainGoesForward
    <2> QED
      BY <1>1, <1>2, <1>4, <2>1, <2>2, <2>5, RowsStep
  <1> QED
    BY <1>3, <1>4 DEF Chain

(* Rows change, and neither their stamps nor their links.                  *)
LEMMA LinksKept ==
    ASSUME CapInv, table' \in [Ids -> Row \cup {NoRow}], UNCHANGED raced,
           \A i \in Ids : table'[i].stamp = table[i].stamp
                          /\ (Exists(i) => table'[i].sup = table[i].sup)
    PROVE  ChainGoesForward'
  <1>1. \A i \in Ids : Exists(i) <=> table[i].stamp # 0
    BY RowsHaveStamps DEF CapInv
  <1>2. \A i \in Ids : Exists(i)' <=> table'[i].stamp # 0
    BY DEF Exists, NoRow, Row
  <1> QED
    BY <1>1, <1>2 DEF CapInv, ChainGoesForward

LEMMA UpdatedRows ==
    ASSUME CapInv, NEW p \in Pollers, Update(p)
    PROVE  /\ table' \in [Ids -> Row \cup {NoRow}]
           /\ \A i \in Ids : table'[i].stamp = table[i].stamp
                             /\ (Exists(i) => table'[i].sup = table[i].sup)
  <1> DEFINE c == poller[p].item
  <1>1. c.id \in Ids /\ c.event \in Nat
    BY IdsAreNumbers DEF Update, PollerAt, CapInv, PollersInv, Saving
  <1>2. CASE ~HasRow(p)
    BY <1>2 DEF Update, CapInv, CapTypeOK
  <1>3. CASE HasRow(p)
    <2> DEFINE e == IF table[c.id].event = 0 THEN c.event ELSE table[c.id].event
               r == [table[c.id] EXCEPT !.status = "Actual", !.cut = FALSE, !.event = e]
    <2>1. table[c.id] \in Row
      BY <1>1, <1>3, RowsHaveStamps DEF HasRow, CapInv
    <2>2. e \in Nat /\ 0 \in {0} \cup Ids
      BY <1>1, <2>1 DEF Row
    <2>3. table' = [table EXCEPT ![c.id] = r]
      BY <1>1, <1>3, <2>1 DEF Update, CapInv, CapTypeOK
    <2> HIDE DEF e
    <2>4. r \in Row /\ r.stamp = table[c.id].stamp /\ r.sup = table[c.id].sup
      BY <2>1, <2>2, ChangedRows
    <2> HIDE DEF r
    <2> QED
      BY <1>1, <2>3, <2>4 DEF CapInv, CapTypeOK
  <1> QED
    BY <1>2, <1>3

LEMMA UpdateStep ==
    ASSUME CapInv, NEW p \in Pollers, Update(p)
    PROVE  CapInv'
  <1>1. Done(p) /\ UNCHANGED <<feed, over, stamp, airings, deletions, raced, capEvents>>
    BY DEF Update
  <1> QED
    BY <1>1, UpdatedRows, LinksKept, RowsStep

LEMMA ExpiredRows ==
    ASSUME CapInv, MarkExpired
    PROVE  /\ table' \in [Ids -> Row \cup {NoRow}]
           /\ \A i \in Ids : table'[i].stamp = table[i].stamp
                             /\ (Exists(i) => table'[i].sup = table[i].sup)
  <1>1. table' = [i \in Ids |-> IF Exists(i) /\ IsOver(i)
                                  THEN [table[i] EXCEPT !.status = "Expired"]
                                  ELSE table[i]]
    BY DEF MarkExpired
  <1>2. ASSUME NEW i \in Ids
        PROVE  /\ table'[i] \in Row \cup {NoRow} /\ table'[i].stamp = table[i].stamp
               /\ table'[i].sup = table[i].sup
    <2>1. CASE Exists(i) /\ IsOver(i)
      <3>1. table[i] \in Row /\ 0 \in {0} \cup Ids /\ 0 \in Nat
        BY <2>1, RowsHaveStamps DEF CapInv
      <3>2. table'[i] = [table[i] EXCEPT !.status = "Expired"]
        BY <1>1, <2>1
      <3> QED
        BY <3>1, <3>2, ChangedRows
    <2>2. CASE ~(Exists(i) /\ IsOver(i))
      BY <1>1, <2>2 DEF CapInv, CapTypeOK
    <2> QED
      BY <2>1, <2>2
  <1> QED
    BY <1>1, <1>2

LEMMA MarkExpiredStep == ASSUME CapInv, MarkExpired PROVE CapInv'
  <1>1. UNCHANGED <<feed, over, poller, stamp, airings, deletions, raced, capEvents>>
    BY DEF MarkExpired
  <1> QED
    BY <1>1, ExpiredRows, LinksKept, RowsStep

(* Rows are deleted, and links to them with them. *)
LEMMA DeletingStep ==
    ASSUME CapInv, NEW gone \in SUBSET Ids, DeleteAlerts(gone)
    PROVE  CapInv'
  <1>1. /\ \A i \in gone : Exists(i)
        /\ table' = Without(gone)
        /\ deletions' = [i \in Ids |-> IF i \in gone THEN deletions[i] + 1 ELSE deletions[i]]
        /\ UNCHANGED <<feed, over, poller, stamp, airings, raced>>
        /\ capEvents' \in 0 .. MaxCapEvents
    BY PollerAssumption DEF DeleteAlerts, CapHappens, CapInv, CapTypeOK
  <1>2. ASSUME NEW i \in Ids
        PROVE  /\ table'[i] \in Row \cup {NoRow}
               /\ i \in gone => table'[i] = NoRow
               /\ i \notin gone => /\ table'[i].stamp = table[i].stamp
                                   /\ Exists(i)' => Exists(i) /\ table'[i].sup \in {0, table[i].sup}
    <2>1. CASE i \in gone \/ ~Exists(i)
      <3>1. table'[i] = NoRow
        BY <1>1, <2>1 DEF Without
      <3>2. ~Exists(i)'
        BY <3>1 DEF Exists
      <3> QED
        BY <2>1, <3>1, <3>2 DEF Exists
    <2>2. CASE i \notin gone /\ Exists(i) /\ table[i].sup \in gone
      <3>1. table[i] \in Row
        BY <2>2, RowsHaveStamps DEF CapInv
      <3>2. table'[i] = [table[i] EXCEPT !.sup = 0]
        BY <1>1, <2>2 DEF Without
      <3> QED
        BY <2>2, <3>1, <3>2 DEF Row
    <2>3. CASE i \notin gone /\ Exists(i) /\ table[i].sup \notin gone
      <3>1. table'[i] = table[i]
        BY <1>1, <2>3 DEF Without
      <3> QED
        BY <2>3, <3>1 DEF CapInv, CapTypeOK
    <2> QED
      BY <2>1, <2>2, <2>3
  <1>3. table' \in [Ids -> Row \cup {NoRow}]
    BY <1>1, <1>2 DEF Without
  <1>4. \A i \in Ids : table[i].stamp \in Nat /\ NoRow.stamp = 0
    BY RowsHaveStamps DEF CapInv, NoRow
  <1>5. CapTypeOK'
    <2>1. \A i \in Ids : table'[i].stamp <= stamp
      BY <1>2, <1>4 DEF CapInv, CapTypeOK
    <2>2. deletions' \in [Ids -> Nat]
      BY <1>1 DEF CapInv, CapTypeOK
    <2> QED
      BY <1>1, <1>3, <2>1, <2>2 DEF CapInv, CapTypeOK
  <1>6. \A i \in Ids : /\ deletions'[i] >= deletions[i]
                       /\ \/ table'[i].stamp = table[i].stamp
                          \/ table'[i].stamp = 0 /\ deletions'[i] > deletions[i]
    BY <1>1, <1>2, <1>4 DEF CapInv, CapTypeOK
  <1>7. ChainGoesForward'
    <2> SUFFICES ASSUME ~raced, NEW i \in Ids, NEW j \in Ids, Exists(i)', Exists(j)',
                        table'[i].sup = j
                 PROVE  table'[i].stamp < table'[j].stamp
      BY <1>1 DEF ChainGoesForward
    <2>1. i \notin gone /\ j \notin gone
      BY <1>2 DEF Exists
    <2>2. Exists(i) /\ Exists(j) /\ table[i].sup = j
      BY <1>2, <2>1, IdsAreNumbers
    <2> QED
      BY <1>2, <2>1, <2>2 DEF CapInv, ChainGoesForward
  <1>8. PollersInv
    BY DEF CapInv
  <1> QED
    BY <1>1, <1>5, <1>6, <1>7, <1>8, KeepingStep DEF PollersInv

LEMMA ImportStep ==
    ASSUME CapInv, NEW c \in Payloads, Import(c)
    PROVE  CapInv'
  <1>1. c.id \in Ids /\ ~Exists(c.id)
    BY IdsAreNumbers DEF Import
  <1>2. /\ table' = [table EXCEPT ![c.id] = NewRow(stamp + 1, 0)]
        /\ stamp' = stamp + 1 /\ raced' = (raced \/ Chaining)
        /\ UNCHANGED <<feed, over, poller, airings, deletions>>
        /\ capEvents' \in 0 .. MaxCapEvents
    BY PollerAssumption DEF Import, NewRow, CapHappens, CapInv, CapTypeOK
  <1>3. stamp \in Nat /\ stamp + 1 \in Nat \ {0} /\ 0 \in Nat
    BY DEF CapInv, CapTypeOK
  <1>4. NewRow(stamp + 1, 0) \in Row /\ NewRow(stamp + 1, 0).stamp = stamp + 1
        /\ NewRow(stamp + 1, 0).sup = 0
    BY <1>3, NewRows
  <1>5. /\ table'[c.id] = NewRow(stamp + 1, 0)
        /\ \A i \in Ids \ {c.id} : table'[i] = table[i]
        /\ table' \in [Ids -> Row \cup {NoRow}]
    BY <1>1, <1>2, <1>4 DEF CapInv, CapTypeOK
  <1>6. CapTypeOK'
    <2>1. \A i \in Ids : table'[i].stamp <= stamp'
      <3>1. \A i \in Ids : table[i].stamp \in Nat /\ table[i].stamp <= stamp
        BY RowsHaveStamps DEF CapInv, CapTypeOK
      <3> QED
        BY <1>2, <1>3, <1>4, <1>5, <3>1
    <2>2. raced' \in BOOLEAN
      BY <1>2, Zenon
    <2> QED
      BY <1>2, <1>3, <1>5, <2>1, <2>2 DEF CapInv, CapTypeOK
  <1>7. PICK nobody : nobody \notin Pollers
    BY NoSetContainsEverything
  <1> QED
    BY <1>1, <1>2, <1>4, <1>5, <1>6, <1>7, InsertingStep

-----------------------------------------------------------------------------
LEMMA CapInvStep == CapInv /\ [CapNext]_capVars => CapInv'
  <1> SUFFICES ASSUME CapInv, [CapNext]_capVars PROVE CapInv'
    OBVIOUS
  <1>1. ASSUME NEW p \in Pollers, HandOver(p) PROVE CapInv'
    <2> DEFINE s == [poller[p] EXCEPT !.at = "picking", !.item = NoPayload, !.own = 0]
    <2>1. poller' = [poller EXCEPT ![p] = s]
      BY <1>1 DEF HandOver, Done, CapInv, CapTypeOK
    <2>2. s \in PollerType
      BY PollerValues DEF CapInv
    <2> HIDE DEF s
    <2>3. poller' \in [Pollers -> PollerType]
      BY <2>1, <2>2 DEF CapInv, CapTypeOK, PollerType
    <2>4. airings' \in [Ids -> Nat]
      <3>1. airings \in [Ids -> Nat] /\ poller[p].item.id \in Ids
        BY <1>1, IdsAreNumbers DEF HandOver, PollerAt, CapInv, CapTypeOK, PollersInv, Saving
      <3>2. \/ airings' = airings
            \/ airings' = [airings EXCEPT ![poller[p].item.id] = airings[poller[p].item.id] + 1]
        BY <1>1 DEF HandOver
      <3> QED
        BY <3>1, <3>2
    <2>5. CapTypeOK'
      BY <1>1, <2>3, <2>4 DEF HandOver, CapInv, CapTypeOK, PollerType
    <2> QED
      BY <1>1, <2>5, HandOverStep
  <1>2. ASSUME NEW p \in Pollers, PollEnds(p) \/ SaveFails(p) \/ CrashPoller(p) PROVE CapInv'
    <2>1. Done(p) \/ poller' = [poller EXCEPT ![p] = Resting]
      BY <1>2 DEF PollEnds, SaveFails, CrashPoller
    <2>2. /\ feed' \subseteq Payloads /\ capEvents' \in 0 .. MaxCapEvents
          /\ UNCHANGED <<over, table, stamp, airings, deletions, raced>>
      BY <1>2, PollerAssumption DEF PollEnds, SaveFails, CrashPoller, CapHappens, CapInv, CapTypeOK
    <2> QED
      BY <2>1, <2>2, LeavingStep
  <1>3. CASE (\E c \in Payloads : Issue(c)) \/ (\E i \in Ids : ExpiryPasses(i)) \/ UNCHANGED capVars
    <2>1. /\ UNCHANGED <<poller, table, stamp, airings, deletions, raced, capEvents>>
          /\ feed' \subseteq Payloads /\ over' \subseteq Ids
      BY <1>3 DEF Issue, ExpiryPasses, capVars, CapInv, CapTypeOK
    <2> QED
      BY <2>1 DEF CapInv, CapTypeOK, PollersInv, AiringInv, NewestInv, ChainGoesForward,
                  Fresh, HasRow, PollerAt, Exists
  <1>4. CASE DeleteOne \/ ClearExpired
    BY <1>4, DeletingStep DEF DeleteOne, ClearExpired
  <1> QED
    BY <1>1, <1>2, <1>3, <1>4, PollStep, PickStep, InsertRowStep, ChainStep, UpdateStep,
       ImportStep, MarkExpiredStep DEF CapNext

LEMMA CapInvariant == CapSpec => []CapInv
  BY CapInvInit, CapInvStep, PTL DEF CapSpec

(* The variables of the poller keep their types.                           *)
THEOREM PollerTypeCorrect == CapSpec => []CapTypeOK
  <1>1. CapInv => CapTypeOK
    BY DEF CapInv
  <1> QED
    BY <1>1, CapInvariant, PTL

(* However many pollers run, crash and repeat themselves, an alert is      *)
(* handed to forwarding at most once for every insertion of its row.       *)
THEOREM AiredOnce == CapSpec => []AiredOncePerRow
  <1>1. CapInv => AiredOncePerRow
    BY DEF CapInv, CapTypeOK, AiringInv, AiredOncePerRow
  <1> QED
    BY <1>1, CapInvariant, PTL

(* A VTEC chain leads from older to newer products, hence to an end.       *)
THEOREM ChainsHaveAnEnd == CapSpec => []ChainGoesForward
  <1>1. CapInv => ChainGoesForward
    BY DEF CapInv
  <1> QED
    BY <1>1, CapInvariant, PTL

(* A product that is superseded stays superseded by the same product.      *)
THEOREM SupersededForGood == CapSpec => LinksStay
  <1> DEFINE L == \A i \in Ids :
                    Exists(i) /\ Exists(i)' /\ table[i].sup # 0 /\ deletions' = deletions =>
                        table[i].sup' = table[i].sup
  <1>1. CapInv /\ [CapNext]_capVars => L
    <2> SUFFICES ASSUME CapInv, [CapNext]_capVars PROVE L
      OBVIOUS
    <2>1. CASE UNCHANGED table
      BY <2>1
    <2>2. ASSUME NEW p \in Pollers, InsertRow(p) PROVE L
      <3>1. \A i \in Ids : Exists(i) => table'[i] = table[i]
        BY <2>2 DEF InsertRow, CapInv, CapTypeOK
      <3> QED
        BY <3>1
    <2>3. ASSUME NEW c \in Payloads, Import(c) PROVE L
      <3>1. \A i \in Ids : Exists(i) => table'[i] = table[i]
        BY <2>3 DEF Import, CapInv, CapTypeOK
      <3> QED
        BY <3>1
    <2>4. ASSUME NEW p \in Pollers, Chain(p) PROVE L
      <3>1. ASSUME NEW i \in Ids, table[i].sup # 0 PROVE table'[i] = table[i]
        BY <2>4, <3>1 DEF Chain, Superseded, Prior
      <3> QED
        BY <3>1
    <2>5. ASSUME NEW p \in Pollers, Update(p) PROVE L
      BY <2>5, UpdatedRows
    <2>6. CASE MarkExpired
      BY <2>6, ExpiredRows
    <2>7. ASSUME NEW gone \in SUBSET Ids, DeleteAlerts(gone) PROVE L
      <3>1. PICK i \in gone : deletions'[i] = deletions[i] + 1 /\ deletions[i] \in Nat
        BY <2>7 DEF DeleteAlerts, CapInv, CapTypeOK
      <3> QED
        BY <3>1
    <2>8. UNCHANGED table
          \/ (\E p \in Pollers : InsertRow(p) \/ Chain(p) \/ Update(p))
          \/ (\E c \in Payloads : Import(c)) \/ MarkExpired
          \/ \E gone \in SUBSET Ids : DeleteAlerts(gone)
      BY ZenonT(40) DEF CapNext, capVars, Issue, ExpiryPasses, Poll, Pick, PollEnds, HandOver, SaveFails,
             CrashPoller, DeleteOne, ClearExpired
    <2> QED
      BY <2>1, <2>2, <2>3, <2>4, <2>5, <2>6, <2>7, <2>8
  <1> QED
    BY <1>1, CapInvariant, PTL DEF CapSpec, LinksStay

=============================================================================
