-------------------------- MODULE EASMonitorProofs --------------------------
(***************************************************************************)
(* Proofs about EASMonitor for every set of sources, headers and threads   *)
(* and every timeout and ring size.                                        *)
(***************************************************************************)
EXTENDS EASMonitor, TLAPS

(* A loop holds an alert exactly while it is inside _on_eom_received, and  *)
(* has a current source exactly while it stores and decodes a chunk of it. *)
LoopInv ==
    \A t \in Threads :
        /\ hand[t] # None <=> pc[t] \in {"popped", "slice"}
        /\ cur[t] # None <=> pc[t] \in {"trim", "decode"}

(* Typing and the loops' local variables: what the type proof needs.       *)
TInv == TypeOK /\ LoopInv

USE DEF Phases

(* Time changes nothing of a pending alert but its age.                    *)
LEMMA OlderType ==
    ASSUME NEW a \in Alert \cup {None}
    PROVE  /\ Older(a) \in Alert \cup {None}
           /\ Older(a) = None <=> a = None
           /\ a # None => Older(a).id = a.id /\ Older(a).hdr = a.hdr
  BY ConstantsAssumption, NoneAssumption DEF Older, Alert

(* What popping does to the types, whatever the reason for it.             *)
LEMMA PopType ==
    ASSUME TInv, NEW t \in Threads, NEW s \in Sources,
           NEW why \in {"eom", "timeout"}, NEW phase \in {"poll", "sweep"},
           PopPending(t, s, why, phase), pc[t] \in {"decode", "sweep"}
    PROVE  /\ pending' \in [Sources -> Alert \cup {None}]
           /\ zczc' \in [Sources -> Nat \cup {None}]
           /\ hand' \in [Threads -> Popped \cup {None}]
           /\ pc' \in [Threads -> Phases]
           /\ back' \in [Threads -> {"poll", "sweep"}]
           /\ \A u \in Threads : hand'[u] # None <=> pc'[u] \in {"popped", "slice"}
           /\ \A u \in Threads : u # t => pc'[u] = pc[u]
           /\ pc'[t] \notin {"trim", "decode"}
  <1>1. pending' \in [Sources -> Alert \cup {None}] /\ zczc' \in [Sources -> Nat \cup {None}]
    BY DEF PopPending, TInv, TypeOK
  <1>2. CASE pending[s] = None
    BY <1>1, <1>2 DEF PopPending, TInv, TypeOK, LoopInv
  <1>3. CASE pending[s] # None
    <2> DEFINE h == [id |-> pending[s].id, src |-> s, anchor |-> zczc[s], why |-> why]
    <2>1. pending[s] \in Alert /\ zczc[s] \in Nat \cup {None}
      BY <1>3 DEF TInv, TypeOK
    <2>2. h \in Popped /\ h # None
      BY <2>1, NoneAssumption DEF Alert, Popped
    <2>3. hand' = [hand EXCEPT ![t] = h] /\ pc' = [pc EXCEPT ![t] = "popped"]
      BY <1>3 DEF PopPending
    <2>4. back' = [back EXCEPT ![t] = phase]
      BY <1>3 DEF PopPending
    <2> HIDE DEF h
    <2> QED
      BY <1>1, <2>2, <2>3, <2>4 DEF TInv, TypeOK, LoopInv
  <1> QED
    BY <1>2, <1>3

(* The monitor comes up well typed, with an empty hand in every loop.      *)
LEMMA InitTInv == Init => TInv
  <1> SUFFICES ASSUME Init PROVE TInv
    OBVIOUS
  <1>1. TypeOK
    <2>1. ringLen \in [Sources -> 0 .. RingMax] /\ nextId \in Nat \ {0}
      BY ConstantsAssumption DEF Init
    <2>2. superseded \subseteq Nat /\ forwarded \subseteq Forwarded
      BY DEF Init
    <2> QED
      BY <2>1, <2>2 DEF Init, TypeOK
  <1>2. LoopInv
    BY DEF Init, LoopInv
  <1> QED
    BY <1>1, <1>2 DEF TInv

(* Every step keeps the types and what they rest on.                       *)
LEMMA StepTInv == TInv /\ [Next]_vars => TInv'
  <1> SUFFICES ASSUME TInv, [Next]_vars PROVE TInv'
    OBVIOUS
  <1> USE DEF TInv, TypeOK, LoopInv, serviceVars, sourceVars, parkVars, ringVars, loopVars, heldVars
  <1>1. ASSUME NEW s \in Sources, SourceChanges(s) PROVE TInv'
    BY <1>1 DEF SourceChanges
  <1>2. CASE Tick
    BY <1>2, OlderType DEF Tick
  <1>3. ASSUME NEW t \in Threads, Start(t) PROVE TInv'
    BY <1>3 DEF Start
  <1>4. CASE Stop
    BY <1>4 DEF Stop
  <1>5. CASE StopJoined
    BY <1>5 DEF StopJoined
  <1>6. CASE CommandDiscovers
    BY <1>6 DEF CommandDiscovers
  <1>7. ASSUME NEW t \in Threads, LoopTop(t) PROVE TInv'
    BY <1>7 DEF LoopTop
  <1>8. ASSUME NEW t \in Threads, LoopExit(t) PROVE TInv'
    BY <1>8 DEF LoopExit
  <1>9. ASSUME NEW t \in Threads, NEW s \in Sources, NoAudio(t, s) PROVE TInv'
    BY <1>9 DEF NoAudio
  <1>10. ASSUME NEW t \in Threads, NEW s \in Sources, ReadAudio(t, s) PROVE TInv'
    BY <1>10, ConstantsAssumption, NoneAssumption DEF ReadAudio
  <1>11. ASSUME NEW t \in Threads, DecodeNothing(t) PROVE TInv'
    BY <1>11 DEF DecodeNothing, DecodeDone
  <1>12. ASSUME NEW t \in Threads, NEW h \in Headers, DecodeHeader(t, h) PROVE TInv'
    <2>1. cur[t] \in Sources
      BY <1>12 DEF DecodeHeader
    <2>2. PICK seen \in total[t] .. ringTotal[cur[t]] :
             zczc' = IF SameEventPending(cur[t], h) THEN zczc
                     ELSE [zczc EXCEPT ![cur[t]] = AnchorAt(seen)]
      BY <1>12 DEF DecodeHeader
    <2>21. AnchorAt(seen) \in Nat
      BY <2>1, <2>2, ConstantsAssumption DEF AnchorAt
    <2>22. renewed' \in [Threads -> SUBSET Sources]
      BY <1>12, <2>1 DEF DecodeHeader
    <2>3. [id |-> nextId, hdr |-> h, age |-> 0] \in Alert
      BY ConstantsAssumption DEF Alert
    <2>4. pending[cur[t]] # None => pending[cur[t]].id \in Nat
      BY <2>1 DEF Alert
    <2>5. pending' \in [Sources -> Alert \cup {None}]
      BY <1>12, <2>1, <2>3 DEF DecodeHeader
    <2>6. zczc' \in [Sources -> Nat \cup {None}]
      BY <2>1, <2>2, <2>21
    <2>7. superseded' \subseteq Nat
      BY <1>12, <2>4 DEF DecodeHeader
    <2>8. nextId' \in Nat \ {0}
      BY <1>12 DEF DecodeHeader
    <2> QED
      BY <1>12, <2>5, <2>6, <2>7, <2>8, <2>22 DEF DecodeHeader, DecodeDone
  <1>13. ASSUME NEW t \in Threads, DecodeEom(t) PROVE TInv'
    <2>1. cur[t] \in Sources /\ pc[t] = "decode"
      BY <1>13 DEF DecodeEom
    <2> QED
      BY <1>13, <2>1, PopType DEF DecodeEom, DecodeDone
  <1>14. ASSUME NEW t \in Threads, Forward(t) PROVE TInv'
    <2>1. hand[t] \in Popped /\ ringTotal[hand[t].src] \in Nat /\ ringLen[hand[t].src] \in Nat
      BY <1>14, ConstantsAssumption DEF Forward, Popped
    <2>2. hand[t].anchor \in Nat \cup {None}
      BY <2>1 DEF Popped
    <2>3. Captured(hand[t], total[t]) \in Int
      BY <2>1, <2>2 DEF Captured
    <2>4. PICK relay \in BOOLEAN :
            forwarded' = forwarded \cup
               {[id |-> hand[t].id, src |-> hand[t].src, anchor |-> hand[t].anchor,
                 seen |-> total[t],
                 from |-> ringTotal[hand[t].src] - Captured(hand[t], total[t]),
                 to |-> ringTotal[hand[t].src], why |-> hand[t].why, relay |-> relay]}
      BY <1>14 DEF Forward
    <2>5. forwarded' \subseteq Forwarded
      BY <2>1, <2>2, <2>3, <2>4 DEF Popped, Forwarded
    <2> QED
      BY <1>14, <2>5 DEF Forward
  <1>15. ASSUME NEW t \in Threads, CallbackReturns(t) PROVE TInv'
    BY <1>15 DEF CallbackReturns
  <1>16. ASSUME NEW t \in Threads, PollDone(t) PROVE TInv'
    BY <1>16 DEF PollDone, TimedOut
  <1>17. ASSUME NEW t \in Threads, NEW s \in Sources, SweepOne(t, s) PROVE TInv'
    BY <1>17, PopType DEF SweepOne
  <1>18. ASSUME NEW t \in Threads, SweepDone(t) PROVE TInv'
    BY <1>18 DEF SweepDone
  <1>20. ASSUME NEW t \in Threads, TrimRing(t) PROVE TInv'
    BY <1>20, ConstantsAssumption DEF TrimRing
  <1>21. ASSUME NEW t \in Threads, ReadRingTotal(t) PROVE TInv'
    <2>1. hand[t] \in Popped
      BY <1>21 DEF ReadRingTotal
    <2> QED
      BY <1>21, <2>1 DEF ReadRingTotal, RingTotalRead, Popped
  <1>19. CASE UNCHANGED vars
    BY <1>19 DEF vars
  <1> QED
    BY <1>1, <1>2, <1>3, <1>4, <1>5, <1>6, <1>7, <1>8, <1>9, <1>10, <1>11, <1>12,
       <1>13, <1>14, <1>15, <1>16, <1>17, <1>18, <1>19, <1>20, <1>21 DEF Next, Loop

(* Every variable of the monitor keeps its type.                           *)
THEOREM TypeCorrect == Spec => []TypeOK
  <1>1. TInv => TypeOK
    BY DEF TInv
  <1> QED
    BY InitTInv, StepTInv, <1>1, PTL DEF Spec

-----------------------------------------------------------------------------
(* Custody of the alerts.                                                  *)

SameIds(p, q) ==
    \A s \in Sources : (p[s] = None <=> q[s] = None) /\ (p[s] # None => p[s].id = q[s].id)

(* Steps that leave the alerts where they are, like the ageing of Tick.    *)
LEMMA KeptCustody ==
    ASSUME Custody, UNCHANGED <<hand, forwarded, superseded, nextId>>,
           SameIds(pending, pending')
    PROVE  Custody'
  <1>1. PendingIds' = PendingIds
    BY DEF PendingIds, SameIds
  <1>2. HandIds' = HandIds /\ ForwardedIds' = ForwardedIds
    BY DEF HandIds, ForwardedIds
  <1> QED
    BY <1>1, <1>2 DEF Custody, SameIds

(* A decoded header: a fresh id waits, the one it replaces is superseded.  *)
LEMMA DecodeHeaderEffect ==
    ASSUME TInv, Custody, NEW t \in Threads, NEW h \in Headers, DecodeHeader(t, h)
    PROVE  /\ cur[t] \in Sources
           /\ pending' = [pending EXCEPT ![cur[t]] = [id |-> nextId, hdr |-> h, age |-> 0]]
           /\ pending'[cur[t]] # None
           /\ nextId \notin PendingIds \cup HandIds \cup ForwardedIds \cup superseded
           /\ nextId \in 1 .. MaxAlerts
  <1>1. cur[t] \in Sources
    BY DEF DecodeHeader, TInv, TypeOK, LoopInv
  <1>2. [id |-> nextId, hdr |-> h, age |-> 0] \in Alert
    BY ConstantsAssumption DEF Alert, TInv, TypeOK
  <1>3. pending' = [pending EXCEPT ![cur[t]] = [id |-> nextId, hdr |-> h, age |-> 0]]
    BY DEF DecodeHeader
  <1>4. nextId \notin 1 .. nextId - 1 /\ nextId \in 1 .. MaxAlerts
    BY ConstantsAssumption DEF TInv, TypeOK, DecodeHeader
  <1> QED
    BY <1>1, <1>2, <1>3, <1>4, NoneAssumption DEF TInv, TypeOK, Custody

(* Accepting a header adds an alert or supersedes one; the other places keep*)
(* theirs.                                                                 *)
LEMMA DecodeHeaderCustody ==
    ASSUME TInv, Custody, NEW t \in Threads, NEW h \in Headers, DecodeHeader(t, h)
    PROVE  Custody'
  <1> DEFINE s == cur[t]
             gone == IF pending[s] = None THEN {} ELSE {pending[s].id}
             new == [id |-> nextId, hdr |-> h, age |-> 0]
  <1>1. s \in Sources /\ pending' = [pending EXCEPT ![s] = new] /\ pending'[s] # None
    BY DecodeHeaderEffect
  <1>2. nextId \notin PendingIds \cup HandIds \cup ForwardedIds \cup superseded
    BY DecodeHeaderEffect
  <1>3. pending \in [Sources -> Alert \cup {None}] /\ nextId \in Nat \ {0}
    BY DEF TInv, TypeOK
  <1>4. nextId' = nextId + 1 /\ superseded' = superseded \cup gone
    BY DEF DecodeHeader
  <1>5. HandIds' = HandIds /\ ForwardedIds' = ForwardedIds /\ hand' = hand
    BY DEF DecodeHeader, HandIds, ForwardedIds
  <1>6. pending'[s].id = nextId /\ \A r \in Sources \ {s} : pending'[r] = pending[r]
    BY <1>1, <1>3
  <1>7. gone \subseteq PendingIds
    BY <1>1 DEF PendingIds
  <1>8. \A r \in Sources \ {s} : pending[r] # None => pending[r].id \notin gone
    BY <1>1 DEF Custody
  <1>9. PendingIds' = (PendingIds \ gone) \cup {nextId}
    <2>1. ASSUME NEW x \in PendingIds' PROVE x \in (PendingIds \ gone) \cup {nextId}
      <3>1. PICK r \in Sources : pending'[r] # None /\ x = pending'[r].id
        BY <2>1 DEF PendingIds
      <3>2. CASE r = s
        BY <3>1, <3>2, <1>6
      <3>3. CASE r # s
        BY <3>1, <3>3, <1>6, <1>8 DEF PendingIds
      <3> QED
        BY <3>2, <3>3
    <2>2. nextId \in PendingIds'
      BY <1>1, <1>6 DEF PendingIds
    <2>3. ASSUME NEW x \in PendingIds \ gone PROVE x \in PendingIds'
      <3>1. PICK r \in Sources : pending[r] # None /\ x = pending[r].id
        BY <2>3 DEF PendingIds
      <3>2. r # s
        BY <2>3, <3>1
      <3> QED
        BY <3>1, <3>2, <1>6 DEF PendingIds
    <2> QED
      BY <2>1, <2>2, <2>3
  <1> HIDE DEF gone, new, s
  <1>10. 1 .. nextId' - 1 = (1 .. nextId - 1) \cup {nextId}
    BY <1>3, <1>4
  <1>11. (PendingIds \cup HandIds \cup ForwardedIds \cup superseded)' = 1 .. nextId' - 1
    BY <1>4, <1>5, <1>7, <1>9, <1>10 DEF Custody
  <1>12. \A q, r \in Sources :
           pending'[q] # None /\ pending'[r] # None /\ pending'[q].id = pending'[r].id
              => q = r
    <2>1. ASSUME NEW r \in Sources \ {s}, pending[r] # None PROVE pending[r].id # nextId
      BY <2>1, <1>2 DEF PendingIds
    <2> QED
      BY <1>1, <1>6, <2>1 DEF Custody
  <1> QED
    BY <1>2, <1>4, <1>5, <1>7, <1>9, <1>11, <1>12 DEF Custody

(* Popping moves the waiting alert, if there is one, into the loop's hand. *)
LEMMA PopCustody ==
    ASSUME TInv, Custody, NEW t \in Threads, NEW s \in Sources,
           pc[t] \notin {"popped", "slice"},
           NEW why \in {"eom", "timeout"}, NEW phase,
           PopPending(t, s, why, phase), UNCHANGED <<nextId, superseded, forwarded>>
    PROVE  /\ Custody'
           /\ pending[s] # None =>
                 /\ HandIds' = HandIds \cup {pending[s].id}
                 /\ PendingIds' = PendingIds \ {pending[s].id}
  <1>1. ForwardedIds' = ForwardedIds
    BY DEF ForwardedIds
  <1>2. pending \in [Sources -> Alert \cup {None}] /\ hand \in [Threads -> Popped \cup {None}]
    BY DEF TInv, TypeOK
  <1>3. pending'[s] = None /\ \A r \in Sources \ {s} : pending'[r] = pending[r]
    BY <1>2 DEF PopPending
  <1>4. CASE pending[s] = None
    <2>1. SameIds(pending, pending') /\ hand' = hand
      BY <1>3, <1>4 DEF PopPending, SameIds
    <2> QED
      BY <2>1, <1>4, KeptCustody
  <1>5. CASE pending[s] # None
    <2> DEFINE h == [id |-> pending[s].id, src |-> s, anchor |-> zczc[s], why |-> why]
    <2>1. hand' = [hand EXCEPT ![t] = h]
      BY <1>5 DEF PopPending
    <2>2. h \in Popped /\ h # None
      BY <1>2, <1>5, NoneAssumption DEF Popped, Alert, TInv, TypeOK
    <2>3. hand'[t] = h /\ \A u \in Threads \ {t} : hand'[u] = hand[u]
      BY <1>2, <2>1
    <2>4. hand[t] = None /\ h.id = pending[s].id
      BY DEF TInv, LoopInv
    <2> HIDE DEF h
    <2>5. HandIds' = HandIds \cup {pending[s].id}
      BY <2>2, <2>3, <2>4 DEF HandIds
    <2>6. \A r \in Sources \ {s} : pending[r] # None => pending[r].id # pending[s].id
      BY <1>5 DEF Custody
    <2>7. PendingIds' = PendingIds \ {pending[s].id}
      BY <1>3, <1>5, <2>6 DEF PendingIds
    <2>8. pending[s].id \in PendingIds
      BY <1>5 DEF PendingIds
    <2>9. \A u \in Threads : hand[u] # None => hand[u].id # pending[s].id
      BY <2>8 DEF Custody, HandIds
    <2>10. \A u, v \in Threads :
             hand'[u] # None /\ hand'[v] # None /\ hand'[u].id = hand'[v].id => u = v
      BY <2>3, <2>4, <2>9 DEF Custody
    <2>11. \A q, r \in Sources :
             pending'[q] # None /\ pending'[r] # None /\ pending'[q].id = pending'[r].id
                => q = r
      BY <1>3 DEF Custody
    <2>12. (PendingIds \cup HandIds \cup ForwardedIds \cup superseded)' = 1 .. nextId' - 1
      BY <1>1, <2>5, <2>7, <2>8 DEF Custody
    <2>13. /\ (PendingIds \cap HandIds)' = {} /\ (PendingIds \cap ForwardedIds)' = {}
           /\ (HandIds \cap ForwardedIds)' = {}
      BY <1>1, <2>5, <2>7, <2>8 DEF Custody
    <2>14. (superseded \cap (PendingIds \cup HandIds \cup ForwardedIds))' = {}
      BY <1>1, <2>5, <2>7, <2>8 DEF Custody
    <2>15. Custody'
      BY <2>10, <2>11, <2>12, <2>13, <2>14 DEF Custody
    <2> QED
      BY <2>5, <2>7, <2>15, <1>5
  <1> QED
    BY <1>4, <1>5

(* Forwarding moves the alert out of the loop's hand.                      *)
LEMMA ForwardCustody ==
    ASSUME TInv, Custody, NEW t \in Threads, Forward(t)
    PROVE  /\ Custody'
           /\ hand[t].id \in HandIds
           /\ HandIds' = HandIds \ {hand[t].id}
           /\ ForwardedIds' = ForwardedIds \cup {hand[t].id}
  <1>1. hand[t] # None /\ hand \in [Threads -> Popped \cup {None}]
    BY DEF Forward, TInv, TypeOK, LoopInv
  <1>2. hand'[t] = None /\ \A u \in Threads \ {t} : hand'[u] = hand[u]
    BY <1>1 DEF Forward
  <1>3. \E f : forwarded' = forwarded \cup {f} /\ f.id = hand[t].id
    <2>1. PICK relay \in BOOLEAN :
            forwarded' = forwarded \cup
               {[id |-> hand[t].id, src |-> hand[t].src, anchor |-> hand[t].anchor,
                 seen |-> total[t],
                 from |-> ringTotal[hand[t].src] - Captured(hand[t], total[t]),
                 to |-> ringTotal[hand[t].src], why |-> hand[t].why, relay |-> relay]}
      BY DEF Forward
    <2> WITNESS [id |-> hand[t].id, src |-> hand[t].src, anchor |-> hand[t].anchor,
                 seen |-> total[t],
                 from |-> ringTotal[hand[t].src] - Captured(hand[t], total[t]),
                 to |-> ringTotal[hand[t].src], why |-> hand[t].why, relay |-> relay]
    <2> QED
      BY <2>1
  <1>4. ForwardedIds' = ForwardedIds \cup {hand[t].id}
    <2>1. PICK f : forwarded' = forwarded \cup {f} /\ f.id = hand[t].id
      BY <1>3
    <2> QED
      BY <2>1 DEF ForwardedIds
  <1>5. \A u \in Threads \ {t} : hand[u] # None => hand[u].id # hand[t].id
    BY <1>1 DEF Custody
  <1>6. HandIds' = HandIds \ {hand[t].id} /\ hand[t].id \in HandIds
    BY <1>1, <1>2, <1>5 DEF HandIds
  <1>7. pending' = pending /\ PendingIds' = PendingIds /\ UNCHANGED <<superseded, nextId>>
    BY DEF Forward, PendingIds, parkVars
  <1>8. \A u, v \in Threads :
           hand'[u] # None /\ hand'[v] # None /\ hand'[u].id = hand'[v].id => u = v
    BY <1>2 DEF Custody
  <1> QED
    BY <1>4, <1>6, <1>7, <1>8 DEF Custody

(* No alert was accepted when the service comes up, so none is lost.       *)
LEMMA InitCustody == Init => Custody
  <1> SUFFICES ASSUME Init PROVE Custody
    OBVIOUS
  <1>1. PendingIds = {} /\ HandIds = {} /\ ForwardedIds = {} /\ superseded = {}
    BY DEF Init, PendingIds, HandIds, ForwardedIds
  <1>2. 1 .. nextId - 1 = {}
    BY DEF Init
  <1> QED
    BY <1>1, <1>2 DEF Init, Custody

(* The steps other than decoding a header, popping and forwarding.         *)
Quiet ==
    /\ UNCHANGED <<hand, forwarded, superseded, nextId>>
    /\ SameIds(pending, pending')

(* Apart from decoding, popping and forwarding, a step leaves every alert  *)
(* where it is.                                                            *)
LEMMA StepKinds ==
    ASSUME TInv, [Next]_vars
    PROVE  \/ Quiet
           \/ \E t \in Threads, h \in Headers : DecodeHeader(t, h)
           \/ \E t \in Threads : DecodeEom(t) \/ Forward(t)
           \/ \E t \in Threads, s \in Sources : SweepOne(t, s)
  <1>1. CASE Tick
    BY <1>1, OlderType DEF Tick, heldVars, Quiet, SameIds, TInv, TypeOK
  <1>2. CASE UNCHANGED vars
    BY <1>2 DEF vars, parkVars, heldVars, Quiet, SameIds
  <1>3. CASE (\E s \in Sources : SourceChanges(s)) \/ Stop \/ StopJoined \/ CommandDiscovers
    BY <1>3 DEF SourceChanges, Stop, StopJoined, CommandDiscovers, parkVars, heldVars, Quiet,
                SameIds
  <1>4. CASE \E t \in Threads :
               \/ Start(t) \/ LoopTop(t) \/ LoopExit(t) \/ DecodeNothing(t)
               \/ CallbackReturns(t) \/ PollDone(t) \/ SweepDone(t)
               \/ TrimRing(t) \/ ReadRingTotal(t)
               \/ \E s \in Sources : NoAudio(t, s) \/ ReadAudio(t, s)
    BY <1>4 DEF Start, LoopTop, LoopExit, DecodeNothing, CallbackReturns, PollDone,
                SweepDone, TrimRing, ReadRingTotal, NoAudio, ReadAudio, parkVars, heldVars,
                Quiet, SameIds
  <1> QED
    BY <1>1, <1>2, <1>3, <1>4 DEF Next, Loop

(* Every step keeps each accepted alert in exactly one place.              *)
LEMMA StepCustody == TInv /\ Custody /\ [Next]_vars => Custody'
  <1> SUFFICES ASSUME TInv, Custody, [Next]_vars PROVE Custody'
    OBVIOUS
  <1>1. CASE Quiet
    BY <1>1, KeptCustody DEF Quiet
  <1>2. ASSUME NEW t \in Threads, NEW h \in Headers, DecodeHeader(t, h) PROVE Custody'
    BY <1>2, DecodeHeaderCustody
  <1>3. ASSUME NEW t \in Threads, DecodeEom(t) PROVE Custody'
    BY <1>3, PopCustody DEF DecodeEom, TInv, TypeOK, LoopInv
  <1>4. ASSUME NEW t \in Threads, Forward(t) PROVE Custody'
    BY <1>4, ForwardCustody
  <1>5. ASSUME NEW t \in Threads, NEW s \in Sources, SweepOne(t, s) PROVE Custody'
    BY <1>5, PopCustody DEF SweepOne
  <1> QED
    BY <1>1, <1>2, <1>3, <1>4, <1>5, StepKinds

(* No alert is lost or delivered twice, however many monitor loops run.    *)
THEOREM CustodyKept == Spec => []Custody
  BY InitTInv, InitCustody, StepTInv, StepCustody, PTL DEF Spec

-----------------------------------------------------------------------------
(* The monitor implements AlertLifecycle.                                  *)

(* The bound on handled headers.                                           *)
Bounded == nextId <= MaxAlerts + 1

(* Nothing was accepted yet when the service comes up.                     *)
LEMMA InitBounded == Init => Bounded
  BY ConstantsAssumption DEF Init, Bounded

(* No step invents the id of an alert.                                     *)
LEMMA StepBounded == TInv /\ Bounded /\ [Next]_vars => Bounded'
  <1> SUFFICES ASSUME TInv, Bounded, [Next]_vars PROVE Bounded'
    OBVIOUS
  <1>1. ASSUME NEW t \in Threads, NEW h \in Headers, DecodeHeader(t, h) PROVE Bounded'
    BY <1>1, ConstantsAssumption DEF DecodeHeader, Bounded, TInv, TypeOK
  <1>2. CASE nextId' = nextId
    BY <1>2 DEF Bounded
  <1> QED
    BY <1>1, <1>2, StepKinds DEF Quiet, DecodeEom, Forward, SweepOne, parkVars

(* The monitor comes up in the initial state of the abstract life cycle.   *)
LEMMA InitLifecycle == Init => Lifecycle!Init
  BY DEF Init, Lifecycle!Init, HandIds, ForwardedIds

(* Every step accepts, releases or delivers alerts as the life cycle allows,*)
(* or leaves them alone.                                                   *)
LEMMA StepLifecycle ==
    TInv /\ Custody /\ Bounded /\ [Next]_vars => [Lifecycle!Next]_(Lifecycle!vars)
  <1> SUFFICES ASSUME TInv, Custody, Bounded, [Next]_vars
               PROVE  [Lifecycle!Next]_(Lifecycle!vars)
    OBVIOUS
  <1> DEFINE W == [s \in Sources |-> IF pending[s] = None THEN None ELSE pending[s].id]
  <1>0. pending \in [Sources -> Alert \cup {None}] /\ \A s \in Sources : W[s] = None <=> pending[s] = None
    BY NoneAssumption DEF TInv, TypeOK, Alert
  <1>00. Lifecycle!Waiting = PendingIds
    BY <1>0, NoneAssumption DEF Lifecycle!Waiting, PendingIds, Alert
  <1>1. CASE Quiet
    <2>1. W' = W
      BY <1>1 DEF Quiet, SameIds
    <2> QED
      BY <1>1, <2>1 DEF Quiet, Lifecycle!vars, HandIds, ForwardedIds
  <1>2. ASSUME NEW t \in Threads, NEW h \in Headers, DecodeHeader(t, h)
        PROVE  Lifecycle!Next
    <2>0. PICK s \in Sources : s = cur[t]
      BY <1>2, DecodeHeaderEffect
    <2>1. /\ pending'[s] # None /\ nextId \in 1 .. MaxAlerts
          /\ pending' = [pending EXCEPT ![s] = [id |-> nextId, hdr |-> h, age |-> 0]]
          /\ nextId \notin PendingIds \cup HandIds \cup ForwardedIds \cup superseded
      BY <1>2, <2>0, DecodeHeaderEffect
    <2>2. W' = [W EXCEPT ![s] = nextId]
      BY <2>1, <1>0
    <2>3. superseded' = superseded \cup ({W[s]} \ {None})
      BY <1>0, <1>2, <2>0, <2>1 DEF DecodeHeader
    <2>4. HandIds' = HandIds /\ ForwardedIds' = ForwardedIds
      BY <1>2 DEF DecodeHeader, HandIds, ForwardedIds
    <2>5. Lifecycle!Accept(nextId, s)
      BY <1>00, <2>1, <2>2, <2>3, <2>4 DEF Lifecycle!Accept
    <2> QED
      BY <2>1, <2>5 DEF Lifecycle!Next
  <1>3. ASSUME NEW t \in Threads, NEW s \in Sources, NEW why \in {"eom", "timeout"},
NEW phase, pc[t] \notin {"popped", "slice"}, PopPending(t, s, why, phase),
               UNCHANGED <<nextId, superseded, forwarded>>
        PROVE  [Lifecycle!Next]_(Lifecycle!vars)
    <2>1. ForwardedIds' = ForwardedIds
      BY <1>3 DEF ForwardedIds
    <2>2. W' = [W EXCEPT ![s] = None]
      BY <1>0, <1>3 DEF PopPending
    <2>3. CASE pending[s] = None
      <3>1. W' = W
        BY <1>0, <2>2, <2>3
      <3>2. HandIds' = HandIds
        BY <1>3, <2>3 DEF PopPending, HandIds
      <3> QED
        BY <1>3, <2>1, <3>1, <3>2 DEF Lifecycle!vars
    <2>4. CASE pending[s] # None
      <3>1. HandIds' = HandIds \cup {W[s]}
        BY <1>3, <2>4, PopCustody
      <3>2. Lifecycle!Release(s)
        BY <1>0, <1>3, <2>1, <2>2, <2>4, <3>1 DEF Lifecycle!Release
      <3> QED
        BY <3>2 DEF Lifecycle!Next
    <2> QED
      BY <2>3, <2>4
  <1>4. ASSUME NEW t \in Threads, Forward(t) PROVE Lifecycle!Next
    <2>1. /\ hand[t].id \in HandIds
          /\ HandIds' = HandIds \ {hand[t].id}
          /\ ForwardedIds' = ForwardedIds \cup {hand[t].id}
      BY <1>4, ForwardCustody
    <2>2. W' = W /\ superseded' = superseded
      BY <1>4 DEF Forward, parkVars
    <2>3. hand[t].id \in 1 .. MaxAlerts
      BY <2>1, ConstantsAssumption DEF Custody, Bounded, TInv, TypeOK
    <2>4. Lifecycle!Deliver(hand[t].id)
      BY <2>1, <2>2 DEF Lifecycle!Deliver
    <2> QED
      BY <2>3, <2>4 DEF Lifecycle!Next
  <1>5. ASSUME NEW t \in Threads, DecodeEom(t) PROVE [Lifecycle!Next]_(Lifecycle!vars)
    BY <1>3, <1>5 DEF DecodeEom, TInv, TypeOK, LoopInv
  <1>6. ASSUME NEW t \in Threads, NEW s \in Sources, SweepOne(t, s)
        PROVE  [Lifecycle!Next]_(Lifecycle!vars)
    BY <1>3, <1>6 DEF SweepOne
  <1> QED
    BY <1>1, <1>2, <1>4, <1>5, <1>6, StepKinds

(* Every behaviour of the monitor is one the abstract life cycle allows.   *)
THEOREM Implements == Spec => ImplementsLifecycle
  <1>1. Init /\ [][Next]_vars => Lifecycle!Init /\ [][Lifecycle!Next]_(Lifecycle!vars)
    BY InitTInv, InitCustody, InitBounded, InitLifecycle, StepTInv, StepCustody,
       StepBounded, StepLifecycle, PTL
  <1> QED
    BY <1>1 DEF Spec, ImplementsLifecycle, Lifecycle!Spec

-----------------------------------------------------------------------------
(* Recordings.                                                             *)

Stored(n) == IF n < RingMax THEN n ELSE RingMax

Trimming(s) == \E t \in Threads : pc[t] = "trim" /\ cur[t] = s

(* The ring holds everything read so far until it is full, and one chunk   *)
(* more while the one loop that holds the lock has yet to trim it.         *)
RingInv ==
    /\ \A t, u \in Threads : pc[t] = "trim" /\ pc[u] = "trim" => t = u
    /\ \A s \in Sources :
          /\ Trimming(s) => ringTotal[s] > 0 /\ ringLen[s] = Stored(ringTotal[s] - 1) + 1
          /\ ~Trimming(s) => ringLen[s] = Stored(ringTotal[s])

(* Anchors exist for all alerts and never lie ahead of the audio, and a    *)
(* total seen under the lock lies between the anchor and the audio.        *)
AnchorInv ==
    /\ AnchorsMatchPending
    /\ \A s \in Sources : zczc[s] # None => zczc[s] <= ringTotal[s]
    /\ \A t \in Threads : hand[t] # None =>
          hand[t].anchor \in Nat /\ hand[t].anchor <= ringTotal[hand[t].src]
    /\ \A t \in Threads : pc[t] = "slice" =>
          hand[t].anchor <= total[t] /\ total[t] <= ringTotal[hand[t].src]

RecordingInv ==
    /\ RecordingFollowsHeader
    /\ \A f \in forwarded : f.anchor \in Nat

RInv == RingInv /\ AnchorInv /\ RecordingInv

(* No loop enters or leaves the critical section of the rings, or comes to *)
(* its slice.                                                              *)
SameStages ==
    \A u \in Threads :
        /\ pc'[u] = "trim" <=> pc[u] = "trim"
        /\ pc[u] = "trim" => cur'[u] = cur[u]
        /\ pc'[u] = "slice" => pc[u] = "slice" /\ total'[u] = total[u]

(* No anchors and no recordings when the service comes up.                 *)
LEMMA InitRInv == Init => RInv
  BY ConstantsAssumption
     DEF Init, RInv, RingInv, Trimming, Stored, AnchorInv, RecordingInv,
         AnchorsMatchPending, RecordingFollowsHeader

(* With the same stages the ring invariant speaks of the same loops.       *)
LEMMA SameRing ==
    ASSUME RingInv, SameStages, UNCHANGED ringVars
    PROVE  RingInv'
  <1>1. \A s \in Sources : Trimming(s)' <=> Trimming(s)
    BY DEF SameStages, Trimming
  <1> QED
    BY <1>1 DEF SameStages, RingInv, ringVars

(* Steps that touch neither anchors nor rings nor what is recorded.        *)
LEMMA KeptRInv ==
    ASSUME RInv, UNCHANGED <<ringVars, zczc, hand, forwarded>>, SameStages,
           \A s \in Sources : pending'[s] = None <=> pending[s] = None
    PROVE  RInv'
  <1>1. RingInv'
    BY SameRing DEF RInv
  <1>2. AnchorInv'
    BY DEF RInv, AnchorInv, AnchorsMatchPending, SameStages, ringVars
  <1> QED
    BY <1>1, <1>2 DEF RInv, RecordingInv, RecordingFollowsHeader

(* Reading audio moves the ring; anchors keep pointing behind their header.*)
LEMMA ReadAudioRInv ==
    ASSUME TInv, RInv, NEW t \in Threads, NEW s \in Sources, ReadAudio(t, s)
    PROVE  RInv'
  <1>1. /\ ringTotal \in [Sources -> Nat] /\ ringLen \in [Sources -> Nat]
        /\ hand \in [Threads -> Popped \cup {None}] /\ total \in [Threads -> Nat]
        /\ pc \in [Threads -> Phases] /\ cur \in [Threads -> Sources \cup {None}]
    BY DEF TInv, TypeOK
  <1>2. /\ ringTotal'[s] = ringTotal[s] + 1 /\ ringLen'[s] = ringLen[s] + 1
        /\ \A r \in Sources \ {s} : ringTotal'[r] = ringTotal[r] /\ ringLen'[r] = ringLen[r]
    BY <1>1 DEF ReadAudio
  <1>3. UNCHANGED <<pending, zczc, hand, forwarded>>
    BY DEF ReadAudio, parkVars
  <1>4. /\ pc'[t] = "trim" /\ cur'[t] = s /\ pc[t] = "poll"
        /\ \A u \in Threads : pc[u] # "trim"
        /\ \A u \in Threads \ {t} : pc'[u] = pc[u] /\ cur'[u] = cur[u] /\ total'[u] = total[u]
    BY <1>1 DEF ReadAudio, RingsFree
  <1>5. RingInv'
    <2>1. \A r \in Sources : ~Trimming(r)
      BY <1>4 DEF Trimming
    <2>2. Trimming(s)' /\ \A r \in Sources \ {s} : ~Trimming(r)'
      BY <1>4 DEF Trimming
    <2>3. ringLen[s] = Stored(ringTotal[s])
      BY <2>1 DEF RInv, RingInv
    <2>4. ringTotal'[s] > 0 /\ ringLen'[s] = Stored(ringTotal'[s] - 1) + 1
      <3>1. ringTotal'[s] - 1 = ringTotal[s]
        BY <1>1, <1>2
      <3> QED
        BY <3>1, <2>3, <1>1, <1>2
    <2>5. \A r \in Sources \ {s} : ringLen'[r] = Stored(ringTotal'[r])
      BY <2>1, <1>2 DEF RInv, RingInv
    <2>6. \A u, v \in Threads : pc'[u] = "trim" /\ pc'[v] = "trim" => u = v
      BY <1>4
    <2> QED
      BY <2>2, <2>4, <2>5, <2>6 DEF RingInv
  <1>6. AnchorInv'
    <2>1. \A r \in Sources : ringTotal[r] <= ringTotal'[r] /\ ringTotal'[r] \in Nat
      BY <1>1, <1>2
    <2>2. AnchorsMatchPending' /\ \A r \in Sources : zczc'[r] # None => zczc'[r] <= ringTotal'[r]
      BY <1>3, <1>1, <2>1 DEF RInv, AnchorInv, AnchorsMatchPending, TInv, TypeOK
    <2>3. \A u \in Threads : hand[u] # None => hand[u].src \in Sources
      BY <1>1 DEF Popped
    <2>4. \A u \in Threads : hand'[u] # None =>
             hand'[u].anchor \in Nat /\ hand'[u].anchor <= ringTotal'[hand'[u].src]
      BY <1>1, <1>3, <2>1, <2>3 DEF RInv, AnchorInv
    <2>5. \A u \in Threads : pc'[u] = "slice" => pc[u] = "slice" /\ u # t
      BY <1>4
    <2>6. \A u \in Threads : pc[u] = "slice" => hand[u] # None
      BY DEF TInv, LoopInv
    <2>7. \A u \in Threads : pc'[u] = "slice" =>
             hand'[u].anchor <= total'[u] /\ total'[u] <= ringTotal'[hand'[u].src]
      BY <1>1, <1>3, <1>4, <2>1, <2>3, <2>5, <2>6 DEF RInv, AnchorInv
    <2> QED
      BY <2>2, <2>4, <2>7 DEF AnchorInv
  <1> QED
    BY <1>3, <1>5, <1>6 DEF RInv, RecordingInv, RecordingFollowsHeader

(* Trimming brings the ring back to its size.                              *)
LEMMA TrimRingRInv ==
    ASSUME TInv, RInv, NEW t \in Threads, TrimRing(t)
    PROVE  RInv'
  <1>1. /\ ringTotal \in [Sources -> Nat] /\ ringLen \in [Sources -> Nat]
        /\ pc \in [Threads -> Phases] /\ cur[t] \in Sources
    BY DEF TInv, TypeOK, LoopInv, TrimRing
  <1>2. PICK s \in Sources : s = cur[t]
    BY <1>1
  <1>3. /\ ringLen'[s] = IF ringLen[s] > RingMax THEN ringLen[s] - 1 ELSE ringLen[s]
        /\ \A r \in Sources \ {s} : ringLen'[r] = ringLen[r]
        /\ UNCHANGED <<ringTotal, pending, zczc, hand, forwarded, cur, total>>
    BY <1>1, <1>2 DEF TrimRing, parkVars, heldVars
  <1>4. /\ pc[t] = "trim" /\ pc'[t] = "decode"
        /\ \A u \in Threads \ {t} : pc'[u] = pc[u] /\ pc[u] # "trim"
    BY <1>1 DEF TrimRing, RInv, RingInv
  <1>5. RingInv'
    <2>1. Trimming(s) /\ \A r \in Sources \ {s} : ~Trimming(r)
      BY <1>2, <1>4 DEF Trimming
    <2>2. \A r \in Sources : ~Trimming(r)'
      BY <1>4 DEF Trimming
    <2>3. ringTotal[s] > 0 /\ ringLen[s] = Stored(ringTotal[s] - 1) + 1
      BY <2>1 DEF RInv, RingInv
    <2>4. ringLen'[s] = Stored(ringTotal[s])
      BY <2>3, <1>1, <1>3, ConstantsAssumption DEF Stored
    <2>5. \A r \in Sources \ {s} : ringLen'[r] = Stored(ringTotal[r])
      BY <2>1, <1>3 DEF RInv, RingInv
    <2> QED
      BY <2>2, <2>4, <2>5, <1>3, <1>4 DEF RingInv
  <1>6. AnchorInv'
    BY <1>3, <1>4 DEF RInv, AnchorInv, AnchorsMatchPending
  <1> QED
    BY <1>3, <1>5, <1>6 DEF RInv, RecordingInv, RecordingFollowsHeader

(* A decoded header sets the anchor of its own source only.                *)
LEMMA DecodeHeaderRInv ==
    ASSUME TInv, RInv, Custody, NEW t \in Threads, NEW h \in Headers, DecodeHeader(t, h)
    PROVE  RInv'
  <1>1. PICK s \in Sources : s = cur[t] /\ pending'[s] # None
    BY DecodeHeaderEffect
  <1>2. /\ ringTotal \in [Sources -> Nat] /\ zczc \in [Sources -> Nat \cup {None}]
        /\ pending \in [Sources -> Alert \cup {None}] /\ total \in [Threads -> Nat]
        /\ pc \in [Threads -> Phases] /\ cur \in [Threads -> Sources \cup {None}]
    BY DEF TInv, TypeOK
  <1>3. PICK seen \in total[t] .. ringTotal[s] :
           zczc' = IF SameEventPending(s, h) THEN zczc
                   ELSE [zczc EXCEPT ![s] = AnchorAt(seen)]
    BY <1>1 DEF DecodeHeader
  <1>4. AnchorAt(seen) \in Nat /\ AnchorAt(seen) <= ringTotal[s]
    BY <1>2, <1>3, ConstantsAssumption DEF AnchorAt
  <1>5. UNCHANGED <<ringVars, hand, forwarded>>
    BY DEF DecodeHeader
  <1>6. SameStages
    BY <1>2 DEF DecodeHeader, DecodeDone, SameStages
  <1>7. \A r \in Sources \ {s} : pending'[r] = pending[r]
    BY <1>1, <1>2 DEF DecodeHeader
  <1>8. /\ zczc'[s] # None /\ zczc'[s] <= ringTotal[s]
        /\ \A r \in Sources \ {s} : zczc'[r] = zczc[r]
    <2>1. CASE SameEventPending(s, h)
      BY <1>1, <1>2, <1>3, <2>1 DEF SameEventPending, RInv, AnchorInv, AnchorsMatchPending
    <2>2. CASE ~SameEventPending(s, h)
      BY <1>1, <1>2, <1>3, <1>4, <2>2, NoneAssumption
    <2> QED
      BY <2>1, <2>2
  <1>9. AnchorInv'
    BY <1>1, <1>5, <1>6, <1>7, <1>8
       DEF RInv, AnchorInv, AnchorsMatchPending, SameStages, ringVars
  <1>10. RingInv'
    BY <1>5, <1>6, SameRing DEF RInv
  <1> QED
    BY <1>5, <1>9, <1>10 DEF RInv, RecordingInv, RecordingFollowsHeader

(* Popping takes the anchor of the alert along with it.                    *)
LEMMA PopRInv ==
    ASSUME TInv, RInv, NEW t \in Threads, NEW s \in Sources,
           NEW why \in {"eom", "timeout"}, NEW phase,
           PopPending(t, s, why, phase), UNCHANGED <<ringVars, forwarded>>, SameStages,
           pc[t] \notin {"popped", "slice"}
    PROVE  RInv'
  <1>1. /\ ringTotal \in [Sources -> Nat] /\ zczc \in [Sources -> Nat \cup {None}]
        /\ pending \in [Sources -> Alert \cup {None}]
        /\ hand \in [Threads -> Popped \cup {None}]
    BY DEF TInv, TypeOK
  <1>2. /\ pending'[s] = None /\ zczc'[s] = None
        /\ \A r \in Sources \ {s} : pending'[r] = pending[r] /\ zczc'[r] = zczc[r]
    BY <1>1 DEF PopPending
  <1>3. \A u \in Threads \ {t} : hand'[u] = hand[u]
    BY <1>1 DEF PopPending
  <1>4. \A u \in Threads : hand'[u] # None =>
          hand'[u].anchor \in Nat /\ hand'[u].anchor <= ringTotal[hand'[u].src]
    <2>1. CASE pending[s] = None
      BY <2>1 DEF PopPending, RInv, AnchorInv
    <2>2. CASE pending[s] # None
      <3>1. zczc[s] \in Nat /\ zczc[s] <= ringTotal[s]
        BY <1>1, <2>2 DEF RInv, AnchorInv, AnchorsMatchPending
      <3>2. hand'[t].anchor = zczc[s] /\ hand'[t].src = s
        BY <1>1, <2>2 DEF PopPending
      <3> QED
        BY <1>3, <3>1, <3>2 DEF RInv, AnchorInv
    <2> QED
      BY <2>1, <2>2
  <1>5. UNCHANGED <<ringTotal, ringLen>>
    BY DEF ringVars
  <1>6. \A u \in Threads : pc'[u] = "slice" => u # t
    BY DEF SameStages
  <1>7. AnchorInv'
    BY <1>2, <1>3, <1>4, <1>5, <1>6 DEF RInv, AnchorInv, AnchorsMatchPending, SameStages
  <1>8. RingInv'
    BY SameRing DEF RInv
  <1> QED
    BY <1>7, <1>8 DEF RInv, RecordingInv, RecordingFollowsHeader

(* The total read under the lock is not behind the anchor.                 *)
LEMMA ReadRingTotalRInv ==
    ASSUME TInv, RInv, NEW t \in Threads, ReadRingTotal(t)
    PROVE  RInv'
  <1>1. /\ hand[t] \in Popped /\ hand[t] # None
        /\ total \in [Threads -> Nat] /\ pc \in [Threads -> Phases]
    BY DEF ReadRingTotal, TInv, TypeOK, LoopInv
  <1>2. /\ total'[t] = ringTotal[hand[t].src] /\ pc'[t] = "slice" /\ pc[t] = "popped"
        /\ \A u \in Threads \ {t} : total'[u] = total[u] /\ pc'[u] = pc[u]
        /\ UNCHANGED <<ringTotal, ringLen, cur, hand, pending, zczc, forwarded>>
    BY <1>1 DEF ReadRingTotal, RingTotalRead, ringVars, parkVars
  <1>3. ringTotal[hand[t].src] \in Nat
    BY <1>1 DEF Popped, TInv, TypeOK
  <1>4. AnchorInv'
    BY <1>1, <1>2, <1>3 DEF RInv, AnchorInv, AnchorsMatchPending
  <1>5. RingInv'
    <2>1. \A s \in Sources : Trimming(s)' <=> Trimming(s)
      BY <1>2 DEF Trimming
    <2> QED
      BY <1>2, <2>1 DEF RInv, RingInv
  <1> QED
    BY <1>2, <1>4, <1>5 DEF RInv, RecordingInv, RecordingFollowsHeader

(* What is recorded at a forward starts behind the popped header, later by *)
(* what came into the ring since its total was read.                       *)
LEMMA ForwardRInv ==
    ASSUME TInv, RInv, NEW t \in Threads, Forward(t)
    PROVE  RInv'
  <1> DEFINE h == hand[t]
             seen == total[t]
             end == ringTotal[h.src]
             len == ringLen[h.src]
             n == Captured(h, seen)
  <1>1. h \in Popped /\ h # None /\ pc[t] = "slice"
    BY DEF Forward, TInv, TypeOK, LoopInv
  <1>2. /\ h.src \in Sources /\ h.anchor \in Nat /\ h.anchor <= seen /\ seen <= end
        /\ seen \in Nat /\ end \in Nat /\ len \in Nat
    BY <1>1 DEF RInv, AnchorInv, Popped, TInv, TypeOK
  <1>3. /\ len <= RingMax + 1 /\ len <= end
        /\ len < end => len >= RingMax
    <2>1. Trimming(h.src) => end > 0 /\ len = Stored(end - 1) + 1
      BY <1>2 DEF RInv, RingInv
    <2>2. ~Trimming(h.src) => len = Stored(end)
      BY <1>2 DEF RInv, RingInv
    <2> QED
      BY <1>2, <2>1, <2>2, ConstantsAssumption DEF Stored
  <1>4. n = IF seen - h.anchor <= 0 THEN 0
            ELSE IF seen - h.anchor < len THEN seen - h.anchor ELSE len
    BY <1>2, NoneAssumption DEF Captured
  <1>5. PICK relay \in BOOLEAN :
           /\ relay => n >= NarrationMin
           /\ forwarded' = forwarded \cup
                {[id |-> h.id, src |-> h.src, anchor |-> h.anchor, seen |-> seen,
                  from |-> end - n, to |-> end, why |-> h.why, relay |-> relay]}
    BY DEF Forward
  <1> HIDE DEF n, end, len, seen, h
  <1>6. /\ n \in Nat /\ n <= RingMax + 1 /\ 0 <= end - seen
        /\ h.anchor + (end - seen) <= end - n /\ end - n <= end
        /\ end - n > h.anchor + (end - seen) => n >= RingMax
    BY <1>2, <1>3, <1>4, ConstantsAssumption
  <1>7. RecordingInv'
    <2>1. \A f \in forwarded' : f \in forwarded \/
             f = [id |-> h.id, src |-> h.src, anchor |-> h.anchor, seen |-> seen,
                  from |-> end - n, to |-> end, why |-> h.why, relay |-> relay]
      BY <1>5
    <2>2. end - (end - n) = n
      BY <1>2, <1>6
    <2> QED
      BY <1>2, <1>5, <1>6, <2>1, <2>2 DEF RInv, RecordingInv, RecordingFollowsHeader
  <1>8. hand \in [Threads -> Popped \cup {None}] /\ hand' = [hand EXCEPT ![t] = None]
    BY DEF Forward, TInv, TypeOK
  <1>9. UNCHANGED <<pending, zczc, ringVars, ringTotal>>
    BY DEF Forward, parkVars, ringVars
  <1>10. SameStages /\ pc'[t] = "callback"
    BY DEF Forward, SameStages, TInv, TypeOK
  <1>11. AnchorInv'
    BY <1>8, <1>9, <1>10 DEF RInv, AnchorInv, AnchorsMatchPending, SameStages
  <1>12. RingInv'
    BY <1>9, <1>10, SameRing DEF RInv
  <1> QED
    BY <1>7, <1>11, <1>12 DEF RInv

(* Every step keeps anchors and recordings in line with the headers.       *)
LEMMA StepRInv == TInv /\ Custody /\ RInv /\ [Next]_vars => RInv'
  <1> SUFFICES ASSUME TInv, Custody, RInv, [Next]_vars PROVE RInv'
    OBVIOUS
  <1>0. pc \in [Threads -> Phases] /\ cur \in [Threads -> Sources \cup {None}]
        /\ total \in [Threads -> Nat]
    BY DEF TInv, TypeOK
  <1>1. CASE Tick
    <2>1. SameStages
      BY <1>1 DEF Tick, SameStages, loopVars, heldVars
    <2> QED
      BY <1>1, <2>1, KeptRInv, OlderType DEF Tick, ringVars, heldVars, TInv, TypeOK
  <1>2. CASE UNCHANGED vars
    <2>1. SameStages
      BY <1>2 DEF vars, SameStages, loopVars, heldVars
    <2> QED
      BY <1>2, <2>1, KeptRInv DEF vars, parkVars, heldVars
  <1>3. CASE (\E s \in Sources : SourceChanges(s)) \/ Stop \/ StopJoined \/ CommandDiscovers
    <2>1. SameStages
      BY <1>3 DEF SourceChanges, Stop, StopJoined, CommandDiscovers, SameStages, loopVars,
                  heldVars
    <2> QED
      BY <1>3, <2>1, KeptRInv
         DEF SourceChanges, Stop, StopJoined, CommandDiscovers, parkVars, heldVars
  <1>4. ASSUME NEW t \in Threads,
               \/ Start(t) \/ LoopTop(t) \/ LoopExit(t) \/ DecodeNothing(t)
               \/ CallbackReturns(t) \/ PollDone(t) \/ SweepDone(t)
               \/ \E s \in Sources : NoAudio(t, s)
        PROVE  RInv'
    <2>1. SameStages
      <3>1. CASE Start(t) \/ LoopTop(t) \/ LoopExit(t) \/ PollDone(t) \/ SweepDone(t)
        BY <1>0, <3>1 DEF Start, LoopTop, LoopExit, PollDone, SweepDone, SameStages, heldVars
      <3>2. CASE DecodeNothing(t)
        BY <1>0, <3>2 DEF DecodeNothing, DecodeDone, SameStages
      <3>3. CASE CallbackReturns(t)
        <4>1. pc' = [pc EXCEPT ![t] = back[t]] /\ UNCHANGED <<cur, total>>
              /\ pc[t] = "callback" /\ back[t] \in {"poll", "sweep"}
          BY <3>3 DEF CallbackReturns, heldVars, TInv, TypeOK
        <4> QED
          BY <1>0, <4>1 DEF SameStages
      <3>4. CASE \E s \in Sources : NoAudio(t, s)
        BY <1>0, <3>4 DEF NoAudio, SameStages, heldVars
      <3> QED
        BY <1>4, <3>1, <3>2, <3>3, <3>4
    <2> QED
      BY <1>4, <2>1, KeptRInv DEF Start, LoopTop, LoopExit, DecodeNothing, CallbackReturns,
                PollDone, SweepDone, NoAudio, parkVars, heldVars
  <1>5. CASE \E t \in Threads, s \in Sources : ReadAudio(t, s)
    BY <1>5, ReadAudioRInv
  <1>6. CASE \E t \in Threads, h \in Headers : DecodeHeader(t, h)
    BY <1>6, DecodeHeaderRInv
  <1>7. ASSUME NEW t \in Threads, DecodeEom(t) PROVE RInv'
    <2>1. cur[t] \in Sources /\ pc[t] = "decode"
      BY <1>7 DEF DecodeEom, TInv, TypeOK, LoopInv
    <2>2. SameStages
      BY <1>0, <1>7, <2>1 DEF DecodeEom, DecodeDone, PopPending, SameStages
    <2> QED
      BY <1>7, <2>1, <2>2, PopRInv DEF DecodeEom
  <1>8. ASSUME NEW t \in Threads, NEW s \in Sources, SweepOne(t, s) PROVE RInv'
    <2>1. SameStages
      BY <1>0, <1>8 DEF SweepOne, PopPending, SameStages
    <2> QED
      BY <1>8, <2>1, PopRInv DEF SweepOne
  <1>9. ASSUME NEW t \in Threads, TrimRing(t) \/ ReadRingTotal(t) \/ Forward(t) PROVE RInv'
    BY <1>9, TrimRingRInv, ReadRingTotalRInv, ForwardRInv
  <1> QED
    BY <1>1, <1>2, <1>3, <1>4, <1>5, <1>6, <1>7, <1>8, <1>9 DEF Next, Loop

(* Every forwarded recording is audio of its own source from its header on,*)
(* late only by what another loop read between the total and the copy.     *)
THEOREM RecordingsCorrect == Spec => [](AnchorsMatchPending /\ RecordingFollowsHeader)
  <1>1. RInv => AnchorsMatchPending /\ RecordingFollowsHeader
    BY DEF RInv, AnchorInv, RecordingInv
  <1> QED
    BY InitTInv, InitCustody, InitRInv, StepTInv, StepCustody, StepRInv, <1>1, PTL DEF Spec

(* _pending_alerts and _zczc_ring_total always have the same keys.         *)
THEOREM AnchorsCorrect == Spec => []AnchorsMatchPending
  BY RecordingsCorrect, PTL

-----------------------------------------------------------------------------
(* Alerts are released only when they are due, however many loops run.     *)

(* The list of timed-out sources stays true while the sweep works on it,   *)
(* except for the sources that were given a header since.                  *)
SweepInv ==
    \A t \in Threads : InSweep(t) =>
        \A s \in todo[t] :
            pending[s] = None \/ pending[s].age = EOMTimeout \/ s \in renewed[t]

(* What a sweep holds overdue stays overdue until some loop pops it or     *)
(* parks a header in its place, which the history shows.                   *)
LEMMA StepSweepInv == TInv /\ SweepInv /\ [Next]_vars => SweepInv'
  <1> SUFFICES ASSUME TInv, SweepInv, [Next]_vars PROVE SweepInv'
    OBVIOUS
  <1> USE DEF TInv, TypeOK, SweepInv, InSweep, parkVars, loopVars, heldVars
  <1>1. CASE Tick
    <2>1. \A s \in Sources : pending[s] = None \/ pending[s].age = EOMTimeout
                              => pending'[s] = pending[s]
      BY <1>1 DEF Tick, Older
    <2> QED
      BY <1>1, <2>1 DEF Tick
  <1>2. CASE (\E s \in Sources : SourceChanges(s)) \/ Stop \/ StopJoined
             \/ CommandDiscovers \/ UNCHANGED vars
    BY <1>2 DEF SourceChanges, Stop, StopJoined, CommandDiscovers, vars
  <1>3. CASE \E t \in Threads : Start(t) \/ LoopTop(t) \/ LoopExit(t) \/ DecodeNothing(t)
               \/ SweepDone(t) \/ TrimRing(t) \/ ReadRingTotal(t)
               \/ \E s \in Sources : NoAudio(t, s) \/ ReadAudio(t, s)
    BY <1>3 DEF Start, LoopTop, LoopExit, DecodeNothing, DecodeDone, SweepDone, TrimRing,
                ReadRingTotal, NoAudio, ReadAudio
  <1>4. ASSUME NEW t \in Threads, CallbackReturns(t) PROVE SweepInv'
    BY <1>4 DEF CallbackReturns
  <1>5. ASSUME NEW t \in Threads, NEW h \in Headers, DecodeHeader(t, h) PROVE SweepInv'
    BY <1>5 DEF DecodeHeader
  <1>6. ASSUME NEW t \in Threads, DecodeEom(t) PROVE SweepInv'
    BY <1>6 DEF DecodeEom, PopPending
  <1>7. ASSUME NEW t \in Threads, NEW s \in Sources, SweepOne(t, s) PROVE SweepInv'
    BY <1>7 DEF SweepOne, PopPending
  <1>8. ASSUME NEW t \in Threads, Forward(t) PROVE SweepInv'
    BY <1>8 DEF Forward
  <1>9. ASSUME NEW t \in Threads, PollDone(t) PROVE SweepInv'
    BY <1>9 DEF PollDone, TimedOut
  <1> QED
    BY <1>1, <1>2, <1>3, <1>4, <1>5, <1>6, <1>7, <1>8, <1>9 DEF Next, Loop

(* A step that takes an alert out of _pending_alerts, for one source.      *)
DueRelease(s) ==
    pending[s] # None /\ pending'[s] = None =>
        \/ pending[s].age = EOMTimeout
        \/ \E t \in Threads : pc[t] = "decode" /\ cur[t] = s
        \/ \E t \in Threads : pc[t] = "sweep" /\ s \in renewed[t]

(* A step that pops an alert had its end of message, found it overdue, or   *)
(* trusted a list that the history shows to be old.                        *)
LEMMA StepDueRelease ==
    ASSUME TInv, SweepInv, [Next]_vars, NEW s \in Sources
    PROVE  DueRelease(s)
  <1> USE DEF TInv, TypeOK, DueRelease, parkVars
  <1>1. CASE pending' = pending
    BY <1>1
  <1>2. CASE Tick
    BY <1>2, OlderType DEF Tick
  <1>3. ASSUME NEW t \in Threads, NEW h \in Headers, DecodeHeader(t, h) PROVE DueRelease(s)
    <2>1. [id |-> nextId, hdr |-> h, age |-> 0] # None
      BY ConstantsAssumption, NoneAssumption DEF Alert
    <2>2. pending' = [pending EXCEPT ![cur[t]] = [id |-> nextId, hdr |-> h, age |-> 0]]
      BY <1>3 DEF DecodeHeader
    <2> QED
      BY <2>1, <2>2
  <1>4. ASSUME NEW t \in Threads, DecodeEom(t) PROVE DueRelease(s)
    BY <1>4 DEF DecodeEom, PopPending
  <1>5. ASSUME NEW t \in Threads, NEW r \in Sources, SweepOne(t, r) PROVE DueRelease(s)
    BY <1>5 DEF SweepOne, PopPending, SweepInv, InSweep
  <1>6. pending' = pending \/ Tick
        \/ (\E t \in Threads, h \in Headers : DecodeHeader(t, h))
        \/ (\E t \in Threads : DecodeEom(t))
        \/ (\E t \in Threads, r \in Sources : SweepOne(t, r))
    BY DEF Next, Loop, vars, SourceChanges, Start, Stop, StopJoined, CommandDiscovers, LoopTop,
           LoopExit, NoAudio, ReadAudio, DecodeNothing, TrimRing, ReadRingTotal, Forward,
           CallbackReturns, PollDone, SweepDone
  <1> QED
    BY <1>1, <1>2, <1>3, <1>4, <1>5, <1>6

(* However many monitor loops run, no alert is released early by anything  *)
(* but a list of timed-out sources that another loop's header made old.    *)
THEOREM ReleaseIsDue == Spec => ReleasedOnlyWhenDue
  <1>1. Init => SweepInv
    BY DEF Init, SweepInv, InSweep
  <1>2. TInv /\ SweepInv /\ [Next]_vars => [\A s \in Sources : DueRelease(s)]_vars
    BY StepDueRelease
  <1> DEFINE AllDue == \A s \in Sources : DueRelease(s)
  <1>3. Init /\ [][Next]_vars => [][AllDue]_vars
    BY InitTInv, StepTInv, <1>1, StepSweepInv, <1>2, PTL
  <1> QED
    BY <1>3, PTL DEF Spec, ReleasedOnlyWhenDue, DueRelease
=============================================================================
