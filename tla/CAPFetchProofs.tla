--------------------------- MODULE CAPFetchProofs ---------------------------
(***************************************************************************)
(* Proofs about CAPFetch for any set of payloads, in any order.            *)
(***************************************************************************)
EXTENDS CAPFetch, TLAPS

(* A kind counts as a number, whether the code knows it or not.            *)
LEMMA PriorityIsNat == ASSUME NEW k \in STRING PROVE PriorityOf(k) \in Nat
  BY DEF PriorityOf, Priority

(* Nothing replaces itself, and of two payloads at most one replaces the   *)
(* other.                                                                  *)
LEMMA ReplacesAsymmetric ==
    ASSUME NEW c \in Payload, NEW d \in Payload, Replaces(c, d)
    PROVE  ~Replaces(d, c)
  <1> USE DEF Payload
  <1>1. PriorityOf(c.kind) \in Nat /\ PriorityOf(d.kind) \in Nat
    BY PriorityIsNat
  <1> QED
    BY <1>1 DEF Replaces

(* What the code settles pair by pair is an order: had it a cycle, the     *)
(* payload that is kept would depend on the order of the endpoints.        *)
LEMMA ReplacesTransitive ==
    ASSUME NEW c \in Payload, NEW d \in Payload, NEW e \in Payload,
           Replaces(c, d), Replaces(d, e)
    PROVE  Replaces(c, e)
  <1> USE DEF Payload
  <1>1. PriorityOf(c.kind) \in Nat /\ PriorityOf(d.kind) \in Nat /\ PriorityOf(e.kind) \in Nat
    BY PriorityIsNat
  <1>2. c.sent \in Nat /\ d.sent \in Nat /\ e.sent \in Nat
    OBVIOUS
  <1> QED
    BY <1>1, <1>2 DEF Replaces

FetchInv == FetchTypeOK /\ KeepsBest

LEMMA FetchInvInit == FetchInit => FetchInv
  BY DEF FetchInit, FetchInv, FetchTypeOK, KeepsBest, OneOfEach

(* A payload of a new signature meets the one that is kept of its          *)
(* identifier.                                                             *)
LEMMA KeepBest ==
    ASSUME FetchInv, NEW c \in listed
    PROVE  /\ Keep(kept, c) \subseteq Best(passed \cup {c})
           /\ OneOfEach(Keep(kept, c), (listed \ unread) \cup {c})
  <1> DEFINE same == {d \in kept : d.id = c.id}
  <1>1. listed \subseteq Payload /\ passed \subseteq listed /\ kept \subseteq passed
    BY CopiesAssumption DEF FetchInv, FetchTypeOK
  <1>2. kept \subseteq Best(passed) /\ OneOfEach(kept, listed \ unread)
    BY DEF FetchInv, KeepsBest
  <1>3. passed \subseteq listed \ unread
    BY DEF FetchInv, FetchTypeOK
  <1>4. CASE same = {}
    <2>1. Keep(kept, c) = kept \cup {c}
      BY <1>4 DEF Keep
    <2>2. \A d \in passed : d.id # c.id
      BY <1>2, <1>3, <1>4 DEF OneOfEach
    <2>3. ~Replaces(c, c)
      BY <1>1, ReplacesAsymmetric
    <2>4. Keep(kept, c) \subseteq Best(passed \cup {c})
      BY <1>1, <1>2, <2>1, <2>2, <2>3 DEF Best
    <2>5. OneOfEach(Keep(kept, c), (listed \ unread) \cup {c})
      BY <1>2, <1>4, <2>1 DEF OneOfEach
    <2> QED
      BY <2>4, <2>5
  <1>5. ASSUME NEW e \in same PROVE
               /\ Keep(kept, c) \subseteq Best(passed \cup {c})
               /\ OneOfEach(Keep(kept, c), (listed \ unread) \cup {c})
    <2>1. same = {e}
      BY <1>1, <1>2, <1>3, <1>5 DEF OneOfEach
    <2>2. e \in Payload /\ c \in Payload /\ e.id = c.id
      BY <1>1, <1>5
    <2>3. CASE Replaces(c, e)
      <3>1. Keep(kept, c) = (kept \ {e}) \cup {c}
        BY <2>1, <2>3 DEF Keep
      <3>2. ASSUME NEW d \in passed \cup {c}, d.id = c.id, Replaces(d, c) PROVE FALSE
        <4>1. d # c
          BY <2>2, <3>2, ReplacesAsymmetric
        <4>2. Replaces(d, e)
          BY <1>1, <2>2, <2>3, <3>2, <4>1, ReplacesTransitive
        <4> QED
          BY <1>2, <1>5, <2>2, <3>2, <4>1, <4>2 DEF Best
      <3>3. Keep(kept, c) \subseteq Best(passed \cup {c})
        <4>1. c \in Best(passed \cup {c})
          BY <3>2 DEF Best
        <4>2. ASSUME NEW k \in kept \ {e} PROVE k \in Best(passed \cup {c})
          <5>1. k.id # c.id
            BY <2>1, <4>2
          <5> QED
            BY <1>2, <5>1 DEF Best
        <4> QED
          BY <3>1, <4>1, <4>2
      <3>4. OneOfEach(Keep(kept, c), (listed \ unread) \cup {c})
        <4>1. ASSUME NEW x \in (listed \ unread) \cup {c} PROVE
                     \E d \in Keep(kept, c) : d.id = x.id /\ \A k \in Keep(kept, c) : k.id = x.id => k = d
          <5>1. CASE x.id = c.id
            BY <2>1, <3>1, <5>1
          <5>2. CASE x.id # c.id
            BY <1>2, <2>2, <3>1, <4>1, <5>2 DEF OneOfEach
          <5> QED
            BY <5>1, <5>2
        <4> QED
          BY <4>1 DEF OneOfEach
      <3> QED
        BY <3>3, <3>4
    <2>4. CASE ~Replaces(c, e)
      <3>1. Keep(kept, c) = kept
        BY <2>1, <2>4 DEF Keep
      <3>2. ASSUME NEW k \in kept PROVE k \in Best(passed \cup {c})
        <4>1. k.id = c.id => k = e
          BY <2>1, <3>2
        <4> QED
          BY <1>2, <2>4, <4>1 DEF Best
      <3>3. OneOfEach(kept, (listed \ unread) \cup {c})
        BY <1>2, <1>5, <2>1, <2>2 DEF OneOfEach
      <3> QED
        BY <3>1, <3>2, <3>3
    <2> QED
      BY <2>3, <2>4
  <1> QED
    BY <1>4, <1>5

LEMMA FetchInvStep == FetchInv /\ [FetchNext]_fetchVars => FetchInv'
  <1> SUFFICES ASSUME FetchInv, [FetchNext]_fetchVars PROVE FetchInv'
    OBVIOUS
  <1>1. ASSUME NEW c \in Copies, Read(c), Repeated(c) PROVE FetchInv'
    <2>1. FetchTypeOK'
      BY <1>1 DEF Read, FetchInv, FetchTypeOK
    <2>2. UNCHANGED <<listed, passed, kept>> /\ unread' = unread \ {c} /\ c \in listed
      BY <1>1 DEF Read, FetchInv, FetchTypeOK
    <2>3. PICK d \in passed : Signature(d) = Signature(c)
      BY <1>1 DEF Repeated
    <2>4. d \in listed \ unread /\ d.id = c.id
      BY <2>3 DEF Signature, FetchInv, FetchTypeOK
    <2>5. OneOfEach(kept, (listed \ unread) \cup {c})
      BY <2>4 DEF FetchInv, KeepsBest, OneOfEach
    <2>6. (listed \ unread)' = (listed \ unread) \cup {c}
      BY <2>2
    <2>7. KeepsBest'
      BY <2>2, <2>5, <2>6 DEF FetchInv, KeepsBest, OneOfEach, Best
    <2> QED
      BY <2>1, <2>7 DEF FetchInv
  <1>2. ASSUME NEW c \in Copies, Read(c), ~Repeated(c) PROVE FetchInv'
    <2>1. /\ c \in listed /\ unread' = unread \ {c} /\ UNCHANGED listed
          /\ passed' = passed \cup {c} /\ kept' = Keep(kept, c)
      BY <1>2 DEF Read, FetchInv, FetchTypeOK
    <2>2. FetchTypeOK'
      BY <1>2, <2>1 DEF Read, Keep, FetchInv, FetchTypeOK
    <2>3. (listed \ unread)' = (listed \ unread) \cup {c}
      BY <2>1
    <2>4. KeepsBest'
      BY <2>1, <2>3, KeepBest DEF KeepsBest, OneOfEach, Best
    <2> QED
      BY <2>2, <2>4 DEF FetchInv
  <1>3. CASE UNCHANGED fetchVars
    BY <1>3 DEF fetchVars, FetchInv, FetchTypeOK, KeepsBest, OneOfEach, Best
  <1> QED
    BY <1>1, <1>2, <1>3 DEF FetchNext

(* What is kept was passed, and what was passed was read                   *)
(* (cap_poller.py:1565).                                                   *)
THEOREM FetchTypeCorrect == FetchSpec => []FetchTypeOK
  <1>1. FetchInv => FetchTypeOK
    BY DEF FetchInv
  <1> QED
    BY <1>1, FetchInvInit, FetchInvStep, PTL DEF FetchSpec

(* Whatever the payloads and the order in which the endpoints give them,   *)
(* one of the best of every identifier is kept (cap_poller.py:1722).       *)
THEOREM BestIsKept == FetchSpec => []KeepsBest
  <1>1. FetchInv => KeepsBest
    BY DEF FetchInv
  <1> QED
    BY <1>1, FetchInvInit, FetchInvStep, PTL DEF FetchSpec

(* The order of the endpoints decides nothing that counts: two payloads of *)
(* one identifier that could both be kept agree in whether they cancel, in *)
(* their time, the rank of their kind and whether they have a polygon      *)
(* (cap_poller.py:1565).                                                   *)
THEOREM BestAreEqual ==
    ASSUME NEW S \in SUBSET Payload, NEW c \in Best(S), NEW d \in Best(S), c.id = d.id
    PROVE  /\ c.kind = "CANCEL" <=> d.kind = "CANCEL"
           /\ c.sent = d.sent
           /\ PriorityOf(c.kind) = PriorityOf(d.kind)
           /\ c.polygon = d.polygon
  <1> USE DEF Payload
  <1>1. c \in Payload /\ d \in Payload /\ ~Replaces(c, d) /\ ~Replaces(d, c)
    BY DEF Best
  <1>2. c.kind = "CANCEL" <=> d.kind = "CANCEL"
    BY <1>1 DEF Replaces
  <1>3. c.sent \in Nat /\ d.sent \in Nat /\ c.polygon \in BOOLEAN /\ d.polygon \in BOOLEAN
    BY <1>1
  <1>4. PriorityOf(c.kind) \in Nat /\ PriorityOf(d.kind) \in Nat
    BY <1>1, PriorityIsNat
  <1>5. c.sent = d.sent
    BY <1>1, <1>2, <1>3 DEF Replaces
  <1>6. PriorityOf(c.kind) = PriorityOf(d.kind)
    BY <1>1, <1>2, <1>3, <1>4, <1>5 DEF Replaces
  <1>7. c.polygon = d.polygon
    BY <1>1, <1>2, <1>3, <1>4, <1>5, <1>6 DEF Replaces
  <1> QED
    BY <1>2, <1>5, <1>6, <1>7

=============================================================================
