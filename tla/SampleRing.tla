----------------------------- MODULE SampleRing -----------------------------
(***************************************************************************)
(* The ring between the thread that reads the radio and those that take    *)
(* its samples (app_core/radio/ring_buffer.py). No lock: the producer      *)
(* alone moves the write position and the consumer the read position, each *)
(* after it has copied. The ring is made for one of either, but the        *)
(* publisher thread and the command handler of the SDR service both take   *)
(* samples (sdr_hardware_service.py:593, sdr_hardware_service.py:949), and *)
(* a capture loop that stop() gave up waiting for produces beside its      *)
(* successor (SDRReceiver).                                                *)
(***************************************************************************)
EXTENDS Naturals, Sequences, SequencesExt

CONSTANTS
    Producers, Consumers,
    RingSize,      \* cells
    Batch,         \* samples of one read of the radio, and most that are taken at once
    MaxSampled     \* bound: samples read from the radio

ASSUME RingAssumption ==
    /\ RingSize \in Nat \ {0, 1} /\ Batch \in Nat \ {0} /\ MaxSampled \in Nat

VARIABLES
    cells,         \* _buffer
    writePos, readPos,
    producer,      \* what each producer writes: the cell it found, its samples
    consumer,      \* what each consumer reads: the cell it found, how many,
                   \* the samples copied
    sampled,       \* samples read from the radio so far, numbered from 1
    waiting,       \* history: those that were written and not read yet
    exact,         \* history: every read gave the first of them, in their order
    crowded        \* history: two of a kind were inside the ring at a time

ringVars == <<cells, writePos, readPos, producer, consumer, sampled,
              waiting, exact, crowded>>

Index == 0 .. RingSize - 1
Outside == [at |-> "outside", pos |-> 0, count |-> 0, samples |-> <<>>]
Visits == [at : {"outside", "found", "copied"}, pos : Index,
           count : 0 .. RingSize, samples : Seq(Nat)]

RingTypeOK ==
    /\ cells \in [Index -> 0 .. MaxSampled]
    /\ writePos \in Index /\ readPos \in Index
    /\ producer \in [Producers -> Visits] /\ consumer \in [Consumers -> Visits]
    /\ sampled \in 0 .. MaxSampled
    /\ waiting \in Seq(1 .. MaxSampled) /\ exact \in BOOLEAN
    /\ crowded \in BOOLEAN

RingInit ==
    /\ cells = [i \in Index |-> 0]
    /\ writePos = 0 /\ readPos = 0
    /\ producer = [p \in Producers |-> Outside]
    /\ consumer = [c \in Consumers |-> Outside]
    /\ sampled = 0
    /\ waiting = <<>> /\ exact = TRUE
    /\ crowded = FALSE

(* The difference of two unsigned positions; one cell stays free to tell a *)
(* full ring from an empty one.                                            *)
FillLevel == IF writePos >= readPos THEN writePos - readPos
             ELSE RingSize - readPos + writePos
FreeSpace_Fault == RingSize - FillLevel
FreeSpace == RingSize - FillLevel - 1

Later(pos, n) == (pos + n) % RingSize
IsInside(who) == who.at # "outside"

-----------------------------------------------------------------------------
(* write: it takes as many samples as there is room for; the rest is lost. *)

BeginWrite(p) ==
    /\ ~IsInside(producer[p])
    /\ sampled + Batch <= MaxSampled
    /\ sampled' = sampled + Batch
    /\ LET n == IF Batch <= FreeSpace THEN Batch ELSE FreeSpace IN
       IF n = 0 THEN UNCHANGED <<producer, crowded>>
       ELSE /\ producer' = [producer EXCEPT ![p] =
                 [at |-> "found", pos |-> writePos, count |-> n,
                  samples |-> [i \in 1 .. n |-> sampled + i]]]
            /\ crowded' = (crowded \/ \E q \in Producers : IsInside(producer[q]))
    /\ UNCHANGED <<cells, writePos, readPos, consumer, waiting, exact>>

CopyIn(p) ==
    LET w == producer[p] IN
    /\ w.at = "found"
    /\ cells' = [i \in Index |->
         IF \E k \in 1 .. w.count : i = Later(w.pos, k - 1)
           THEN w.samples[CHOOSE k \in 1 .. w.count : i = Later(w.pos, k - 1)]
           ELSE cells[i]]
    /\ producer' = [producer EXCEPT ![p].at = "copied"]
    /\ UNCHANGED <<writePos, readPos, consumer, sampled, waiting, exact, crowded>>

EndWrite(p) ==
    LET w == producer[p] IN
    /\ w.at = "copied"
    /\ writePos' = Later(w.pos, w.count)
    /\ waiting' = waiting \o w.samples
    /\ producer' = [producer EXCEPT ![p] = Outside]
    /\ UNCHANGED <<cells, readPos, consumer, sampled, exact, crowded>>

(* read: it takes what there is, at most what it was asked for; an empty   *)
(* ring makes it wait, and return nothing after half a second.             *)
BeginRead(c, n) ==
    /\ ~IsInside(consumer[c])
    /\ FillLevel > 0
    /\ consumer' = [consumer EXCEPT ![c] =
          [at |-> "found", pos |-> readPos,
           count |-> IF n <= FillLevel THEN n ELSE FillLevel, samples |-> <<>>]]
    /\ crowded' = (crowded \/ \E d \in Consumers : IsInside(consumer[d]))
    /\ UNCHANGED <<cells, writePos, readPos, producer, sampled, waiting, exact>>

CopyOut(c) ==
    LET r == consumer[c] IN
    /\ r.at = "found"
    /\ consumer' = [consumer EXCEPT ![c].at = "copied",
          ![c].samples = [k \in 1 .. r.count |-> cells[Later(r.pos, k - 1)]]]
    /\ UNCHANGED <<cells, writePos, readPos, producer, sampled, waiting, exact, crowded>>

EndRead(c) ==
    LET r == consumer[c] IN
    /\ r.at = "copied"
    /\ readPos' = Later(r.pos, r.count)
    /\ exact' = (exact /\ IsPrefix(r.samples, waiting))
    /\ waiting' = IF IsPrefix(r.samples, waiting)
                   THEN SubSeq(waiting, r.count + 1, Len(waiting)) ELSE waiting
    /\ consumer' = [consumer EXCEPT ![c] = Outside]
    /\ UNCHANGED <<cells, writePos, producer, sampled, crowded>>

RingNext ==
    \/ \E p \in Producers : BeginWrite(p) \/ CopyIn(p) \/ EndWrite(p)
    \/ \E c \in Consumers : (\E n \in 1 .. Batch : BeginRead(c, n)) \/ CopyOut(c) \/ EndRead(c)

RingSpec == RingInit /\ [][RingNext]_ringVars

-----------------------------------------------------------------------------
(* As long as no two producers and no two consumers were inside the ring   *)
(* at a time, whatever the interleaving of the two kinds, wherever the     *)
(* ring wraps and however often it overflows: the samples read are those   *)
(* that write accepted, each once and in their order                       *)
(* (ring_buffer.py:82, ring_buffer.py:169).                                *)
TakenAsAccepted == ~crowded => exact

=============================================================================
