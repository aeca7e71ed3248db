--------------------------- MODULE BroadcastQueue ---------------------------
(***************************************************************************)
(* The queue that fans audio out (app_core/audio/broadcast_queue.py) and   *)
(* the adapters that read from it (broadcast_adapter.py). Publishers are   *)
(* the capture loop of a source and the threads that inject alerts. A      *)
(* publisher copies the table of subscribers under the lock and fills      *)
(* their queues without it; a full queue loses its oldest chunk in two     *)
(* calls. Subscribing under a name in use gives the queue of that name.    *)
(***************************************************************************)
EXTENDS Integers, Sequences, FiniteSets

CONSTANTS
    Publishers,
    Adapters,       \* in the order of their creation they may share a name
    NameOf,         \* subscriber_id of each adapter
    QueueLimit,     \* max_queue_size
    ChunkLength,    \* samples of a chunk
    Wanted,         \* num_samples of a read
    MaxPublished    \* bound: chunks of a publisher

ASSUME QueueAssumption ==
    /\ QueueLimit \in Nat \ {0} /\ ChunkLength \in Nat \ {0}
    /\ Wanted \in Nat \ {0} /\ MaxPublished \in Nat

Nothing == "nothing"
Left == "left"     \* of an adapter whose reader has gone
ASSUME NothingAssumption == Nothing \notin Adapters /\ Left \notin Adapters

Names == {NameOf[a] : a \in Adapters}
ChunkOf == [by : Publishers, n : 1 .. MaxPublished]
Sample == [by : Publishers, n : 1 .. MaxPublished * ChunkLength]

(* A queue object is called by the adapter it was made for. *)
VARIABLES
    subscribers,  \* queue object of each name
    queues,       \* content of each queue object
    uses,         \* queue object that an adapter reads
    published,    \* chunks published by each publisher
    todo,         \* queue objects that a publisher has still to fill
    phase,        \* "put", or after a full queue "drop", "again"
    outrun,       \* history: did another publisher put into the queue since?
    chunkList,    \* the adapter's own samples
    given,        \* history: samples that were read from each adapter
    overrun       \* history: queue objects that lost a chunk

queueVars == <<subscribers, queues, uses, published, todo, phase, outrun,
               chunkList, given, overrun>>

QueueTypeOK ==
    /\ subscribers \in [Names -> Adapters \cup {Nothing}]
    /\ queues \in [Adapters -> Seq(ChunkOf)]
    /\ uses \in [Adapters -> Adapters \cup {Nothing, Left}]
    /\ published \in [Publishers -> 0 .. MaxPublished]
    /\ todo \in [Publishers -> Seq(Adapters)]
    /\ phase \in [Publishers -> {"put", "drop", "again"}]
    /\ outrun \in [Publishers -> BOOLEAN]
    /\ chunkList \in [Adapters -> Seq(Sample)]
    /\ given \in [Adapters -> Seq(Sample)]
    /\ overrun \subseteq Adapters

QueueInit ==
    /\ subscribers = [s \in Names |-> Nothing]
    /\ queues = [a \in Adapters |-> <<>>]
    /\ uses = [a \in Adapters |-> Nothing]
    /\ published = [p \in Publishers |-> 0]
    /\ todo = [p \in Publishers |-> <<>>]
    /\ phase = [p \in Publishers |-> "put"]
    /\ outrun = [p \in Publishers |-> FALSE]
    /\ chunkList = [a \in Adapters |-> <<>>]
    /\ given = [a \in Adapters |-> <<>>]
    /\ overrun = {}

publisherVars == <<published, todo, phase, outrun>>
adapterVars == <<chunkList, given>>

-----------------------------------------------------------------------------
(* subscribe, in the constructor of an adapter. An adapter that takes the  *)
(* name of another one takes its queue, with what is in it.                *)
SubscribeNew(a) ==
    /\ uses[a] = Nothing /\ subscribers[NameOf[a]] = Nothing
    /\ subscribers' = [subscribers EXCEPT ![NameOf[a]] = a]
    /\ uses' = [uses EXCEPT ![a] = a]
    /\ UNCHANGED <<queues, overrun, publisherVars, adapterVars>>

(* The former reader has gone without unsubscribing.                       *)
SubscribeAgain(a) ==
    /\ uses[a] = Nothing /\ subscribers[NameOf[a]] # Nothing
    /\ uses' = [b \in Adapters |->
                  IF b = a THEN subscribers[NameOf[a]]
                  ELSE IF uses[b] = subscribers[NameOf[a]] THEN Left ELSE uses[b]]
    /\ UNCHANGED <<subscribers, queues, overrun, publisherVars, adapterVars>>

Unsubscribe(a) ==
    /\ uses[a] \in Adapters /\ subscribers[NameOf[a]] = uses[a]
    /\ subscribers' = [subscribers EXCEPT ![NameOf[a]] = Nothing]
    /\ UNCHANGED <<queues, uses, overrun, publisherVars, adapterVars>>

-----------------------------------------------------------------------------
(* publish.                                                                *)

Busy(p) == todo[p] # <<>>
Target(p) == Head(todo[p])
Newest(p) == [by |-> p, n |-> published[p]]
IsFull(q) == Len(queues[q]) = QueueLimit

Table(t) == /\ {t[i] : i \in 1 .. Len(t)} = {subscribers[s] : s \in Names} \ {Nothing}
            /\ Cardinality({t[i] : i \in 1 .. Len(t)}) = Len(t)

Begins(p) ==
    /\ ~Busy(p)
    /\ published[p] < MaxPublished
    /\ published' = [published EXCEPT ![p] = @ + 1]
    /\ \E n \in 0 .. Cardinality(Names) : \E t \in [1 .. n -> Adapters] :
         Table(t) /\ todo' = [todo EXCEPT ![p] = t]
    /\ UNCHANGED <<subscribers, queues, uses, phase, outrun, chunkList, given, overrun>>

Delivers(p) ==
    /\ queues' = [queues EXCEPT ![Target(p)] = Append(@, Newest(p))]
    /\ outrun' = [r \in Publishers |->
                   IF r = p THEN FALSE
                   ELSE outrun[r] \/ (Busy(r) /\ phase[r] # "put" /\ Target(r) = Target(p))]
    /\ todo' = [todo EXCEPT ![p] = Tail(@)]
    /\ phase' = [phase EXCEPT ![p] = "put"]

PutNoWait(p) ==
    /\ Busy(p) /\ phase[p] = "put"
    /\ IF IsFull(Target(p))
         THEN phase' = [phase EXCEPT ![p] = "drop"] /\ UNCHANGED <<queues, todo, outrun>>
         ELSE Delivers(p)
    /\ UNCHANGED <<subscribers, uses, published, adapterVars, overrun>>

(* The delivery fails: the newest chunk is lost.                           *)
GivesUp(p) ==
    /\ todo' = [todo EXCEPT ![p] = Tail(@)]
    /\ phase' = [phase EXCEPT ![p] = "put"]
    /\ outrun' = [outrun EXCEPT ![p] = FALSE]
    /\ overrun' = overrun \cup {Target(p)}
    /\ UNCHANGED queues

DropOldest_Fault(p) ==
    /\ Busy(p) /\ phase[p] = "drop"
    /\ phase' = [phase EXCEPT ![p] = "again"]
    /\ overrun' = overrun \cup {Target(p)}
    /\ UNCHANGED <<subscribers, queues, uses, published, todo, outrun, adapterVars>>

DropOldest(p) ==
    /\ Busy(p) /\ phase[p] = "drop"
    /\ IF queues[Target(p)] = <<>>
         THEN GivesUp(p)
         ELSE /\ queues' = [queues EXCEPT ![Target(p)] = Tail(@)]
              /\ phase' = [phase EXCEPT ![p] = "again"]
              /\ overrun' = overrun \cup {Target(p)}
              /\ UNCHANGED <<todo, outrun>>
    /\ UNCHANGED <<subscribers, uses, published, adapterVars>>

PutAgain(p) ==
    /\ Busy(p) /\ phase[p] = "again"
    /\ IF IsFull(Target(p)) THEN GivesUp(p) ELSE Delivers(p) /\ UNCHANGED overrun
    /\ UNCHANGED <<subscribers, uses, published, adapterVars>>

-----------------------------------------------------------------------------
(* read_audio and get_audio_chunk: chunks are taken from the queue until   *)
(* there are samples enough. A wait that times out keeps what was taken.   *)

Samples(c) == [i \in 1 .. ChunkLength |->
                 [by |-> c.by, n |-> (c.n - 1) * ChunkLength + i]]

Fill(a) ==
    /\ uses[a] \in Adapters
    /\ Len(chunkList[a]) < Wanted /\ queues[uses[a]] # <<>>
    /\ chunkList' = [chunkList EXCEPT ![a] = @ \o Samples(Head(queues[uses[a]]))]
    /\ queues' = [queues EXCEPT ![uses[a]] = Tail(@)]
    /\ UNCHANGED <<subscribers, uses, publisherVars, given, overrun>>

Remaining_Short(s) == SubSeq(s, Wanted + 2, Len(s))
Remaining_Fault(s) == SubSeq(s, Wanted, Len(s))
Remaining(s) == SubSeq(s, Wanted + 1, Len(s))

Serve(a) ==
    /\ Len(chunkList[a]) >= Wanted
    /\ given' = [given EXCEPT ![a] = @ \o SubSeq(chunkList[a], 1, Wanted)]
    /\ chunkList' = [chunkList EXCEPT ![a] = Remaining(@)]
    /\ UNCHANGED <<subscribers, queues, uses, publisherVars, overrun>>

-----------------------------------------------------------------------------
QueueNext ==
    \/ \E a \in Adapters : \/ SubscribeNew(a) \/ SubscribeAgain(a) \/ Unsubscribe(a)
                           \/ Fill(a) \/ Serve(a)
    \/ \E p \in Publishers : \/ Begins(p) \/ PutNoWait(p)
                             \/ DropOldest(p) \/ PutAgain(p)

QueueSpec == QueueInit /\ [][QueueNext]_queueVars

-----------------------------------------------------------------------------
(* Every adapter hears of every publisher samples in their order and none  *)
(* twice, whatever is dropped, refused, subscribed or unsubscribed in the  *)
(* middle of a publication, and nothing that was not published.            *)
Stream == INSTANCE LossyStream WITH
            Sources <- Publishers, Listeners <- Adapters, Length <- ChunkLength,
            said <- published, heard <- given
ImplementsLossyStream == Stream!LossySpec

(* After the oldest chunk was dropped there is room for the newest, unless *)
(* another publisher took it (broadcast_queue.py:166): with one publisher  *)
(* no delivery fails that way.                                             *)
RoomAfterDrop ==
    \A p \in Publishers :
        Busy(p) /\ phase[p] = "again" /\ ~outrun[p] => ~IsFull(Target(p))

(* What an adapter has been given, has, and will find in its queue.        *)
Flatten(s) == [i \in 1 .. Len(s) * ChunkLength |->
                 Samples(s[1 + ((i - 1) \div ChunkLength)])[1 + ((i - 1) % ChunkLength)]]
Line(a) == given[a] \o chunkList[a] \o Flatten(queues[uses[a]])

(* The sample j is the next one of its publisher after the sample i.       *)
Follows(s, i, j) == /\ i < j /\ s[i].by = s[j].by
                    /\ \A k \in i + 1 .. j - 1 : s[k].by # s[j].by
Contiguous(s) == \A i, j \in 1 .. Len(s) : Follows(s, i, j) => s[j].n = s[i].n + 1

(* An adapter whose queue never ran full misses nothing: the samples of    *)
(* each publisher come without a gap across reads, timeouts and chunks     *)
(* (broadcast_adapter.py:226).                                             *)
NoGapUnlessOverrun ==
    \A a \in Adapters : uses[a] \in Adapters \ overrun => Contiguous(Line(a))

=============================================================================
