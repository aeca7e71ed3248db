---------------------------- MODULE AudioProofs -----------------------------
(***************************************************************************)
(* Proofs about the ways of the audio: broadcasts injected into a stream,  *)
(* the queues that fan audio out, the capture loops of a receiver and the  *)
(* ring they fill, and the streams of the sources. The sizes of queues,    *)
(* buffers, rings, chunks and reads and the number of threads are          *)
(* arbitrary.                                                              *)
(***************************************************************************)
EXTENDS StreamInjection, BroadcastQueue, SDRReceiver, SampleRing, AutoStreaming,
        SequenceTheorems, FiniteSetTheorems, TLAPS


-----------------------------------------------------------------------------
(* Broadcasts injected into a stream.                                      *)

(***************************************************************************)
(* Typing.                                                                 *)
(***************************************************************************)
Injector == [at : {"ready", "bumped", "flushing", "pushing", "done"}, k : 1 .. Chunks + 1]

LEMMA StrTypeInit == StrInit => StrTypeOK
  <1> SUFFICES ASSUME StrInit PROVE StrTypeOK
    OBVIOUS
  <1>1. line \in Seq(Chunk) /\ Len(line) <= QueueMax /\ buffer \in Seq(Chunk) /\ Len(buffer) <= BufferMax
    BY StreamAssumption DEF StrInit
  <1>2. injector \in [Injections -> Injector] /\ heard \in [Injections -> Seq(1 .. Chunks)]
    BY StreamAssumption DEF StrInit, Injector
  <1>3. upsets \in 0 .. MaxUpsets /\ seqNo \in Nat /\ seen \in Nat /\ mixed \in 0 .. 2
        /\ pipe \in Seq(Chunk) /\ Len(pipe) <= PipeMax
    BY StreamAssumption DEF StrInit
  <1>4. spoiled \subseteq Chunk
    BY DEF StrInit
  <1> QED
    BY <1>1, <1>2, <1>3, <1>4, Zenon DEF StrInit, StrTypeOK, Injector

LEMMA InjectorTyped ==
    ASSUME StrTypeOK, NEW a \in Injections
    PROVE  /\ \A p \in {"ready", "bumped", "flushing", "pushing", "done"} :
                [injector EXCEPT ![a].at = p] \in [Injections -> Injector]
           /\ injector[a].k <= Chunks =>
                [injector EXCEPT ![a].k = @ + 1] \in [Injections -> Injector]
  <1>1. injector \in [Injections -> Injector] /\ injector[a] \in Injector
    BY DEF StrTypeOK, Injector
  <1> QED
    BY <1>1, StreamAssumption DEF Injector

LEMMA PublishTyped ==
    ASSUME StrTypeOK, NEW c \in Chunk, Publish(c)
    PROVE  line' \in Seq(Chunk) /\ Len(line') <= QueueMax
  <1> USE StreamAssumption DEF StrTypeOK, Publish, Full
  <1>1. CASE ~Subscribed
    BY <1>1
  <1>2. CASE Subscribed /\ Full
    BY <1>2
  <1>3. CASE Subscribed /\ ~Full
    BY <1>3
  <1> QED
    BY <1>1, <1>2, <1>3

LEMMA PutTyped ==
    ASSUME StrTypeOK, NEW c \in Chunk
    PROVE  PutLast(c) \in Seq(Chunk) /\ Len(PutLast(c)) <= BufferMax
  <1> USE StreamAssumption DEF StrTypeOK, PutLast
  <1>1. CASE Len(buffer) = BufferMax
    BY <1>1
  <1>2. CASE Len(buffer) # BufferMax
    BY <1>2
  <1> QED
    BY <1>1, <1>2

LEMMA EndTyped ==
    ASSUME StrTypeOK, EncoderEnds
    PROVE  /\ pipe' = <<>> /\ pipe' \in Seq(Chunk) /\ Len(pipe') <= PipeMax
           /\ spoiled' \subseteq Chunk /\ heard' = heard
  BY StreamAssumption DEF StrTypeOK, EncoderEnds, AlertChunks

LEMMA StrTypeStep == StrTypeOK /\ [StrNext]_strVars => StrTypeOK'
  <1> SUFFICES ASSUME StrTypeOK, [StrNext]_strVars PROVE StrTypeOK'
    OBVIOUS
  <1>l. Live \in Chunk
    BY DEF Chunk
  <1>p. ASSUME PublishesLive, held' \in BOOLEAN, upset' \in BOOLEAN, upsets' \in 0 .. MaxUpsets PROVE StrTypeOK'
    <2>1. line' \in Seq(Chunk) /\ Len(line') <= QueueMax
      BY <1>l, <1>p, PublishTyped DEF PublishesLive
    <2>2. mixed' \in 0 .. 2
      BY <1>p DEF PublishesLive, StrTypeOK
    <2> QED
      BY <1>p, <2>1, <2>2 DEF PublishesLive, StrTypeOK, outVars
  <1>u. Upset => upsets' \in 0 .. MaxUpsets
    BY StreamAssumption DEF StrTypeOK, Upset
  <1> USE StreamAssumption DEF StrTypeOK, outVars
  <1>1. CASE ReadLive
    BY <1>1 DEF ReadLive
  <1>2. CASE PublishLive
    <2>1. upset' \in BOOLEAN
      BY <1>2, Zenon DEF PublishLive
    <2> QED
      BY <1>2, <1>p, <2>1 DEF PublishLive
  <1>3. CASE DrainTest
    BY <1>3, <1>p, <1>u DEF DrainTest
  <1>4. ASSUME NEW a \in Injections, Bump(a) PROVE StrTypeOK'
    <2>1. upset' \in BOOLEAN
      BY <1>4, Zenon DEF Bump
    <2>2. UNCHANGED <<line, gate, held, streamer, seen, buffer, encoder, outVars, upsets>>
          /\ seqNo' = seqNo + 1 /\ mixed' = 0 /\ injector' = [injector EXCEPT ![a].at = "bumped"]
      BY <1>4 DEF Bump
    <2>3. injector' \in [Injections -> Injector]
      BY <2>2, InjectorTyped
    <2>4. seqNo' \in Nat /\ mixed' \in 0 .. 2
      BY <2>2, SMTT(40)
    <2> QED
      BY <2>1, <2>2, <2>3, <2>4, Zenon DEF Injector
  <1>5. ASSUME NEW a \in Injections, SetGate(a) PROVE StrTypeOK'
    BY <1>5 DEF SetGate
  <1>6. ASSUME NEW a \in Injections, Flush(a) PROVE StrTypeOK'
    <2>1. CASE line # <<>>
      <3>1. Tail(line) \in Seq(Chunk) /\ Len(Tail(line)) <= QueueMax
        BY <2>1
      <3> QED
        BY <1>6, <2>1, <3>1 DEF Flush
    <2>2. CASE line = <<>>
      <3>1. injector' \in [Injections -> Injector]
        <4>1. injector' = [injector EXCEPT ![a].at = "pushing"]
          BY <1>6, <2>2 DEF Flush
        <4> QED
          BY <4>1, InjectorTyped
      <3> QED
        BY <1>6, <2>2, <3>1 DEF Flush, Injector
    <2> QED
      BY <2>1, <2>2
  <1>7. ASSUME NEW a \in Injections, Push(a) PROVE StrTypeOK'
    <2>1. [alert |-> a, k |-> injector[a].k] \in Chunk
      BY <1>7 DEF Push, Chunk
    <2>2. line' \in Seq(Chunk) /\ Len(line') <= QueueMax
      BY <1>7, <2>1, PublishTyped DEF Push
    <2>3. upset' \in BOOLEAN
      BY <1>7, Zenon DEF Push
    <2>4. UNCHANGED <<gate, seqNo, held, streamer, seen, buffer, encoder, outVars, mixed, upsets>>
          /\ injector[a].k <= Chunks /\ injector' = [injector EXCEPT ![a].k = @ + 1]
      BY <1>7 DEF Push
    <2> QED
      BY <2>2, <2>3, <2>4, InjectorTyped DEF Injector
  <1>8. ASSUME NEW a \in Injections, OpenGate(a) PROVE StrTypeOK'
    BY <1>8 DEF OpenGate
  <1>9. CASE StartStreamer
    BY <1>9 DEF StartStreamer
  <1>10. CASE StopStreamer
    <2>1. line' \in Seq(Chunk) /\ Len(line') <= QueueMax /\ buffer' \in Seq(Chunk) /\ Len(buffer') <= BufferMax
      BY <1>10 DEF StopStreamer
    <2>2. streamer' = "off" /\ ~encoder' /\ upset' /\ upsets' \in 0 .. MaxUpsets
          /\ UNCHANGED <<gate, seqNo, held, injector, seen, mixed>> /\ EncoderEnds
      BY <1>10, <1>u DEF StopStreamer
    <2>3. encoder' \in BOOLEAN /\ upset' \in BOOLEAN
      BY <1>10, Zenon DEF StopStreamer
    <2> QED
      BY <2>1, <2>2, <2>3, EndTyped
  <1>11. CASE Prebuffer
    <2>1. Head(line) \in Chunk /\ Tail(line) \in Seq(Chunk) /\ Len(Tail(line)) <= QueueMax
      BY <1>11 DEF Prebuffer
    <2> QED
      BY <1>11, <2>1, PutTyped DEF Prebuffer
  <1>12. CASE PrebufferEnds
    BY <1>12 DEF PrebufferEnds
  <1>13. CASE RestartEncoder
    BY <1>13 DEF RestartEncoder
  <1>14. CASE CheckSeq
    BY <1>14 DEF CheckSeq
  <1>15. CASE Take
    <2>1. line' \in Seq(Chunk) /\ Len(line') <= QueueMax /\ buffer' \in Seq(Chunk) /\ Len(buffer') <= BufferMax
      <3>1. CASE line # <<>>
        <4>1. Head(line) \in Chunk /\ Tail(line) \in Seq(Chunk) /\ Len(Tail(line)) <= QueueMax
          BY <3>1
        <4> QED
          BY <1>15, <3>1, <4>1, PutTyped DEF Take
      <3>2. CASE line = <<>>
        BY <1>15, <3>2 DEF Take
      <3> QED
        BY <3>1, <3>2
    <2>2. upset' \in BOOLEAN
      BY <1>15, Zenon DEF Take
    <2>3. UNCHANGED <<gate, seqNo, held, injector, seen, encoder, outVars, mixed, upsets>> /\ streamer' = "writing"
      BY <1>15 DEF Take
    <2> QED
      BY <2>1, <2>2, <2>3
  <1>16. CASE Write
    <2>0. streamer' = "top" /\ UNCHANGED <<line, gate, seqNo, held, injector, seen, encoder, mixed, upset, upsets>>
      BY <1>16 DEF Write
    <2>1. CASE buffer # <<>> /\ (WriteReaches \/ WriteIsLost)
      <3>1. Head(buffer) \in Chunk /\ Tail(buffer) \in Seq(Chunk) /\ Len(Tail(buffer)) <= BufferMax
        BY <2>1
      <3>2. CASE WriteReaches
        <4>1. Append(pipe, Head(buffer)) \in Seq(Chunk) /\ Len(Append(pipe, Head(buffer))) <= PipeMax
          BY <3>1, <3>2 DEF WriteReaches
        <4> QED
          BY <2>0, <3>1, <3>2, <4>1 DEF WriteReaches
      <3>3. CASE WriteIsLost
        BY <2>0, <3>1, <3>3 DEF WriteIsLost
      <3> QED
        BY <2>1, <3>2, <3>3
    <2>2. CASE UNCHANGED <<buffer, outVars>>
      BY <2>0, <2>2 DEF outVars
    <2> QED
      BY <1>16, <2>1, <2>2 DEF Write, WriteRaises
  <1>17. CASE EncoderDies
    BY <1>17, <1>u, EndTyped DEF EncoderDies
  <1>19. CASE EncoderReads
    <2>1. Head(pipe) \in Chunk /\ Tail(pipe) \in Seq(Chunk) /\ Len(Tail(pipe)) <= PipeMax
      BY <1>19 DEF EncoderReads
    <2>2. heard' \in [Injections -> Seq(1 .. Chunks)]
      <3>1. CASE Head(pipe) = Live
        BY <1>19, <3>1 DEF EncoderReads
      <3>2. CASE Head(pipe) # Live
        <4>1. Head(pipe).alert \in Injections /\ Head(pipe).k \in 1 .. Chunks
          BY <2>1, <3>2 DEF Chunk
        <4>2. heard' = [heard EXCEPT ![Head(pipe).alert] = Append(@, Head(pipe).k)]
          BY <1>19, <3>2 DEF EncoderReads
        <4>3. Append(heard[Head(pipe).alert], Head(pipe).k) \in Seq(1 .. Chunks)
          <5>1. heard[Head(pipe).alert] \in Seq(1 .. Chunks)
            BY <4>1
          <5> HIDE DEF StrTypeOK
          <5> QED
            BY <4>1, <5>1
        <4> QED
          BY <4>2, <4>3
      <3> QED
        BY <3>1, <3>2
    <2> QED
      BY <1>19, <2>1, <2>2 DEF EncoderReads
  <1>18. CASE UNCHANGED strVars
    BY <1>18 DEF strVars
  <1> QED
    BY <1>1, <1>2, <1>3, <1>4, <1>5, <1>6, <1>7, <1>8, <1>9, <1>10, <1>11, <1>12, <1>13,
       <1>14, <1>15, <1>16, <1>17, <1>18, <1>19 DEF StrNext

(***************************************************************************)
(* The order of an alert's chunks along their way: heard, in the pipe of   *)
(* the encoder, in the buffer, in the queue, yet to be pushed.             *)
(***************************************************************************)
Before(c, d) == c.alert = d.alert /\ c # Live => c.k < d.k
Rising(s) == \A i, j \in 1 .. Len(s) : i < j => Before(s[i], s[j])
Precedes(s, t) == \A i \in 1 .. Len(s), j \in 1 .. Len(t) : Before(s[i], t[j])
PrecedesOne(s, d) == \A i \in 1 .. Len(s) : Before(s[i], d)
HeardBefore(d) == d # Live => \A i \in 1 .. Len(heard[d.alert]) : heard[d.alert][i] < d.k
ToPush(a) == [alert |-> a, k |-> injector[a].k]

OrderInv ==
    /\ StrTypeOK
    /\ Rising(line) /\ Rising(buffer) /\ Rising(pipe)
    /\ Precedes(buffer, line) /\ Precedes(pipe, buffer) /\ Precedes(pipe, line)
    /\ \A i \in 1 .. Len(line) : HeardBefore(line[i])
    /\ \A i \in 1 .. Len(buffer) : HeardBefore(buffer[i])
    /\ \A i \in 1 .. Len(pipe) : HeardBefore(pipe[i])
    /\ \A a \in Injections : /\ PrecedesOne(line, ToPush(a))
                             /\ PrecedesOne(buffer, ToPush(a))
                             /\ PrecedesOne(pipe, ToPush(a))
                             /\ HeardBefore(ToPush(a))
    /\ HeardInOrder

LEMMA TailFacts ==
    ASSUME NEW s \in Seq(Chunk), s # <<>>
    PROVE  /\ Head(s) \in Chunk /\ Tail(s) \in Seq(Chunk) /\ Head(s) = s[1]
           /\ Len(Tail(s)) = Len(s) - 1 /\ Len(s) \in Nat \ {0}
           /\ \A i \in 1 .. Len(Tail(s)) : Tail(s)[i] = s[i + 1]
  OBVIOUS

LEMMA TailKeeps ==
    ASSUME NEW s \in Seq(Chunk), s # <<>>
    PROVE  /\ Rising(s) => Rising(Tail(s)) /\ Precedes(<<Head(s)>>, Tail(s))
           /\ \A t \in Seq(Chunk) : Precedes(s, t) => Precedes(Tail(s), t)
           /\ \A t \in Seq(Chunk) : Precedes(t, s) => Precedes(t, Tail(s)) /\ PrecedesOne(t, Head(s))
           /\ \A d : PrecedesOne(s, d) => PrecedesOne(Tail(s), d)
  <1> USE TailFacts DEF Rising, Precedes, PrecedesOne
  <1> HIDE DEF Before
  <1>1. Rising(s) => Rising(Tail(s)) /\ Precedes(<<Head(s)>>, Tail(s))
    OBVIOUS
  <1>2. ASSUME NEW t \in Seq(Chunk), Precedes(s, t) PROVE Precedes(Tail(s), t)
    BY <1>2
  <1>3. ASSUME NEW t \in Seq(Chunk), Precedes(t, s) PROVE Precedes(t, Tail(s)) /\ PrecedesOne(t, Head(s))
    BY <1>3
  <1>4. ASSUME NEW d, PrecedesOne(s, d) PROVE PrecedesOne(Tail(s), d)
    BY <1>4
  <1> QED
    BY <1>1, <1>2, <1>3, <1>4

LEMMA AppendKeeps ==
    ASSUME NEW s \in Seq(Chunk), NEW c \in Chunk
    PROVE  /\ Rising(s) /\ PrecedesOne(s, c) => Rising(Append(s, c))
           /\ \A t \in Seq(Chunk) : Precedes(t, s) /\ PrecedesOne(t, c) => Precedes(t, Append(s, c))
           /\ \A t \in Seq(Chunk) : Precedes(s, t) /\ Precedes(<<c>>, t) => Precedes(Append(s, c), t)
           /\ \A d : PrecedesOne(s, d) /\ Before(c, d) => PrecedesOne(Append(s, c), d)
  <1>1. /\ Len(Append(s, c)) = Len(s) + 1 /\ Len(s) \in Nat
        /\ Append(s, c)[Len(s) + 1] = c
        /\ \A i \in 1 .. Len(s) : Append(s, c)[i] = s[i]
    OBVIOUS
  <1>2. \A i \in 1 .. Len(Append(s, c)) : i \in 1 .. Len(s) \/ i = Len(s) + 1
    BY <1>1
  <1> USE <1>1, <1>2 DEF Rising, Precedes, PrecedesOne
  <1> HIDE DEF Before
  <1>3. Rising(s) /\ PrecedesOne(s, c) => Rising(Append(s, c))
    <2> SUFFICES ASSUME Rising(s), PrecedesOne(s, c),
                        NEW i \in 1 .. Len(Append(s, c)), NEW j \in 1 .. Len(Append(s, c)), i < j
                 PROVE  Before(Append(s, c)[i], Append(s, c)[j])
      OBVIOUS
    <2>1. i \in 1 .. Len(s)
      OBVIOUS
    <2>2. CASE j \in 1 .. Len(s)
      BY <2>1, <2>2
    <2>3. CASE j = Len(s) + 1
      BY <2>1, <2>3
    <2> QED
      BY <2>2, <2>3
  <1>4. ASSUME NEW t \in Seq(Chunk), Precedes(t, s), PrecedesOne(t, c) PROVE Precedes(t, Append(s, c))
    BY <1>4
  <1>5. ASSUME NEW t \in Seq(Chunk), Precedes(s, t), Precedes(<<c>>, t) PROVE Precedes(Append(s, c), t)
    BY <1>5
  <1>6. ASSUME NEW d, PrecedesOne(s, d), Before(c, d) PROVE PrecedesOne(Append(s, c), d)
    BY <1>6
  <1> QED
    BY <1>3, <1>4, <1>5, <1>6

LEMMA LiveIsNowhere ==
    ASSUME NEW c \in Chunk
    PROVE  Before(c, Live) /\ Before(Live, c) /\ HeardBefore(Live)
  BY StreamAssumption DEF Before, Live, Chunk, HeardBefore

(* A chunk that comes after all of those in the queue, in the buffer, in   *)
(* the pipe and heard is published, even though the oldest one may be      *)
(* dropped.                                                                *)
LEMMA Publishing ==
    ASSUME OrderInv, NEW c \in Chunk, Publish(c), PrecedesOne(line, c),
           PrecedesOne(buffer, c), PrecedesOne(pipe, c), HeardBefore(c), heard' = heard
    PROVE  /\ Rising(line') /\ Precedes(buffer, line') /\ Precedes(pipe, line')
           /\ \A i \in 1 .. Len(line') : HeardBefore(line'[i])
           /\ \A d : PrecedesOne(line, d) /\ Before(c, d) => PrecedesOne(line', d)
  <1>1. line \in Seq(Chunk) /\ buffer \in Seq(Chunk) /\ pipe \in Seq(Chunk)
    BY DEF OrderInv, StrTypeOK
  <1>2. PICK s \in Seq(Chunk) :
           /\ line' = line \/ line' = Append(s, c)
           /\ Rising(s) /\ Precedes(buffer, s) /\ Precedes(pipe, s) /\ PrecedesOne(s, c)
           /\ \A i \in 1 .. Len(s) : HeardBefore(s[i])
           /\ \A d : PrecedesOne(line, d) => PrecedesOne(s, d)
    <2>1. CASE ~Full
      <3>1. line' = line \/ line' = Append(line, c)
        BY <2>1 DEF Publish
      <3> QED
        BY <1>1, <3>1 DEF OrderInv
    <2>2. CASE Full
      <3>1. line # <<>>
        BY <2>2, StreamAssumption DEF Full
      <3>2. line' = line \/ line' = Append(Tail(line), c)
        BY <2>2 DEF Publish
      <3>3. \A i \in 1 .. Len(Tail(line)) : HeardBefore(Tail(line)[i])
        BY <1>1, <3>1, TailFacts DEF OrderInv
      <3> QED
        BY <1>1, <3>1, <3>2, <3>3, TailKeeps, TailFacts DEF OrderInv
    <2> QED
      BY <2>1, <2>2
  <1>3. CASE line' = line
    BY <1>3 DEF OrderInv
  <1>4. CASE line' = Append(s, c)
    <2>1. Rising(line') /\ Precedes(buffer, line') /\ Precedes(pipe, line')
      BY <1>1, <1>2, <1>4, AppendKeeps
    <2>2. \A i \in 1 .. Len(line') : HeardBefore(line'[i])
      <3>1. \A i \in 1 .. Len(line') : line'[i] = c \/ (i \in 1 .. Len(s) /\ line'[i] = s[i])
        BY <1>4
      <3> QED
        BY <1>2, <3>1
    <2>3. \A d : PrecedesOne(line, d) /\ Before(c, d) => PrecedesOne(line', d)
      BY <1>2, <1>4, AppendKeeps
    <2> QED
      BY <2>1, <2>2, <2>3
  <1> QED
    BY <1>2, <1>3, <1>4

(* A chunk is moved from the queue to the end of the buffer.               *)
LEMMA Moving ==
    ASSUME OrderInv, line # <<>>, line' = Tail(line), buffer' = PutLast(Head(line)),
           UNCHANGED <<pipe, heard, injector>>, StrTypeOK'
    PROVE  OrderInv'
  <1>1. /\ line \in Seq(Chunk) /\ buffer \in Seq(Chunk) /\ pipe \in Seq(Chunk)
        /\ Head(line) \in Chunk /\ Tail(line) \in Seq(Chunk)
    BY TailFacts DEF OrderInv, StrTypeOK
  <1>2. PICK s \in Seq(Chunk) :
           /\ buffer' = Append(s, Head(line))
           /\ Rising(s) /\ Precedes(s, line) /\ Precedes(pipe, s)
           /\ \A i \in 1 .. Len(s) : HeardBefore(s[i])
           /\ \A d : PrecedesOne(buffer, d) => PrecedesOne(s, d)
    <2>1. CASE Len(buffer) # BufferMax
      BY <1>1, <2>1 DEF PutLast, OrderInv
    <2>2. CASE Len(buffer) = BufferMax
      <3>1. buffer # <<>>
        BY <2>2, StreamAssumption
      <3>2. buffer' = Append(Tail(buffer), Head(line))
        BY <2>2 DEF PutLast
      <3>3. \A i \in 1 .. Len(Tail(buffer)) : HeardBefore(Tail(buffer)[i])
        BY <1>1, <3>1, TailFacts DEF OrderInv
      <3> QED
        BY <1>1, <3>1, <3>2, <3>3, TailKeeps, TailFacts DEF OrderInv
    <2> QED
      BY <2>1, <2>2
  <1>3. /\ Rising(Tail(line)) /\ Precedes(<<Head(line)>>, Tail(line))
        /\ Precedes(s, Tail(line)) /\ PrecedesOne(s, Head(line))
        /\ Precedes(pipe, Tail(line)) /\ PrecedesOne(pipe, Head(line))
    BY <1>1, <1>2, TailKeeps DEF OrderInv
  <1>4. /\ Rising(line') /\ Rising(buffer') /\ Precedes(buffer', line')
        /\ Precedes(pipe, line') /\ Precedes(pipe, buffer')
    BY <1>1, <1>2, <1>3, AppendKeeps
  <1>5. \A i \in 1 .. Len(line') : HeardBefore(line[i])'
    BY <1>1, TailFacts DEF OrderInv, HeardBefore
  <1>6. \A i \in 1 .. Len(buffer') : HeardBefore(buffer[i])'
    <2>1. \A i \in 1 .. Len(buffer') : buffer'[i] = line[1] \/ (i \in 1 .. Len(s) /\ buffer'[i] = s[i])
      BY <1>1, <1>2, TailFacts
    <2>2. HeardBefore(line[1])
      BY <1>1, TailFacts DEF OrderInv
    <2> QED
      BY <1>2, <2>1, <2>2 DEF HeardBefore
  <1>7. ASSUME NEW a \in Injections
        PROVE  PrecedesOne(line', ToPush(a)) /\ PrecedesOne(buffer', ToPush(a)) /\ ToPush(a)' = ToPush(a)
    <2>1. PrecedesOne(line, ToPush(a)) /\ PrecedesOne(buffer, ToPush(a))
      BY DEF OrderInv
    <2>2. Before(Head(line), ToPush(a))
      BY <1>1, <2>1, TailFacts DEF PrecedesOne
    <2> QED
      BY <1>1, <1>2, <2>1, <2>2, TailKeeps, AppendKeeps DEF ToPush
  <1> QED
    <2>1. \A d : HeardBefore(d)' <=> HeardBefore(d)
      BY DEF HeardBefore
    <2>2. pipe' = pipe /\ \A a \in Injections : ToPush(a)' = ToPush(a)
      BY DEF ToPush
    <2> QED
      BY <1>4, <1>5, <1>6, <1>7, <2>1, <2>2 DEF OrderInv, HeardInOrder

LEMMA OrderInit == StrInit => OrderInv
  <1> SUFFICES ASSUME StrInit PROVE OrderInv
    OBVIOUS
  <1>1. StrTypeOK
    BY StrTypeInit
  <1>2. /\ line = <<>> /\ buffer = <<>> /\ pipe = <<>> /\ heard = [a \in Injections |-> <<>>]
    BY DEF StrInit
  <1>3. \A d : HeardBefore(d) \/ d.alert \notin Injections
    BY <1>2 DEF HeardBefore
  <1>4. \A a \in Injections : ToPush(a).alert = a
    BY DEF ToPush
  <1> QED
    BY <1>1, <1>2, <1>3, <1>4 DEF OrderInv, Rising, Precedes, PrecedesOne, HeardInOrder

(* What the streamer drops or takes off at the head keeps the order.       *)
LEMMA Shrinking ==
    ASSUME OrderInv, StrTypeOK', heard' = heard,
           \A a \in Injections : injector'[a].k = injector[a].k,
           line' \in {line, <<>>} \/ (line # <<>> /\ line' = Tail(line)),
           buffer' \in {buffer, <<>>} \/ (buffer # <<>> /\ buffer' = Tail(buffer)),
           pipe' \in {pipe, <<>>}
    PROVE  OrderInv'
  <1>1. /\ line \in Seq(Chunk) /\ buffer \in Seq(Chunk) /\ pipe \in Seq(Chunk)
        /\ line' \in Seq(Chunk) /\ buffer' \in Seq(Chunk)
    BY DEF OrderInv, StrTypeOK
  <1>2. /\ Rising(line') /\ Precedes(buffer, line') /\ Precedes(pipe, line')
        /\ \A d : PrecedesOne(line, d) => PrecedesOne(line', d)
        /\ \A i \in 1 .. Len(line') : HeardBefore(line'[i])
    <2>1. CASE line' = line
      BY <2>1 DEF OrderInv
    <2>2. CASE line' = <<>>
      BY <2>2 DEF Rising, Precedes, PrecedesOne
    <2>3. CASE line # <<>> /\ line' = Tail(line)
      <3>1. \A i \in 1 .. Len(line') : HeardBefore(line'[i])
        BY <1>1, <2>3, TailFacts DEF OrderInv
      <3> QED
        BY <1>1, <2>3, <3>1, TailKeeps DEF OrderInv
    <2> QED
      BY <2>1, <2>2, <2>3
  <1>3. /\ Rising(buffer') /\ Precedes(buffer', line') /\ Precedes(pipe, buffer')
        /\ \A d : PrecedesOne(buffer, d) => PrecedesOne(buffer', d)
        /\ \A i \in 1 .. Len(buffer') : HeardBefore(buffer'[i])
    <2>1. CASE buffer' = buffer
      BY <1>2, <2>1 DEF OrderInv
    <2>2. CASE buffer' = <<>>
      BY <2>2 DEF Rising, Precedes, PrecedesOne
    <2>3. CASE buffer # <<>> /\ buffer' = Tail(buffer)
      <3>1. \A i \in 1 .. Len(buffer') : HeardBefore(buffer'[i])
        BY <1>1, <2>3, TailFacts DEF OrderInv
      <3> QED
        BY <1>1, <1>2, <2>3, <3>1, TailKeeps DEF OrderInv
    <2> QED
      BY <2>1, <2>2, <2>3
  <1>4. \A d : HeardBefore(d)' <=> HeardBefore(d)
    BY DEF HeardBefore
  <1>5. \A a \in Injections : ToPush(a)' = ToPush(a)
    BY DEF ToPush
  <1>6. CASE pipe' = pipe
    BY <1>2, <1>3, <1>4, <1>5, <1>6 DEF OrderInv, HeardInOrder
  <1>7. CASE pipe' = <<>>
    <2>1. /\ Rising(pipe') /\ \A t : Precedes(pipe', t)
          /\ \A d : PrecedesOne(pipe', d) /\ \A i \in 1 .. Len(pipe') : HeardBefore(pipe'[i])
      BY <1>7 DEF Rising, Precedes, PrecedesOne
    <2> QED
      BY <1>2, <1>3, <1>4, <1>5, <2>1 DEF OrderInv, HeardInOrder
  <1> QED
    BY <1>6, <1>7

(* A chunk is written to the encoder.                                      *)
LEMMA Writing ==
    ASSUME OrderInv, StrTypeOK', buffer # <<>>, buffer' = Tail(buffer),
           pipe' = Append(pipe, Head(buffer)), UNCHANGED <<line, heard, injector>>
    PROVE  OrderInv'
  <1> DEFINE c == Head(buffer)
  <1>1. /\ line \in Seq(Chunk) /\ buffer \in Seq(Chunk) /\ pipe \in Seq(Chunk)
        /\ c \in Chunk /\ c = buffer[1] /\ Tail(buffer) \in Seq(Chunk) /\ Len(buffer) \in Nat \ {0}
    BY TailFacts DEF OrderInv, StrTypeOK
  <1>2. pipe' = Append(pipe, c)
    OBVIOUS
  <1> HIDE DEF c
  <1>3. /\ Rising(buffer') /\ Precedes(<<c>>, buffer') /\ Precedes(buffer', line)
        /\ Precedes(pipe, buffer') /\ PrecedesOne(pipe, c)
        /\ \A d : PrecedesOne(buffer, d) => PrecedesOne(buffer', d)
    BY <1>1, TailKeeps DEF OrderInv, c
  <1>4. Precedes(<<c>>, line) /\ \A d : PrecedesOne(buffer, d) => Before(c, d)
    BY <1>1 DEF OrderInv, Precedes, PrecedesOne
  <1>5. /\ Rising(pipe') /\ Precedes(pipe', buffer') /\ Precedes(pipe', line)
        /\ \A d : PrecedesOne(pipe, d) /\ Before(c, d) => PrecedesOne(pipe', d)
    BY <1>1, <1>2, <1>3, <1>4, AppendKeeps DEF OrderInv
  <1>6. \A i \in 1 .. Len(buffer') : HeardBefore(buffer'[i])
    BY <1>1, TailFacts DEF OrderInv
  <1>7. \A i \in 1 .. Len(pipe') : HeardBefore(pipe'[i])
    <2>1. \A i \in 1 .. Len(pipe') : pipe'[i] = c \/ (i \in 1 .. Len(pipe) /\ pipe'[i] = pipe[i])
      BY <1>1, <1>2
    <2>2. HeardBefore(c)
      BY <1>1 DEF OrderInv
    <2> QED
      BY <2>1, <2>2 DEF OrderInv
  <1>8. \A d : HeardBefore(d)' <=> HeardBefore(d)
    BY DEF HeardBefore
  <1>9. \A a \in Injections : ToPush(a)' = ToPush(a)
    BY DEF ToPush
  <1>10. \A a \in Injections : PrecedesOne(buffer', ToPush(a)) /\ PrecedesOne(pipe', ToPush(a))
    BY <1>3, <1>4, <1>5 DEF OrderInv
  <1> QED
    BY <1>3, <1>5, <1>6, <1>7, <1>8, <1>9, <1>10 DEF OrderInv, HeardInOrder

(* The encoder reads a chunk.                                              *)
LEMMA Hearing ==
    ASSUME OrderInv, StrTypeOK', pipe # <<>>, pipe' = Tail(pipe), Head(pipe) # Live,
           UNCHANGED <<line, buffer, injector>>,
           heard' = [heard EXCEPT ![Head(pipe).alert] = Append(@, Head(pipe).k)]
    PROVE  OrderInv'
  <1> DEFINE c == Head(pipe)
             a == c.alert
  <1>1. /\ line \in Seq(Chunk) /\ buffer \in Seq(Chunk) /\ pipe \in Seq(Chunk) /\ c \in Chunk /\ c = pipe[1]
        /\ Tail(pipe) \in Seq(Chunk) /\ Len(pipe) \in Nat \ {0}
    BY TailFacts DEF OrderInv, StrTypeOK
  <1>2. a \in Injections /\ c.k \in 1 .. Chunks
    BY <1>1 DEF Chunk
  <1>3. /\ heard[a] \in Seq(1 .. Chunks) /\ heard'[a] = Append(heard[a], c.k)
        /\ \A b \in Injections \ {a} : heard'[b] = heard[b]
    BY <1>2 DEF OrderInv, StrTypeOK
  <1>4. HeardBefore(c)
    BY <1>1 DEF OrderInv
  <1> HIDE DEF c, a
  <1>5. ASSUME NEW d, d.alert \in Injections, HeardBefore(d), Before(c, d) PROVE HeardBefore(d)'
    <2>1. CASE d.alert # a
      BY <1>3, <1>5, <2>1 DEF HeardBefore
    <2>2. CASE d.alert = a
      <3>1. ASSUME d # Live PROVE \A i \in 1 .. Len(heard'[a]) : heard'[a][i] < d.k
        <4>1. c.k < d.k
          BY <1>5, <2>2 DEF Before, a, c
        <4>2. \A i \in 1 .. Len(heard[a]) : heard[a][i] < d.k
          BY <1>5, <2>2, <3>1 DEF HeardBefore
        <4>3. \A i \in 1 .. Len(heard'[a]) : heard'[a][i] = c.k \/ (i \in 1 .. Len(heard[a]) /\ heard'[a][i] = heard[a][i])
          BY <1>2, <1>3
        <4> QED
          BY <4>1, <4>2, <4>3
      <3> QED
        BY <2>2, <3>1 DEF HeardBefore
    <2> QED
      BY <2>1, <2>2
  <1>6. ASSUME NEW d \in Chunk, HeardBefore(d), Before(c, d) PROVE HeardBefore(d)'
    <2>1. CASE d = Live
      BY <2>1 DEF HeardBefore
    <2>2. CASE d # Live
      <3>1. d.alert \in Injections
        BY <1>6, <2>2 DEF Chunk
      <3> QED
        BY <1>5, <1>6, <3>1
    <2> QED
      BY <2>1, <2>2
  <1>7. HeardInOrder'
    <2> SUFFICES ASSUME NEW b \in Injections, NEW i \in 1 .. Len(heard'[b]), NEW j \in 1 .. Len(heard'[b]), i < j
                 PROVE  heard'[b][i] < heard'[b][j]
      <3>1. \A b \in Injections : DOMAIN heard'[b] = 1 .. Len(heard'[b])
        BY DEF StrTypeOK
      <3> QED
        BY <3>1 DEF HeardInOrder
    <2>0. \A e \in Injections : DOMAIN heard[e] = 1 .. Len(heard[e])
      BY DEF OrderInv, StrTypeOK
    <2>1. CASE b # a
      BY <1>3, <2>0, <2>1 DEF OrderInv, HeardInOrder
    <2>2. CASE b = a
      <3>1. Len(heard[a]) \in Nat /\ Len(heard'[a]) = Len(heard[a]) + 1
            /\ heard'[a][Len(heard[a]) + 1] = c.k
            /\ \A n \in 1 .. Len(heard[a]) : heard'[a][n] = heard[a][n]
        BY <1>2, <1>3
      <3>2. i \in 1 .. Len(heard[a])
        BY <2>2, <3>1
      <3>3. CASE j \in 1 .. Len(heard[a])
        BY <1>2, <2>0, <2>2, <3>1, <3>2, <3>3 DEF OrderInv, HeardInOrder
      <3>4. CASE j = Len(heard[a]) + 1
        BY <1>4, <2>2, <3>1, <3>2, <3>4 DEF HeardBefore, a, c
      <3> QED
        BY <2>2, <3>1, <3>3, <3>4
    <2> QED
      BY <2>1, <2>2
  <1>8. /\ Rising(pipe') /\ Precedes(<<c>>, pipe') /\ Precedes(pipe', line) /\ Precedes(pipe', buffer)
        /\ \A d : PrecedesOne(pipe, d) => PrecedesOne(pipe', d)
    BY <1>1, TailKeeps DEF OrderInv, c
  <1>9. \A i \in 1 .. Len(pipe') : HeardBefore(pipe[i])'
    <2>1. \A i \in 1 .. Len(pipe') : /\ pipe'[i] \in Chunk /\ HeardBefore(pipe'[i])
                                       /\ Before(c, pipe'[i])
      <3>1. \A i \in 1 .. Len(pipe') : HeardBefore(pipe'[i])
        BY <1>1, TailFacts DEF OrderInv
      <3>2. \A i \in 1 .. Len(pipe') : Before(c, pipe'[i])
        BY <1>8 DEF Precedes
      <3> QED
        BY <1>1, <3>1, <3>2
    <2> QED
      BY <1>6, <2>1 DEF HeardBefore
  <1>10. \A i \in 1 .. Len(line') : HeardBefore(line[i])'
    <2>1. \A i \in 1 .. Len(line) : line[i] \in Chunk /\ HeardBefore(line[i]) /\ Before(c, line[i])
      BY <1>1 DEF OrderInv, Precedes
    <2> QED
      BY <1>6, <2>1 DEF HeardBefore
  <1>12. \A i \in 1 .. Len(buffer') : HeardBefore(buffer[i])'
    <2>1. \A i \in 1 .. Len(buffer) : buffer[i] \in Chunk /\ HeardBefore(buffer[i]) /\ Before(c, buffer[i])
      BY <1>1 DEF OrderInv, Precedes
    <2> QED
      BY <1>6, <2>1 DEF HeardBefore
  <1>11. ASSUME NEW b \in Injections
         PROVE  (/\ PrecedesOne(line, ToPush(b)) /\ PrecedesOne(buffer, ToPush(b))
                 /\ PrecedesOne(pipe, ToPush(b)) /\ HeardBefore(ToPush(b)))'
    <2>1. /\ PrecedesOne(line, ToPush(b)) /\ PrecedesOne(buffer, ToPush(b))
          /\ PrecedesOne(pipe, ToPush(b)) /\ HeardBefore(ToPush(b))
      BY DEF OrderInv
    <2>2. Before(c, ToPush(b)) /\ ToPush(b).alert = b
      BY <1>1, <2>1 DEF PrecedesOne, ToPush
    <2>3. HeardBefore(ToPush(b))'
      BY <1>5, <2>1, <2>2 DEF ToPush, HeardBefore
    <2>4. ToPush(b)' = ToPush(b)
      BY DEF ToPush
    <2> QED
      BY <1>8, <2>1, <2>3, <2>4 DEF PrecedesOne
  <1> QED
    BY <1>7, <1>8, <1>9, <1>10, <1>11, <1>12 DEF OrderInv

LEMMA LaterSteps ==
    ASSUME NEW c, NEW d, c # Live, d # Live, d.alert = c.alert, c.k \in Nat, d.k = c.k + 1, OrderInv,
           c.alert \in Injections
    PROVE  /\ \A s \in Seq(Chunk) : PrecedesOne(s, c) => PrecedesOne(s, d)
           /\ Before(c, d)
           /\ HeardBefore(c) => HeardBefore(d)
  <1>1. \A e \in Chunk : Before(e, c) => Before(e, d)
    BY StreamAssumption DEF Before, Chunk, Live
  <1>2. \A s \in Seq(Chunk) : \A i \in 1 .. Len(s) : s[i] \in Chunk
    OBVIOUS
  <1>3. \A s \in Seq(Chunk) : PrecedesOne(s, c) => PrecedesOne(s, d)
    BY <1>1, <1>2 DEF PrecedesOne
  <1>4. Before(c, d)
    BY DEF Before
  <1>5. ASSUME HeardBefore(c) PROVE HeardBefore(d)
    <2>0. heard[c.alert] \in Seq(1 .. Chunks)
      BY DEF OrderInv, StrTypeOK
    <2>1. \A i \in 1 .. Len(heard[c.alert]) : heard[c.alert][i] \in Nat
      BY <2>0, StreamAssumption
    <2> QED
      BY <1>5, <2>1 DEF HeardBefore
  <1> QED
    BY <1>3, <1>4, <1>5

LEMMA OrderKept == OrderInv /\ [StrNext]_strVars => OrderInv'
  <1> SUFFICES ASSUME OrderInv, [StrNext]_strVars PROVE OrderInv'
    OBVIOUS
  <1>t. StrTypeOK /\ StrTypeOK'
    BY StrTypeStep DEF OrderInv
  <1>c. line \in Seq(Chunk) /\ buffer \in Seq(Chunk) /\ pipe \in Seq(Chunk) /\ Live \in Chunk
    BY <1>t DEF StrTypeOK, Chunk
  <1>k. ASSUME NEW a \in Injections, NEW p, injector' = [injector EXCEPT ![a].at = p]
        PROVE  \A b \in Injections : injector'[b].k = injector[b].k
    BY <1>t, <1>k DEF StrTypeOK
  <1>f. ASSUME UNCHANGED <<heard, line, buffer, pipe>>, \A b \in Injections : injector'[b].k = injector[b].k
        PROVE  OrderInv'
    BY <1>t, <1>f, Shrinking
  <1>p. ASSUME PublishesLive PROVE OrderInv'
    <2>1. Publish(Live) /\ UNCHANGED <<heard, buffer, pipe, injector>>
      BY <1>p DEF PublishesLive, outVars
    <2>2. PrecedesOne(line, Live) /\ PrecedesOne(buffer, Live) /\ PrecedesOne(pipe, Live) /\ HeardBefore(Live)
      BY <1>c, LiveIsNowhere DEF PrecedesOne
    <2>3. /\ Rising(line') /\ Precedes(buffer, line') /\ Precedes(pipe, line')
          /\ \A i \in 1 .. Len(line') : HeardBefore(line'[i])
          /\ \A d : PrecedesOne(line, d) /\ Before(Live, d) => PrecedesOne(line', d)
      BY <1>c, <2>1, <2>2, Publishing
    <2>4. \A a \in Injections : Before(Live, ToPush(a))
      BY DEF Before
    <2> QED
      BY <1>t, <2>1, <2>3, <2>4 DEF OrderInv, HeardBefore, HeardInOrder, ToPush
  <1>1. CASE ReadLive
    BY <1>1, <1>f DEF ReadLive, outVars
  <1>2. CASE PublishLive
    BY <1>2, <1>p DEF PublishLive
  <1>3. CASE DrainTest
    BY <1>3, <1>p DEF DrainTest
  <1>4. ASSUME NEW a \in Injections, Bump(a) PROVE OrderInv'
    BY <1>4, <1>k, <1>f DEF Bump, outVars
  <1>5. ASSUME NEW a \in Injections, SetGate(a) PROVE OrderInv'
    BY <1>5, <1>k, <1>f DEF SetGate, outVars
  <1>6. ASSUME NEW a \in Injections, Flush(a) PROVE OrderInv'
    <2>1. \A b \in Injections : injector'[b].k = injector[b].k
      BY <1>6, <1>k DEF Flush
    <2> QED
      BY <1>6, <1>t, <2>1, Shrinking DEF Flush, outVars
  <1>7. ASSUME NEW a \in Injections, Push(a) PROVE OrderInv'
    <2> DEFINE c == ToPush(a)
               d == [alert |-> a, k |-> injector[a].k + 1]
    <2>1. c \in Chunk /\ Publish(c) /\ UNCHANGED <<heard, buffer, pipe>> /\ c.alert = a /\ d.alert = a
          /\ c.k = injector[a].k /\ d.k = injector[a].k + 1 /\ c # Live /\ d # Live /\ c.k \in Nat
      <3>1. injector[a].k \in 1 .. Chunks + 1
        BY <1>t DEF StrTypeOK
      <3>2. Publish(c) /\ UNCHANGED <<heard, buffer, pipe>> /\ injector[a].k \in 1 .. Chunks
        BY <1>7, <3>1, StreamAssumption DEF Push, ToPush, outVars
      <3>3. c \in Chunk
        BY <3>2 DEF ToPush, Chunk
      <3>4. c # Live /\ d # Live
        BY <3>2, StreamAssumption DEF ToPush, Live
      <3> QED
        BY <3>2, <3>3, <3>4, StreamAssumption DEF ToPush
    <2>2. ToPush(a)' = d /\ \A b \in Injections \ {a} : ToPush(b)' = ToPush(b)
      BY <1>7, <1>t DEF Push, ToPush, StrTypeOK
    <2>3. PrecedesOne(line, c) /\ PrecedesOne(buffer, c) /\ PrecedesOne(pipe, c) /\ HeardBefore(c)
      BY DEF OrderInv
    <2> HIDE DEF c, d
    <2>4. /\ \A s \in Seq(Chunk) : PrecedesOne(s, c) => PrecedesOne(s, d)
          /\ Before(c, d) /\ HeardBefore(d)
      BY <2>1, <2>3, LaterSteps
    <2>5. /\ Rising(line') /\ Precedes(buffer, line') /\ Precedes(pipe, line')
          /\ \A i \in 1 .. Len(line') : HeardBefore(line'[i])
          /\ \A e : PrecedesOne(line, e) /\ Before(c, e) => PrecedesOne(line', e)
      BY <2>1, <2>3, Publishing
    <2>6. PrecedesOne(line', d) /\ PrecedesOne(buffer, d) /\ PrecedesOne(pipe, d)
      BY <1>c, <2>3, <2>4, <2>5
    <2>7. \A b \in Injections \ {a} : PrecedesOne(line', ToPush(b))
      <3>1. \A b \in Injections \ {a} : Before(c, ToPush(b))
        BY <2>1 DEF Before, ToPush
      <3> QED
        BY <2>5, <3>1 DEF OrderInv
    <2>8. ASSUME NEW b \in Injections
          PROVE  (/\ PrecedesOne(line, ToPush(b)) /\ PrecedesOne(buffer, ToPush(b))
                  /\ PrecedesOne(pipe, ToPush(b)) /\ HeardBefore(ToPush(b)))'
      <3>1. /\ PrecedesOne(line', ToPush(b)') /\ PrecedesOne(buffer, ToPush(b)')
            /\ PrecedesOne(pipe, ToPush(b)') /\ HeardBefore(ToPush(b))'
        <4>1. CASE b = a
          BY <2>1, <2>2, <2>4, <2>6, <4>1 DEF HeardBefore
        <4>2. CASE b # a
          BY <2>1, <2>2, <2>7, <4>2 DEF HeardBefore, OrderInv
        <4> QED
          BY <4>1, <4>2
      <3> QED
        BY <2>1, <3>1 DEF PrecedesOne
    <2> QED
      BY <1>t, <2>1, <2>5, <2>8 DEF OrderInv, HeardBefore, HeardInOrder
  <1>8. ASSUME NEW a \in Injections, OpenGate(a) PROVE OrderInv'
    BY <1>8, <1>k, <1>f DEF OpenGate, outVars
  <1>9. CASE StartStreamer
    BY <1>9, <1>t, Shrinking DEF StartStreamer, outVars
  <1>10. CASE StopStreamer
    BY <1>10, <1>t, Shrinking DEF StopStreamer, EncoderEnds
  <1>11. CASE Prebuffer
    BY <1>11, <1>t, Moving DEF Prebuffer, outVars
  <1>12. CASE PrebufferEnds
    BY <1>12, <1>t, Shrinking DEF PrebufferEnds, outVars
  <1>13. CASE RestartEncoder
    BY <1>13, <1>f DEF RestartEncoder, outVars
  <1>14. CASE CheckSeq
    BY <1>14, <1>t, Shrinking DEF CheckSeq, outVars
  <1>15. CASE Take
    <2>1. CASE line # <<>>
      BY <1>15, <1>t, <2>1, Moving DEF Take, outVars
    <2>2. CASE line = <<>>
      BY <1>15, <1>f, <2>2 DEF Take, outVars
    <2> QED
      BY <2>1, <2>2
  <1>16. CASE Write
    <2>1. CASE buffer # <<>> /\ WriteReaches
      BY <1>16, <1>t, <2>1, Writing DEF Write, WriteReaches
    <2>2. CASE buffer # <<>> /\ WriteIsLost
      BY <1>16, <1>t, <2>2, Shrinking DEF Write, WriteIsLost
    <2>3. CASE UNCHANGED <<buffer, outVars>>
      BY <1>16, <1>f, <2>3 DEF Write, outVars
    <2> QED
      BY <1>16, <2>1, <2>2, <2>3 DEF Write, WriteRaises
  <1>17. CASE EncoderDies
    BY <1>17, <1>t, Shrinking DEF EncoderDies, EncoderEnds
  <1>19. CASE EncoderReads
    <2>1. pipe # <<>> /\ pipe' = Tail(pipe) /\ UNCHANGED <<line, buffer, injector>>
      BY <1>19 DEF EncoderReads
    <2>2. CASE Head(pipe) # Live
      BY <1>19, <1>t, <2>1, <2>2, Hearing DEF EncoderReads
    <2>3. CASE Head(pipe) = Live
      <3>1. heard' = heard
        BY <1>19, <2>3 DEF EncoderReads
      <3>2. /\ Rising(pipe') /\ Precedes(pipe', line) /\ Precedes(pipe', buffer)
            /\ \A d : PrecedesOne(pipe, d) => PrecedesOne(pipe', d)
        BY <1>c, <2>1, TailKeeps DEF OrderInv
      <3>3. \A i \in 1 .. Len(pipe') : HeardBefore(pipe'[i])
        BY <1>c, <2>1, TailFacts DEF OrderInv
      <3>4. \A d : HeardBefore(d)' <=> HeardBefore(d)
        BY <3>1 DEF HeardBefore
      <3>5. \A a \in Injections : ToPush(a)' = ToPush(a)
        BY <2>1 DEF ToPush
      <3> QED
        BY <1>t, <2>1, <3>1, <3>2, <3>3, <3>4, <3>5 DEF OrderInv, HeardInOrder
    <2> QED
      BY <2>2, <2>3
  <1>18. CASE UNCHANGED strVars
    BY <1>18, <1>f DEF strVars, outVars
  <1> QED
    BY <1>1, <1>2, <1>3, <1>4, <1>5, <1>6, <1>7, <1>8, <1>9, <1>10, <1>11, <1>12, <1>13,
       <1>14, <1>15, <1>16, <1>17, <1>18, <1>19 DEF StrNext

(* Queue, buffer, gate and counters are well typed, and queue and buffer   *)
(* within their limits, for any queue, buffer and alert                    *)
(* (icecast_output.py:633).                                                *)
THEOREM StrTypeCorrect == StrSpec => []StrTypeOK
  BY StrTypeInit, StrTypeStep, PTL DEF StrSpec

(* Whatever is flushed, dropped, restarted or injected at the same time,   *)
(* the listeners hear the chunks of an alert in their order and none twice *)
(* (icecast_output.py:670).                                                *)
THEOREM OrderCorrect == StrSpec => []HeardInOrder
  <1>1. OrderInv => HeardInOrder
    BY DEF OrderInv
  <1> QED
    BY OrderInit, OrderKept, <1>1, PTL DEF StrSpec

(***************************************************************************)
(* The gate: who holds it shut, and the one live chunk that was past it.   *)
(***************************************************************************)
OneAtATime == \A a, b \in Injections :
                 injector[a].at # "ready" /\ injector[b].at # "ready" => a = b
ShutByOne == gate <=> \E a \in Injections : injector[a].at \in {"flushing", "pushing"}

MixInv ==
    /\ StrTypeOK
    /\ ~upset => /\ OneAtATime
                 /\ ShutByOne
                 /\ \A a \in Injections : injector[a].at = "bumped" => mixed = 0
                 /\ gate /\ held => mixed = 0
                 /\ OneLiveAmongAlert

LEMMA MixInit == StrInit => MixInv
  BY StrTypeInit DEF StrInit, MixInv, OneAtATime, ShutByOne, OneLiveAmongAlert

LEMMA MixStep == MixInv /\ [StrNext]_strVars => MixInv'
  <1> SUFFICES ASSUME MixInv, [StrNext]_strVars, ~upset' PROVE MixInv'
    BY StrTypeStep DEF MixInv
  <1>t. StrTypeOK /\ StrTypeOK'
    BY StrTypeStep DEF MixInv
  <1>m. mixed \in Nat
    BY <1>t DEF StrTypeOK
  <1>a. ASSUME NEW a \in Injections, NEW p, injector' = [injector EXCEPT ![a].at = p]
        PROVE  injector'[a].at = p /\ \A b \in Injections \ {a} : injector'[b] = injector[b]
    BY <1>t, <1>a DEF StrTypeOK
  <1>f. ASSUME UNCHANGED <<injector, gate, mixed>>, ~upset, held' => ~gate \/ held PROVE MixInv'
    BY <1>t, <1>f DEF MixInv, OneAtATime, ShutByOne, OneLiveAmongAlert
  <1>1. CASE ReadLive
    BY <1>1, <1>f DEF ReadLive
  <1>2. CASE PublishLive
    <2>1. ~upset /\ held /\ ~held' /\ UNCHANGED <<injector, gate>>
      BY <1>2 DEF PublishLive, PublishesLive
    <2>2. CASE \E a \in Injections : Pushed(a)
      <3>1. gate /\ mixed = 0 /\ \A a \in Injections : injector[a].at # "bumped"
        BY <2>1, <2>2 DEF MixInv, ShutByOne, OneAtATime, Pushed
      <3>2. mixed' <= 1
        BY <1>2, <3>1 DEF PublishLive, PublishesLive
      <3> QED
        BY <1>t, <2>1, <3>1, <3>2 DEF MixInv, ShutByOne, OneAtATime, OneLiveAmongAlert
    <2>3. CASE ~\E a \in Injections : Pushed(a)
      <3>1. mixed' = mixed
        BY <1>2, <2>3 DEF PublishLive, PublishesLive
      <3> QED
        BY <1>f, <2>1, <3>1
    <2> QED
      BY <2>2, <2>3
  <1>3. CASE DrainTest
    BY <1>3 DEF DrainTest
  <1>4. ASSUME NEW a \in Injections, Bump(a) PROVE MixInv'
    <2>1. /\ ~upset /\ \A b \in Injections : injector[b].at = "ready"
          /\ UNCHANGED <<gate, held>> /\ mixed' = 0
      BY <1>4 DEF Bump
    <2>2. injector'[a].at = "bumped" /\ \A b \in Injections \ {a} : injector'[b] = injector[b]
      BY <1>4, <1>a DEF Bump
    <2> QED
      BY <1>t, <2>1, <2>2 DEF MixInv, OneAtATime, ShutByOne, OneLiveAmongAlert
  <1>5. ASSUME NEW a \in Injections, SetGate(a) PROVE MixInv'
    <2>1. ~upset /\ gate' /\ mixed' = mixed /\ mixed = 0 /\ injector[a].at = "bumped"
      BY <1>5 DEF SetGate, MixInv
    <2>2. injector'[a].at = "flushing" /\ \A b \in Injections \ {a} : injector'[b] = injector[b]
      BY <1>5, <1>a DEF SetGate
    <2> QED
      BY <1>t, <2>1, <2>2 DEF MixInv, OneAtATime, ShutByOne, OneLiveAmongAlert
  <1>6. ASSUME NEW a \in Injections, Flush(a) PROVE MixInv'
    <2>1. ~upset /\ UNCHANGED <<gate, held, mixed>> /\ injector[a].at = "flushing"
      BY <1>6 DEF Flush
    <2>2. CASE injector' = injector
      BY <1>f, <2>1, <2>2
    <2>3. CASE injector' = [injector EXCEPT ![a].at = "pushing"]
      <3>1. injector'[a].at = "pushing" /\ \A b \in Injections \ {a} : injector'[b] = injector[b]
        BY <1>a, <2>3
      <3> QED
        BY <1>t, <2>1, <3>1 DEF MixInv, OneAtATime, ShutByOne, OneLiveAmongAlert
    <2> QED
      BY <1>6, <2>2, <2>3 DEF Flush
  <1>7. ASSUME NEW a \in Injections, Push(a) PROVE MixInv'
    <2>1. ~upset /\ UNCHANGED <<gate, held, mixed>>
      BY <1>7 DEF Push
    <2>2. \A b \in Injections : injector'[b].at = injector[b].at
      BY <1>7, <1>t DEF Push, StrTypeOK
    <2> QED
      BY <1>t, <2>1, <2>2 DEF MixInv, OneAtATime, ShutByOne, OneLiveAmongAlert
  <1>8. ASSUME NEW a \in Injections, OpenGate(a) PROVE MixInv'
    <2>1. ~upset /\ ~gate' /\ mixed' = mixed /\ injector[a].at = "pushing"
      BY <1>8 DEF OpenGate
    <2>2. injector'[a].at = "done" /\ \A b \in Injections \ {a} : injector'[b] = injector[b]
      BY <1>8, <1>a DEF OpenGate
    <2> QED
      BY <1>t, <2>1, <2>2 DEF MixInv, OneAtATime, ShutByOne, OneLiveAmongAlert
  <1>9. CASE StartStreamer
    BY <1>9, <1>f DEF StartStreamer
  <1>10. CASE StopStreamer
    BY <1>10 DEF StopStreamer
  <1>11. CASE Prebuffer \/ PrebufferEnds \/ RestartEncoder \/ CheckSeq \/ Write
         \/ EncoderDies \/ EncoderReads
    BY <1>11, <1>f DEF Prebuffer, PrebufferEnds, RestartEncoder, CheckSeq, Write, EncoderDies, EncoderReads
  <1>13. CASE Take
    <2>1. ~upset
      BY <1>13, Zenon DEF Take
    <2> QED
      BY <1>13, <1>f, <2>1 DEF Take
  <1>12. CASE UNCHANGED strVars
    BY <1>12, <1>f DEF strVars
  <1> QED
    BY <1>1, <1>2, <1>3, <1>4, <1>5, <1>6, <1>7, <1>8, <1>9, <1>10, <1>11, <1>12, <1>13 DEF StrNext

(* At most one live chunk gets in among those of an undisturbed alert, the *)
(* one that had passed the gate before it was set (ingest.py:342).         *)
THEOREM GateCorrect == StrSpec => []OneLiveAmongAlert
  <1>1. MixInv => OneLiveAmongAlert
    BY DEF MixInv, OneLiveAmongAlert
  <1> QED
    BY MixInit, MixStep, <1>1, PTL DEF StrSpec

(***************************************************************************)
(* What is lost of an alert that nothing disturbs.                         *)
(***************************************************************************)
In(s, a, n) == \E i \in 1 .. Len(s) : s[i].alert = a /\ s[i].k = n
Past(a, n) == \/ In(pipe, a, n)
              \/ \E i \in 1 .. Len(heard[a]) : heard[a][i] = n
              \/ \E c \in spoiled : c.alert = a /\ c.k = n
Kept(a, n) == In(line, a, n) \/ In(buffer, a, n) \/ Past(a, n)

LossInv ==
    /\ OrderInv
    /\ ~upset =>
         /\ OneAtATime
         /\ \A a \in Injections : injector[a].at # "ready" => Feeding
         /\ \A a \in Injections : injector[a].at \notin {"pushing", "done"} => injector[a].k = 1
         /\ seen # seqNo =>
              /\ \A a \in Injections : streamer = "reading" /\ injector[a].k >= 2 => In(line, a, 1)
              /\ \A a \in Injections, n \in 2 .. Chunks : ~In(buffer, a, n)
         /\ \A a \in Injections : \A n \in 2 .. injector[a].k - 1 : Kept(a, n)

LEMMA KeptIsEnough == LossInv => OnlyFirstLost
  <1> SUFFICES ASSUME LossInv, ~upset, NEW a \in Injections, NEW n \in 2 .. injector[a].k - 1
               PROVE  n \in Heard(a) \cup Pending(a) \cup Spoiled(a)
    BY DEF OnlyFirstLost
  <1>1. Kept(a, n)
    BY DEF LossInv
  <1>2. /\ DOMAIN line = 1 .. Len(line) /\ DOMAIN buffer = 1 .. Len(buffer)
        /\ DOMAIN pipe = 1 .. Len(pipe) /\ DOMAIN heard[a] = 1 .. Len(heard[a])
    BY DEF LossInv, OrderInv, StrTypeOK
  <1>3. In(line, a, n) \/ In(buffer, a, n) \/ In(pipe, a, n) => n \in Pending(a)
    BY <1>2 DEF In, Pending, Of
  <1>4. Past(a, n) => In(pipe, a, n) \/ n \in Heard(a) \/ n \in Spoiled(a)
    BY <1>2 DEF Past, Heard, Spoiled
  <1> QED
    BY <1>1, <1>3, <1>4 DEF Kept

LEMMA LossInit == StrInit => LossInv
  <1> SUFFICES ASSUME StrInit PROVE LossInv
    OBVIOUS
  <1>1. OrderInv
    BY OrderInit
  <1> QED
    BY <1>1 DEF StrInit, LossInv, OneAtATime

(* Of an alert that has not been pushed, nothing is on its way.            *)
LEMMA NothingYet ==
    ASSUME NEW a \in Injections, NEW s \in Seq(Chunk), PrecedesOne(s, [alert |-> a, k |-> 1]),
           NEW n \in 1 .. Chunks
    PROVE  ~In(s, a, n)
  <1>1. \A e : Before(e, [alert |-> a, k |-> 1]) => ~(e.alert = a /\ e.k = n)
    BY StreamAssumption DEF Before, Live
  <1> QED
    BY <1>1 DEF In, PrecedesOne

LEMMA InAppend ==
    ASSUME NEW s \in Seq(Chunk), NEW c \in Chunk, NEW a, NEW n
    PROVE  In(Append(s, c), a, n) <=> In(s, a, n) \/ (c.alert = a /\ c.k = n)
  <1>1. /\ Len(Append(s, c)) = Len(s) + 1 /\ Len(s) \in Nat /\ Append(s, c)[Len(s) + 1] = c
        /\ \A i \in 1 .. Len(s) : Append(s, c)[i] = s[i] /\ i \in 1 .. Len(s) + 1
        /\ \A i \in 1 .. Len(s) + 1 : i \in 1 .. Len(s) \/ i = Len(s) + 1
        /\ Len(s) + 1 \in 1 .. Len(s) + 1
    OBVIOUS
  <1> HIDE DEF Chunk
  <1>2. ASSUME In(Append(s, c), a, n) PROVE In(s, a, n) \/ (c.alert = a /\ c.k = n)
    BY <1>1, <1>2 DEF In
  <1>3. ASSUME In(s, a, n) PROVE In(Append(s, c), a, n)
    BY <1>1, <1>3 DEF In
  <1>4. ASSUME c.alert = a /\ c.k = n PROVE In(Append(s, c), a, n)
    BY <1>1, <1>4 DEF In
  <1> QED
    BY <1>2, <1>3, <1>4

LEMMA InTail ==
    ASSUME NEW s \in Seq(Chunk), s # <<>>, NEW a, NEW n
    PROVE  /\ In(s, a, n) => In(Tail(s), a, n) \/ (Head(s).alert = a /\ Head(s).k = n)
           /\ In(Tail(s), a, n) => In(s, a, n)
  <1>1. /\ Head(s) = s[1] /\ Len(s) \in Nat \ {0} /\ Len(Tail(s)) = Len(s) - 1
        /\ \A i \in 1 .. Len(Tail(s)) : Tail(s)[i] = s[i + 1] /\ i + 1 \in 1 .. Len(s)
    OBVIOUS
  <1>2. ASSUME In(s, a, n) PROVE In(Tail(s), a, n) \/ (Head(s).alert = a /\ Head(s).k = n)
    <2>1. PICK i \in 1 .. Len(s) : s[i].alert = a /\ s[i].k = n
      BY <1>2 DEF In
    <2>2. CASE i = 1
      BY <1>1, <2>1, <2>2
    <2>3. CASE i # 1
      <3>1. i - 1 \in 1 .. Len(Tail(s)) /\ (i - 1) + 1 = i
        BY <1>1, <2>3
      <3>2. Tail(s)[i - 1] = s[i]
        BY <1>1, <3>1
      <3> QED
        BY <2>1, <3>1, <3>2 DEF In
    <2> QED
      BY <2>2, <2>3
  <1>3. ASSUME In(Tail(s), a, n) PROVE In(s, a, n)
    BY <1>1, <1>3 DEF In
  <1> QED
    BY <1>2, <1>3

(* What was written to an encoder is heard, waits for it, or is spoiled.   *)
LEMMA PastStays ==
    ASSUME StrTypeOK, NEW a \in Injections, NEW n, Past(a, n),
           UNCHANGED outVars \/ EncoderEnds
    PROVE  Past(a, n)'
  <1>1. CASE UNCHANGED outVars
    BY <1>1 DEF outVars, Past, In
  <1>2. CASE EncoderEnds
    <2>1. heard' = heard /\ spoiled' = spoiled \cup AlertChunks(pipe)
      BY <1>2 DEF EncoderEnds
    <2>2. ASSUME In(pipe, a, n) PROVE \E c \in spoiled' : c.alert = a /\ c.k = n
      <3>1. PICK i \in 1 .. Len(pipe) : pipe[i].alert = a /\ pipe[i].k = n
        BY <2>2 DEF In
      <3>2. i \in DOMAIN pipe /\ pipe[i] # Live
        BY <3>1, StreamAssumption DEF Live, StrTypeOK
      <3> QED
        BY <2>1, <3>1, <3>2 DEF AlertChunks
    <2> QED
      BY <2>1, <2>2 DEF Past
  <1> QED
    BY <1>1, <1>2

LEMMA PastRead ==
    ASSUME StrTypeOK, EncoderReads, NEW a \in Injections, NEW n, Past(a, n)
    PROVE  Past(a, n)'
  <1>1. pipe \in Seq(Chunk) /\ pipe # <<>> /\ pipe' = Tail(pipe) /\ spoiled' = spoiled
        /\ heard \in [Injections -> Seq(1 .. Chunks)] /\ heard[a] \in Seq(1 .. Chunks)
    BY DEF EncoderReads, StrTypeOK
  <1>2. In(pipe, a, n) => In(pipe', a, n) \/ (Head(pipe).alert = a /\ Head(pipe).k = n)
    BY <1>1, InTail
  <1>3. ASSUME \/ \E i \in 1 .. Len(heard[a]) : heard[a][i] = n
               \/ Head(pipe).alert = a /\ Head(pipe).k = n
        PROVE  \E i \in 1 .. Len(heard'[a]) : heard'[a][i] = n
    <2>1. CASE Head(pipe) = Live
      <3>1. heard' = heard /\ Head(pipe).alert # a
        BY <2>1, StreamAssumption DEF EncoderReads, Live
      <3> QED
        BY <1>3, <3>1
    <2>2. CASE Head(pipe) # Live
      <3>1. heard' = [heard EXCEPT ![Head(pipe).alert] = Append(@, Head(pipe).k)]
        BY <2>2 DEF EncoderReads
      <3>2. CASE Head(pipe).alert # a
        BY <1>1, <1>3, <3>1, <3>2
      <3>3. CASE Head(pipe).alert = a
        <4>1. heard'[a] = Append(heard[a], Head(pipe).k)
          BY <1>1, <3>1, <3>3
        <4>2. /\ Len(heard'[a]) = Len(heard[a]) + 1 /\ Len(heard[a]) \in Nat
              /\ heard'[a][Len(heard[a]) + 1] = Head(pipe).k
              /\ \A i \in 1 .. Len(heard[a]) : heard'[a][i] = heard[a][i]
          BY <1>1, <4>1
        <4>3. 1 .. Len(heard[a]) \subseteq 1 .. Len(heard'[a]) /\ Len(heard[a]) + 1 \in 1 .. Len(heard'[a])
          BY <4>2
        <4> QED
          BY <1>3, <4>2, <4>3
      <3> QED
        BY <3>2, <3>3
    <2> QED
      BY <2>1, <2>2
  <1>4. Past(a, n)' <=> \/ In(pipe', a, n) \/ \E i \in 1 .. Len(heard'[a]) : heard'[a][i] = n
                        \/ \E c \in spoiled : c.alert = a /\ c.k = n
    BY <1>1 DEF Past, In
  <1> QED
    BY <1>2, <1>3, <1>4, Zenon DEF Past

LEMMA PastWritten ==
    ASSUME StrTypeOK, buffer # <<>>, WriteReaches \/ WriteIsLost, NEW a \in Injections, NEW n
    PROVE  /\ Past(a, n) => Past(a, n)'
           /\ Head(buffer).alert = a /\ Head(buffer).k = n => Past(a, n)'
  <1>1. pipe \in Seq(Chunk) /\ Head(buffer) \in Chunk
    BY TailFacts DEF StrTypeOK
  <1>2. CASE WriteReaches
    <2>1. pipe' = Append(pipe, Head(buffer)) /\ heard' = heard /\ spoiled' = spoiled
      BY <1>2 DEF WriteReaches
    <2>2. In(pipe', a, n) <=> In(pipe, a, n) \/ (Head(buffer).alert = a /\ Head(buffer).k = n)
      BY <1>1, <2>1, InAppend
    <2>3. Past(a, n)' <=> \/ In(pipe', a, n) \/ \E i \in 1 .. Len(heard[a]) : heard[a][i] = n
                          \/ \E c \in spoiled : c.alert = a /\ c.k = n
      BY <2>1 DEF Past, In
    <2> QED
      BY <2>2, <2>3, Zenon DEF Past
  <1>3. CASE WriteIsLost
    <2>1. pipe' = pipe /\ heard' = heard /\ spoiled' = spoiled \cup ({Head(buffer)} \ {Live})
      BY <1>3 DEF WriteIsLost
    <2>2. Head(buffer).alert = a => Head(buffer) # Live
      BY StreamAssumption DEF Live
    <2> QED
      BY <2>1, <2>2 DEF Past, In
  <1> QED
    BY <1>2, <1>3

(* The queue of a streamer that listens grows at its end, unless it is full. *)
LEMMA Growing ==
    ASSUME OrderInv, NEW c \in Chunk, Publish(c), ~Full, NEW a, NEW n
    PROVE  /\ In(line, a, n) => In(line', a, n)
           /\ Subscribed /\ c.alert = a /\ c.k = n => In(line', a, n)
  <1>1. line \in Seq(Chunk)
    BY DEF OrderInv, StrTypeOK
  <1>2. line' = line \/ line' = Append(line, c)
    BY DEF Publish
  <1>3. Subscribed => line' = Append(line, c)
    BY DEF Publish
  <1>4. In(Append(line, c), a, n) <=> In(line, a, n) \/ (c.alert = a /\ c.k = n)
    BY <1>1, InAppend
  <1> QED
    BY <1>2, <1>3, <1>4, Zenon

(* Nothing at the head of the queue overtakes the first chunk.             *)
LEMMA FirstIsFirst ==
    ASSUME OrderInv, NEW a \in Injections, In(line, a, 1), line # <<>>, Head(line).alert = a
    PROVE  ~(Head(line).k \in 2 .. Chunks)
  <1>1. line \in Seq(Chunk) /\ Head(line) = line[1] /\ Len(line) \in Nat \ {0} /\ a # 0
    BY StreamAssumption, TailFacts DEF OrderInv, StrTypeOK
  <1>2. PICK j \in 1 .. Len(line) : line[j].alert = a /\ line[j].k = 1
    BY DEF In
  <1>3. CASE j = 1
    BY <1>1, <1>2, <1>3, StreamAssumption
  <1>4. CASE j # 1
    <2>1. Before(line[1], line[j])
      BY <1>1, <1>4 DEF OrderInv, Rising
    <2> QED
      BY <1>1, <1>2, <2>1, StreamAssumption DEF Before, Live
  <1> QED
    BY <1>3, <1>4

(* Before the first chunk of any alert has been pushed there is nothing to lose. *)
LEMMA NothingToLose ==
    ASSUME OrderInv', OneAtATime',
           \A a \in Injections : injector'[a].k = 1,
           \A a \in Injections : injector'[a].at # "ready" => Feeding'
    PROVE  LossInv'
  <1>1. \A a \in Injections, n \in 2 .. Chunks : ~In(buffer', a, n)
    <2>1. buffer' \in Seq(Chunk)
      BY DEF OrderInv, StrTypeOK
    <2>2. \A a \in Injections : PrecedesOne(buffer', [alert |-> a, k |-> 1])
      BY DEF OrderInv, ToPush
    <2>3. \A n \in 2 .. Chunks : n \in 1 .. Chunks
      BY StreamAssumption
    <2> QED
      BY <2>1, <2>2, <2>3, NothingYet
  <1> QED
    BY <1>1 DEF LossInv, In

LEMMA LossStep == LossInv /\ [StrNext]_strVars => LossInv'
  <1> SUFFICES ASSUME LossInv, [StrNext]_strVars, ~upset' PROVE LossInv'
    BY OrderKept DEF LossInv
  <1>o. OrderInv /\ OrderInv' /\ StrTypeOK /\ StrTypeOK'
    BY OrderKept DEF LossInv, OrderInv
  <1>s. line \in Seq(Chunk) /\ buffer \in Seq(Chunk)
    BY <1>o DEF StrTypeOK
  <1>a. ASSUME NEW a \in Injections, NEW p, injector' = [injector EXCEPT ![a].at = p]
        PROVE  /\ injector'[a].at = p /\ injector'[a].k = injector[a].k
               /\ \A b \in Injections \ {a} : injector'[b] = injector[b]
    BY <1>o, <1>a DEF StrTypeOK
  <1>k. \A a \in Injections : injector[a].k - 1 \in Int /\ injector[a].k \in 1 .. Chunks + 1
    BY <1>o, StreamAssumption, SMTT(40) DEF StrTypeOK
  <1>2k. \A a \in Injections : 2 .. injector[a].k - 1 \subseteq 2 .. Chunks
    BY <1>k, StreamAssumption
  (* Nothing moves but a flag of the streamer or of the source. *)
  <1>f. ASSUME ~upset, UNCHANGED <<injector, line, buffer, seen, seqNo>>, Feeding => Feeding',
               streamer' = "reading" => streamer = "reading",
               \A a \in Injections : \A n : Past(a, n) => Past(a, n)'
        PROVE  LossInv'
    <2>1. \A a \in Injections : \A n : Kept(a, n) => Kept(a, n)'
      BY <1>f DEF Kept, In
    <2> QED
      BY <1>o, <1>f, <2>1 DEF LossInv, OneAtATime, In
  <1>g. UNCHANGED outVars \/ EncoderEnds => \A a \in Injections : \A n : Past(a, n) => Past(a, n)'
    BY <1>o, PastStays
  (* A live chunk is published. *)
  <1>p. ASSUME PublishesLive, ~upset, ~Full PROVE LossInv'
    <2>1. Publish(Live) /\ Live \in Chunk /\ UNCHANGED <<injector, buffer, outVars, seen, seqNo, streamer>>
      BY <1>p DEF PublishesLive, Chunk
    <2>2. \A a, n : In(line, a, n) => In(line', a, n)
      BY <1>o, <1>p, <2>1, Growing
    <2>5. \A a, n : Kept(a, n)' <=> In(line', a, n) \/ In(buffer, a, n) \/ Past(a, n)'
      BY <2>1 DEF Kept, In
    <2>3. \A a \in Injections : \A n : Kept(a, n) => Kept(a, n)'
      BY <1>g, <2>1, <2>2, <2>5, Zenon DEF Kept
    <2>4. \A a, n : In(buffer, a, n)' <=> In(buffer, a, n)
      BY <2>1 DEF In
    <2> QED
      BY <1>o, <1>p, <2>1, <2>2, <2>3, <2>4 DEF LossInv, OneAtATime, Feeding, In
  (* The streamer is not feeding, so no alert is under way. *)
  <1>n. ASSUME ~upset, ~Feeding, injector' = injector PROVE LossInv'
    <2>1. \A a \in Injections : injector'[a].at = "ready" /\ injector'[a].k = 1
      BY <1>n DEF LossInv
    <2>2. OneAtATime'
      BY <2>1 DEF OneAtATime
    <2> QED
      BY <1>o, <2>1, <2>2, NothingToLose
  <1>1. CASE ReadLive
    BY <1>1, <1>f, <1>g DEF ReadLive, Feeding
  <1>2. CASE PublishLive
    <2>1. ~upset /\ ~Full
      BY <1>2, Zenon DEF PublishLive
    <2> QED
      BY <1>2, <1>p, <2>1 DEF PublishLive
  <1>3. CASE DrainTest
    BY <1>3 DEF DrainTest
  <1>4. ASSUME NEW a \in Injections, Bump(a) PROVE LossInv'
    <2>1. ~upset /\ Feeding /\ injector[a].at = "ready" /\ \A b \in Injections \ {a} : injector[b].at = "ready"
      BY <1>4, Zenon DEF Bump
    <2>2. Feeding' /\ injector' = [injector EXCEPT ![a].at = "bumped"]
      BY <1>4, <2>1 DEF Bump, Feeding
    <2>3. injector'[a].k = injector[a].k /\ \A b \in Injections \ {a} : injector'[b] = injector[b]
      BY <1>a, <2>2
    <2>4. \A b \in Injections : injector[b].k = 1
      BY <2>1 DEF LossInv
    <2>5. OneAtATime'
      BY <2>1, <2>3 DEF OneAtATime
    <2> QED
      BY <1>o, <2>2, <2>3, <2>4, <2>5, NothingToLose
  <1>5. ASSUME NEW a \in Injections, ~upset, OneAtATime, Feeding', injector[a].at \notin {"pushing", "done", "ready"},
               NEW p \in {"flushing", "pushing"}, injector' = [injector EXCEPT ![a].at = p] \/ injector' = injector
        PROVE  LossInv'
    <2>1. \A b \in Injections : injector'[b].k = injector[b].k
      BY <1>5, <1>a
    <2>2. \A b \in Injections \ {a} : injector[b].at = "ready" /\ injector'[b] = injector[b]
      BY <1>5, <1>a DEF OneAtATime
    <2>3. \A b \in Injections : injector[b].k = 1
      BY <1>5, <2>2 DEF LossInv
    <2>4. OneAtATime'
      BY <2>2 DEF OneAtATime
    <2> QED
      BY <1>o, <1>5, <2>1, <2>3, <2>4, NothingToLose
  <1>6. ASSUME NEW a \in Injections, SetGate(a) \/ Flush(a) PROVE LossInv'
    <2>1. ~upset /\ injector[a].at \in {"bumped", "flushing"} /\ streamer' = streamer
      BY <1>6 DEF SetGate, Flush
    <2>2. Feeding' /\ OneAtATime
      BY <2>1 DEF LossInv, Feeding
    <2>3. \E p \in {"flushing", "pushing"} : injector' = [injector EXCEPT ![a].at = p] \/ injector' = injector
      BY <1>6 DEF SetGate, Flush
    <2> QED
      BY <1>5, <2>1, <2>2, <2>3
  <1>7. ASSUME NEW a \in Injections, Push(a) PROVE LossInv'
    <2> DEFINE c == [alert |-> a, k |-> injector[a].k]
    <2>1. ~upset /\ ~Full
      BY <1>7, Zenon DEF Push
    <2>2. /\ injector[a].at = "pushing" /\ c \in Chunk /\ Publish(c)
          /\ UNCHANGED <<buffer, outVars, seen, seqNo, streamer>>
      BY <1>7, <1>k DEF Push, Chunk
    <2>3. /\ injector'[a].at = "pushing" /\ injector'[a].k = injector[a].k + 1
          /\ \A b \in Injections \ {a} : injector'[b] = injector[b]
      BY <1>7, <1>o DEF Push, StrTypeOK
    <2>4. Feeding /\ Feeding' /\ Subscribed
      BY <2>1, <2>2 DEF LossInv, Feeding, Subscribed
    <2>5. \A b, n : In(line, b, n) => In(line', b, n)
      BY <1>o, <2>1, <2>2, Growing
    <2>6. In(line', a, injector[a].k)
      BY <1>o, <2>1, <2>2, <2>4, Growing
    <2>12. \A b, n : Kept(b, n)' <=> In(line', b, n) \/ In(buffer, b, n) \/ Past(b, n)'
      BY <2>2 DEF Kept, In
    <2>7. \A b \in Injections : \A n : Kept(b, n) => Kept(b, n)'
      BY <1>g, <2>2, <2>5, <2>12, Zenon DEF Kept
    <2>8. \A b \in Injections : \A n \in 2 .. injector'[b].k - 1 : Kept(b, n)'
      <3>1. ASSUME NEW n \in 2 .. injector'[a].k - 1 PROVE Kept(a, n)'
        <4>1. CASE n = injector[a].k
          BY <2>6, <4>1 DEF Kept, In
        <4>2. CASE n # injector[a].k
          <5>1. n \in 2 .. injector[a].k - 1
            BY <1>k, <2>3, <4>2
          <5> QED
            BY <2>1, <2>7, <5>1 DEF LossInv
        <4> QED
          BY <4>1, <4>2
      <3> QED
        BY <2>1, <2>3, <2>7, <3>1 DEF LossInv
    <2>9. ASSUME seen' # seqNo', NEW b \in Injections, streamer' = "reading", injector'[b].k >= 2
          PROVE  In(line', b, 1)
      <3>1. CASE b = a /\ injector[a].k = 1
        BY <2>6, <3>1
      <3>2. CASE ~(b = a /\ injector[a].k = 1)
        <4>1. injector[b].k >= 2
          BY <1>k, <2>3, <2>9, <3>2
        <4> QED
          BY <2>1, <2>2, <2>5, <2>9, <4>1 DEF LossInv
      <3> QED
        BY <3>1, <3>2
    <2>10. \A b, n : In(buffer, b, n)' <=> In(buffer, b, n)
      BY <2>2 DEF In
    <2>11. OneAtATime'
      BY <2>1, <2>2, <2>3 DEF LossInv, OneAtATime
    <2> QED
      BY <1>o, <2>1, <2>2, <2>3, <2>4, <2>8, <2>9, <2>10, <2>11 DEF LossInv, In
  <1>8. ASSUME NEW a \in Injections, OpenGate(a) PROVE LossInv'
    <2>1. ~upset /\ UNCHANGED <<line, buffer, outVars, seen, seqNo, streamer>> /\ injector[a].at = "pushing"
      BY <1>8 DEF OpenGate
    <2>2. /\ injector'[a].at = "done" /\ injector'[a].k = injector[a].k
          /\ \A b \in Injections \ {a} : injector'[b] = injector[b]
      BY <1>8, <1>a DEF OpenGate
    <2>3. \A b \in Injections : \A n : Kept(b, n) => Kept(b, n)'
      BY <1>g, <2>1 DEF Kept, In
    <2> QED
      BY <1>o, <2>1, <2>2, <2>3 DEF LossInv, OneAtATime, Feeding, In
  <1>9. CASE StartStreamer
    BY <1>9, <1>n DEF StartStreamer, Feeding
  <1>10. CASE StopStreamer
    BY <1>10 DEF StopStreamer
  <1>11. CASE Prebuffer \/ PrebufferEnds
    BY <1>11, <1>n DEF Prebuffer, PrebufferEnds, Feeding
  <1>12. CASE RestartEncoder \/ EncoderDies
    BY <1>12, <1>f, <1>g DEF RestartEncoder, EncoderDies, Feeding
  <1>17. CASE EncoderReads
    <2>1. \A a \in Injections : \A n : Past(a, n) => Past(a, n)'
      BY <1>o, <1>17, PastRead
    <2> QED
      BY <1>17, <1>f, <2>1 DEF EncoderReads, Feeding
  <1>13. CASE CheckSeq
    <2>1. ~upset /\ UNCHANGED <<injector, line, outVars, seqNo>> /\ seen' = seqNo' /\ Feeding'
      BY <1>13 DEF CheckSeq, Feeding
    <2>2. \A a \in Injections, n \in 2 .. Chunks : Kept(a, n) => Kept(a, n)'
      <3>1. CASE seen = seqNo
        BY <1>13, <1>g, <2>1, <3>1 DEF CheckSeq, Kept, In
      <3>2. CASE seen # seqNo
        BY <1>g, <2>1, <3>2 DEF LossInv, Kept, In
      <3> QED
        BY <3>1, <3>2
    <2> QED
      BY <1>2k, <1>o, <2>1, <2>2 DEF LossInv, OneAtATime
  <1>14. CASE Take
    <2>1. ~upset /\ (line = <<>> \/ Len(buffer) # BufferMax)
      BY <1>14, Zenon DEF Take
    <2>2. UNCHANGED <<injector, outVars, seen, seqNo>> /\ Feeding' /\ streamer = "reading" /\ streamer' = "writing"
      BY <1>14 DEF Take, Feeding
    <2>3. CASE line = <<>>
      BY <1>14, <1>f, <1>g, <2>1, <2>2, <2>3 DEF Take
    <2>4. CASE line # <<>>
      <3>1. line' = Tail(line) /\ buffer' = Append(buffer, Head(line)) /\ Head(line) \in Chunk
        BY <1>14, <1>s, <2>1, <2>4, TailFacts DEF Take, PutLast
      <3>2. \A a, n : In(line, a, n) => In(line', a, n) \/ (Head(line).alert = a /\ Head(line).k = n)
        BY <1>s, <2>4, <3>1, InTail
      <3>3. \A a, n : In(buffer', a, n) <=> In(buffer, a, n) \/ (Head(line).alert = a /\ Head(line).k = n)
        BY <1>s, <3>1, InAppend
      <3>6. \A a, n : Kept(a, n)' <=> In(line', a, n) \/ In(buffer', a, n) \/ Past(a, n)'
        BY <2>2 DEF Kept, In
      <3>4. ASSUME NEW a \in Injections, NEW n, Kept(a, n) PROVE Kept(a, n)'
        <4>1. CASE In(line, a, n)
          BY <3>2, <3>3, <3>6, <4>1, Zenon
        <4>2. CASE In(buffer, a, n)
          BY <3>3, <3>6, <4>2, Zenon
        <4>3. CASE Past(a, n)
          BY <1>g, <2>2, <3>6, <4>3, Zenon
        <4> QED
          BY <3>4, <4>1, <4>2, <4>3 DEF Kept
      <3>5. ASSUME seen # seqNo, NEW a \in Injections, NEW n \in 2 .. Chunks PROVE ~In(buffer', a, n)
        <4>1. ~In(buffer, a, n)
          BY <2>1, <3>5 DEF LossInv
        <4>2. CASE injector[a].k >= 2
          <5>1. In(line, a, 1)
            BY <2>1, <2>2, <3>5, <4>2 DEF LossInv
          <5>2. ~(Head(line).alert = a /\ Head(line).k = n)
            BY <1>o, <2>4, <5>1, FirstIsFirst
          <5> QED
            BY <3>3, <4>1, <5>2
        <4>3. CASE injector[a].k = 1
          <5>1. PrecedesOne(line, [alert |-> a, k |-> 1]) /\ n \in 1 .. Chunks
            BY <1>o, <4>3, StreamAssumption DEF OrderInv, ToPush
          <5>2. ~In(line, a, n)
            BY <1>s, <5>1, NothingYet
          <5>3. Head(line) = line[1] /\ 1 \in 1 .. Len(line)
            BY <1>s, <2>4
          <5>4. ~(Head(line).alert = a /\ Head(line).k = n)
            BY <5>2, <5>3 DEF In
          <5> QED
            BY <3>3, <4>1, <5>4, Zenon
        <4> QED
          BY <1>k, <4>2, <4>3
      <3> QED
        BY <1>o, <2>1, <2>2, <3>4, <3>5 DEF LossInv, OneAtATime, In
    <2> QED
      BY <2>3, <2>4
  <1>15. CASE Write
    <2>1. ~upset /\ UNCHANGED <<injector, line, seen, seqNo>> /\ Feeding' /\ streamer' = "top"
      BY <1>15 DEF Write, Feeding
    <2>2. CASE UNCHANGED <<buffer, outVars>>
      BY <1>15, <1>f, <1>g, <2>1, <2>2 DEF Write
    <2>3. CASE buffer # <<>> /\ (WriteReaches \/ WriteIsLost)
      <3>1. buffer' = Tail(buffer)
        BY <2>3 DEF WriteReaches, WriteIsLost
      <3>2. \A a, n : /\ In(buffer, a, n) => In(buffer', a, n) \/ (Head(buffer).alert = a /\ Head(buffer).k = n)
                      /\ In(buffer', a, n) => In(buffer, a, n)
        BY <1>s, <2>3, <3>1, InTail
      <3>3. \A a \in Injections : \A n : /\ Past(a, n) => Past(a, n)'
                                         /\ Head(buffer).alert = a /\ Head(buffer).k = n => Past(a, n)'
        BY <1>o, <2>3, PastWritten
      <3>6. \A a, n : Kept(a, n)' <=> In(line, a, n) \/ In(buffer', a, n) \/ Past(a, n)'
        BY <2>1 DEF Kept, In
      <3>4. \A a \in Injections : \A n : Kept(a, n) => Kept(a, n)'
        BY <3>2, <3>3, <3>6, Zenon DEF Kept
      <3> QED
        BY <1>o, <2>1, <3>2, <3>4 DEF LossInv, OneAtATime, In
    <2> QED
      BY <1>15, <2>2, <2>3 DEF Write, WriteRaises
  <1>16. CASE UNCHANGED strVars
    BY <1>16, <1>f, <1>g DEF strVars, Feeding
  <1> QED
    BY <1>1, <1>2, <1>3, <1>4, <1>6, <1>7, <1>8, <1>9, <1>10, <1>11, <1>12, <1>13,
       <1>14, <1>15, <1>16, <1>17 DEF StrNext

(* Of an undisturbed alert only the first chunk may be lost, the one that  *)
(* was read before the sequence number was looked at, and what was written *)
(* to an encoder that died before it read it                               *)
(* (icecast_output.py:645, :406, :674).                                    *)
THEOREM LossCorrect == StrSpec => []OnlyFirstLost
  BY LossInit, LossStep, KeptIsEnough, PTL DEF StrSpec

-----------------------------------------------------------------------------
(* Queues and adapters.                                                    *)

Started == \A p \in Publishers : /\ Busy(p) => published[p] # 0
                                 /\ phase[p] # "put" => Busy(p)
Bounded == \A q \in Adapters : Len(queues[q]) <= QueueLimit

RoomInv == QueueTypeOK /\ Started /\ Bounded /\ RoomAfterDrop

LEMMA SamplesTyped ==
    ASSUME NEW c \in ChunkOf
    PROVE  /\ Samples(c) \in Seq(Sample) /\ Len(Samples(c)) = ChunkLength
           /\ \A i \in 1 .. ChunkLength : /\ Samples(c)[i].by = c.by
                                          /\ Samples(c)[i].n = (c.n - 1) * ChunkLength + i
                                          /\ Samples(c)[i].n > (c.n - 1) * ChunkLength
                                          /\ Samples(c)[i].n <= c.n * ChunkLength
  <1>1. c.n \in 1 .. MaxPublished /\ c.by \in Publishers /\ ChunkLength \in Nat \ {0} /\ MaxPublished \in Nat
    BY QueueAssumption DEF ChunkOf
  <1>2. /\ (c.n - 1) * ChunkLength \in Nat /\ MaxPublished * ChunkLength \in Nat
        /\ c.n * ChunkLength = (c.n - 1) * ChunkLength + ChunkLength
        /\ c.n * ChunkLength <= MaxPublished * ChunkLength
    BY <1>1
  <1>3. ASSUME NEW i \in 1 .. ChunkLength
        PROVE  /\ (c.n - 1) * ChunkLength + i \in 1 .. MaxPublished * ChunkLength
               /\ (c.n - 1) * ChunkLength + i > (c.n - 1) * ChunkLength
               /\ (c.n - 1) * ChunkLength + i <= c.n * ChunkLength
    BY <1>1, <1>2
  <1>4. \A i \in 1 .. ChunkLength : [by |-> c.by, n |-> (c.n - 1) * ChunkLength + i] \in Sample
    BY <1>1, <1>3 DEF Sample
  <1> QED
    BY <1>1, <1>3, <1>4 DEF Samples

LEMMA RoomInit == QueueInit => RoomInv
  <1> SUFFICES ASSUME QueueInit PROVE RoomInv
    OBVIOUS
  <1>1. QueueTypeOK
    BY QueueAssumption DEF QueueInit, QueueTypeOK
  <1> QED
    BY <1>1, QueueAssumption DEF QueueInit, RoomInv, Started, Bounded, RoomAfterDrop, Busy

LEMMA DeliversTyped ==
    ASSUME RoomInv, NEW p \in Publishers, Busy(p), ~IsFull(Target(p)), Delivers(p)
    PROVE  /\ queues' \in [Adapters -> Seq(ChunkOf)] /\ todo' \in [Publishers -> Seq(Adapters)]
           /\ phase' \in [Publishers -> {"put", "drop", "again"}] /\ outrun' \in [Publishers -> BOOLEAN]
           /\ Bounded' /\ phase'[p] = "put"
           /\ \A r \in Publishers \ {p} : phase'[r] = phase[r] /\ todo'[r] = todo[r]
           /\ \A r \in Publishers \ {p} : Busy(r) /\ phase[r] = "again" /\ ~outrun'[r]
                                            => ~outrun[r] /\ Target(r) # Target(p)
           /\ \A q \in Adapters \ {Target(p)} : queues'[q] = queues[q]
           /\ queues'[Target(p)] = Append(queues[Target(p)], Newest(p)) /\ Newest(p) \in ChunkOf
           /\ todo'[p] = Tail(todo[p])
           /\ Target(p) \in Adapters
  <1>1. /\ queues \in [Adapters -> Seq(ChunkOf)] /\ todo \in [Publishers -> Seq(Adapters)]
        /\ published[p] \in 1 .. MaxPublished /\ phase \in [Publishers -> {"put", "drop", "again"}]
    BY DEF RoomInv, QueueTypeOK, Started
  <1>2. Target(p) \in Adapters /\ Tail(todo[p]) \in Seq(Adapters) /\ Newest(p) \in ChunkOf
    BY <1>1 DEF Target, Busy, Newest, ChunkOf
  <1>3. /\ queues' = [queues EXCEPT ![Target(p)] = Append(@, Newest(p))]
        /\ todo' = [todo EXCEPT ![p] = Tail(@)] /\ phase' = [phase EXCEPT ![p] = "put"]
    BY DEF Delivers
  <1>4. Append(queues[Target(p)], Newest(p)) \in Seq(ChunkOf)
        /\ Len(Append(queues[Target(p)], Newest(p))) <= QueueLimit
    BY <1>1, <1>2, QueueAssumption DEF IsFull, RoomInv, Bounded
  <1>5. outrun' \in [Publishers -> BOOLEAN]
    <2>1. \A r \in Publishers : (IF r = p THEN FALSE
             ELSE outrun[r] \/ (Busy(r) /\ phase[r] # "put" /\ Target(r) = Target(p))) \in BOOLEAN
      BY Zenon DEF RoomInv, QueueTypeOK
    <2> QED
      BY <2>1, Zenon DEF Delivers
  <1>6. \A r \in Publishers \ {p} :
           outrun'[r] = (outrun[r] \/ (Busy(r) /\ phase[r] # "put" /\ Target(r) = Target(p)))
    BY Zenon DEF Delivers
  <1>7. Bounded'
    BY <1>1, <1>2, <1>3, <1>4 DEF Bounded, RoomInv
  <1>8. \A r \in Publishers \ {p} : Busy(r) /\ phase[r] = "again" /\ ~outrun'[r]
                                            => ~outrun[r] /\ Target(r) # Target(p)
    <2>1. ASSUME NEW r \in Publishers \ {p}, Busy(r), phase[r] = "again", ~outrun'[r]
          PROVE  ~outrun[r] /\ Target(r) # Target(p)
      <3>1. ~(outrun[r] \/ (Busy(r) /\ phase[r] # "put" /\ Target(r) = Target(p)))
        BY <1>6, <2>1, Zenon
      <3>2. phase[r] # "put"
        BY <2>1
      <3> QED
        BY <2>1, <3>1, <3>2, Zenon
    <2> QED
      BY <2>1
  <1>9. \A q \in Adapters \ {Target(p)} : queues'[q] = queues[q]
    BY <1>1, <1>3
  <1> QED
    BY <1>1, <1>2, <1>3, <1>4, <1>5, <1>7, <1>8, <1>9

LEMMA RoomStep == RoomInv /\ [QueueNext]_queueVars => RoomInv'
  <1> SUFFICES ASSUME RoomInv, [QueueNext]_queueVars PROVE RoomInv'
    OBVIOUS
  <1>t. QueueTypeOK /\ Started /\ Bounded /\ RoomAfterDrop
    BY DEF RoomInv
  <1>s. \A q \in Adapters : queues[q] # <<>> =>
            /\ Tail(queues[q]) \in Seq(ChunkOf) /\ Len(Tail(queues[q])) < QueueLimit
            /\ Len(Tail(queues[q])) <= QueueLimit /\ Head(queues[q]) \in ChunkOf
    <2>1. ASSUME NEW q \in Adapters, queues[q] # <<>>
          PROVE  /\ Tail(queues[q]) \in Seq(ChunkOf) /\ Len(Tail(queues[q])) < QueueLimit
                 /\ Len(Tail(queues[q])) <= QueueLimit /\ Head(queues[q]) \in ChunkOf
      <3>1. queues[q] \in Seq(ChunkOf) /\ Len(queues[q]) <= QueueLimit
        BY <1>t DEF QueueTypeOK, Bounded
      <3> QED
        BY <2>1, <3>1, QueueAssumption
    <2> QED
      BY <2>1
  (* The publishers are left alone, the queues only get shorter. *)
  <1>f. ASSUME UNCHANGED publisherVars, QueueTypeOK',
               \A q \in Adapters : queues'[q] = queues[q] \/ Len(queues'[q]) < QueueLimit
        PROVE  RoomInv'
    <2>1. \A p \in Publishers : Busy(p) => Target(p) \in Adapters
      BY <1>t DEF QueueTypeOK, Busy, Target
    <2>4. Bounded'
      <3>1. \A q \in Adapters : Len(queues'[q]) \in Nat
        BY <1>f DEF QueueTypeOK
      <3> QED
        BY <1>t, <1>f, <3>1, QueueAssumption DEF Bounded
    <2>5. Started'
      BY <1>t, <1>f DEF Started, Busy, publisherVars
    <2>2. Bounded' /\ Started'
      BY <2>4, <2>5
    <2>3. RoomAfterDrop'
      <3>1. SUFFICES ASSUME NEW p \in Publishers, Busy(p), phase[p] = "again", ~outrun[p]
                     PROVE  ~IsFull(Target(p))'
        BY <1>f DEF RoomAfterDrop, publisherVars, Busy
      <3>2. ~IsFull(Target(p)) /\ Target(p) \in Adapters /\ Target(p)' = Target(p)
        BY <1>f, <1>t, <2>1, <3>1 DEF RoomAfterDrop, publisherVars, Target
      <3> QED
        BY <1>f, <3>2, QueueAssumption DEF IsFull
    <2> QED
      BY <1>f, <2>2, <2>3 DEF RoomInv
  <1>1. ASSUME NEW a \in Adapters, SubscribeNew(a) PROVE RoomInv'
    <2>1. NameOf[a] \in Names
      BY DEF Names
    <2>2. QueueTypeOK'
      BY <1>1, <1>t, <2>1 DEF SubscribeNew, QueueTypeOK, publisherVars, adapterVars
    <2> QED
      BY <1>1, <1>f, <2>2 DEF SubscribeNew
  <1>2. ASSUME NEW a \in Adapters, SubscribeAgain(a) PROVE RoomInv'
    <2>1. NameOf[a] \in Names /\ subscribers[NameOf[a]] \in Adapters
      BY <1>2, <1>t DEF Names, SubscribeAgain, QueueTypeOK
    <2>2. QueueTypeOK'
      BY <1>2, <1>t, <2>1 DEF SubscribeAgain, QueueTypeOK, publisherVars, adapterVars
    <2> QED
      BY <1>2, <1>f, <2>2 DEF SubscribeAgain
  <1>3. ASSUME NEW a \in Adapters, Unsubscribe(a) PROVE RoomInv'
    <2>2. QueueTypeOK'
      BY <1>3, <1>t DEF Unsubscribe, QueueTypeOK, publisherVars, adapterVars
    <2> QED
      BY <1>3, <1>f, <2>2 DEF Unsubscribe
  <1>4. ASSUME NEW a \in Adapters, Fill(a) PROVE RoomInv'
    <2> DEFINE q == uses[a]
    <2>1. /\ q \in Adapters /\ queues[q] # <<>> /\ queues' = [queues EXCEPT ![q] = Tail(@)]
          /\ chunkList' = [chunkList EXCEPT ![a] = @ \o Samples(Head(queues[q]))]
          /\ UNCHANGED <<subscribers, uses, publisherVars, given, overrun>>
      BY <1>4 DEF Fill
    <2>2. Samples(Head(queues[q])) \in Seq(Sample)
      BY <1>s, <2>1, SamplesTyped
    <2>3. chunkList[a] \o Samples(Head(queues[q])) \in Seq(Sample)
      <3>1. chunkList[a] \in Seq(Sample)
        BY <1>t DEF QueueTypeOK
      <3> QED
        BY <2>2, <3>1
    <2>4. QueueTypeOK'
      BY <1>t, <1>s, <2>1, <2>3 DEF QueueTypeOK, publisherVars
    <2>5. \A r \in Adapters : queues'[r] = queues[r] \/ Len(queues'[r]) < QueueLimit
      BY <1>t, <1>s, <2>1 DEF QueueTypeOK
    <2> QED
      BY <1>f, <2>1, <2>4, <2>5
  <1>5. ASSUME NEW a \in Adapters, Serve(a) PROVE RoomInv'
    <2>1. /\ chunkList[a] \in Seq(Sample) /\ given[a] \in Seq(Sample) /\ Wanted \in Nat \ {0}
          /\ Len(chunkList[a]) >= Wanted
      BY <1>5, <1>t, QueueAssumption DEF QueueTypeOK, Serve
    <2>2. SubSeq(chunkList[a], 1, Wanted) \in Seq(Sample)
      BY <2>1
    <2>3. given[a] \o SubSeq(chunkList[a], 1, Wanted) \in Seq(Sample)
      BY <2>1, <2>2
    <2>4. Remaining(chunkList[a]) \in Seq(Sample)
      BY <2>1 DEF Remaining
    <2>5. QueueTypeOK'
      BY <1>5, <1>t, <2>3, <2>4 DEF QueueTypeOK, Serve, publisherVars
    <2> QED
      BY <1>5, <1>f, <2>5 DEF Serve
  <1>b. \A p \in Publishers : Busy(p) => Target(p) \in Adapters /\ Tail(todo[p]) \in Seq(Adapters)
    BY <1>t DEF QueueTypeOK, Busy, Target
  (* A publisher delivers. *)
  <1>d. ASSUME NEW p \in Publishers, Busy(p), ~IsFull(Target(p)), Delivers(p),
               UNCHANGED <<subscribers, uses, published, adapterVars, overrun>>
        PROVE  RoomInv'
    <2>1. /\ queues' \in [Adapters -> Seq(ChunkOf)] /\ todo' \in [Publishers -> Seq(Adapters)]
          /\ phase' \in [Publishers -> {"put", "drop", "again"}] /\ outrun' \in [Publishers -> BOOLEAN]
          /\ Bounded' /\ phase'[p] = "put"
          /\ \A r \in Publishers \ {p} : phase'[r] = phase[r] /\ todo'[r] = todo[r]
          /\ \A r \in Publishers \ {p} : Busy(r) /\ phase[r] = "again" /\ ~outrun'[r]
                                           => ~outrun[r] /\ Target(r) # Target(p)
          /\ \A q \in Adapters \ {Target(p)} : queues'[q] = queues[q]
          /\ published' = published
      BY <1>d, DeliversTyped
    <2>2. QueueTypeOK'
      BY <1>d, <1>t, <2>1 DEF QueueTypeOK, adapterVars
    <2>3. Started'
      BY <1>t, <1>d, <2>1 DEF Started, Busy
    <2>4. RoomAfterDrop'
      BY <1>t, <1>b, <2>1 DEF RoomAfterDrop, Busy, Target, IsFull
    <2> QED
      BY <2>1, <2>2, <2>3, <2>4 DEF RoomInv
  (* A publisher gives up. *)
  <1>g. ASSUME NEW p \in Publishers, Busy(p), GivesUp(p),
               UNCHANGED <<subscribers, uses, published, adapterVars>>
        PROVE  RoomInv'
    <2>1. /\ todo' = [todo EXCEPT ![p] = Tail(@)] /\ phase' = [phase EXCEPT ![p] = "put"]
          /\ outrun' = [outrun EXCEPT ![p] = FALSE] /\ overrun' = overrun \cup {Target(p)}
          /\ queues' = queues
      BY <1>g DEF GivesUp
    <2>2. QueueTypeOK'
      BY <1>b, <1>g, <1>t, <2>1 DEF QueueTypeOK, adapterVars
    <2>3. phase'[p] = "put" /\ \A r \in Publishers \ {p} :
              phase'[r] = phase[r] /\ todo'[r] = todo[r] /\ outrun'[r] = outrun[r]
      BY <1>t, <2>1 DEF QueueTypeOK
    <2>4. Started' /\ Bounded' /\ RoomAfterDrop'
      BY <1>t, <1>g, <2>1, <2>3 DEF Started, Bounded, RoomAfterDrop, Busy, Target, IsFull
    <2> QED
      BY <2>2, <2>4 DEF RoomInv
  (* A publisher goes on to the next call. *)
  <1>h. ASSUME NEW p \in Publishers, Busy(p), NEW ph \in {"drop", "again"},
               phase' = [phase EXCEPT ![p] = ph], UNCHANGED <<published, todo, outrun>>, QueueTypeOK',
               \A q \in Adapters : queues'[q] = queues[q] \/ Len(queues'[q]) < QueueLimit,
               ph = "again" => Len(queues'[Target(p)]) < QueueLimit
        PROVE  RoomInv'
    <2>1. phase'[p] = ph /\ \A r \in Publishers \ {p} : phase'[r] = phase[r]
      BY <1>h, <1>t DEF QueueTypeOK
    <2>4. Bounded'
      <3>1. \A q \in Adapters : Len(queues'[q]) \in Nat
        BY <1>h DEF QueueTypeOK
      <3> QED
        BY <1>t, <1>h, <3>1, QueueAssumption DEF Bounded
    <2>5. Started'
      BY <1>t, <1>h, <2>1 DEF Started, Busy
    <2>2. Bounded' /\ Started'
      BY <2>4, <2>5
    <2>3. RoomAfterDrop'
      <3> SUFFICES ASSUME NEW r \in Publishers, Busy(r), phase'[r] = "again", ~outrun[r]
                   PROVE  ~IsFull(Target(r))'
        BY <1>h DEF RoomAfterDrop, Busy
      <3>1. Target(r) \in Adapters /\ Target(r)' = Target(r)
        BY <1>b, <1>h DEF Target
      <3>2. CASE r = p
        BY <1>h, <2>1, <3>1, <3>2, QueueAssumption DEF IsFull
      <3>3. CASE r # p
        <4>1. ~IsFull(Target(r))
          BY <1>t, <2>1, <3>3 DEF RoomAfterDrop
        <4> QED
          BY <1>h, <3>1, <4>1, QueueAssumption DEF IsFull
      <3> QED
        BY <3>2, <3>3
    <2> QED
      BY <1>h, <2>2, <2>3 DEF RoomInv
  <1>6. ASSUME NEW p \in Publishers, Begins(p) PROVE RoomInv'
    <2>0. PICK n \in 0 .. Cardinality(Names) :
             \E t \in [1 .. n -> Adapters] : todo' = [todo EXCEPT ![p] = t]
      BY <1>6 DEF Begins
    <2>1. PICK t \in [1 .. n -> Adapters] : todo' = [todo EXCEPT ![p] = t]
      BY <2>0
    <2>2. /\ ~Busy(p) /\ published[p] < MaxPublished /\ published' = [published EXCEPT ![p] = @ + 1]
          /\ UNCHANGED <<subscribers, queues, uses, phase, outrun, chunkList, given, overrun>>
      BY <1>6 DEF Begins
    <2>3. t \in Seq(Adapters)
      <3>1. n \in Nat
        OBVIOUS
      <3> QED
        BY <3>1, SeqDef
    <2>4. published[p] + 1 \in 1 .. MaxPublished
      BY <1>t, <2>2, QueueAssumption DEF QueueTypeOK
    <2>5. published' \in [Publishers -> 0 .. MaxPublished]
      BY <1>t, <2>2, <2>4, QueueAssumption DEF QueueTypeOK
    <2>6. todo' \in [Publishers -> Seq(Adapters)]
      BY <1>t, <2>1, <2>3 DEF QueueTypeOK
    <2>7. QueueTypeOK'
      BY <1>t, <2>2, <2>5, <2>6 DEF QueueTypeOK
    <2>8. published'[p] = published[p] + 1 /\ \A r \in Publishers \ {p} : published'[r] = published[r] /\ todo'[r] = todo[r]
      BY <1>t, <2>1, <2>2 DEF QueueTypeOK
    <2>9. phase[p] = "put"
      BY <1>t, <2>2 DEF Started
    <2>10. Started'
      BY <1>t, <2>2, <2>4, <2>8, <2>9 DEF Started, Busy
    <2>11. RoomAfterDrop' /\ Bounded'
      BY <1>t, <2>2, <2>8, <2>9 DEF RoomAfterDrop, Bounded, Busy, Target, IsFull
    <2> QED
      BY <2>7, <2>10, <2>11 DEF RoomInv
  <1>7. ASSUME NEW p \in Publishers, PutNoWait(p) PROVE RoomInv'
    <2>1. CASE IsFull(Target(p))
      <3>1. /\ Busy(p) /\ phase' = [phase EXCEPT ![p] = "drop"]
            /\ UNCHANGED <<queues, todo, outrun, subscribers, uses, published, adapterVars, overrun>>
        BY <1>7, <2>1 DEF PutNoWait
      <3>2. QueueTypeOK'
        BY <1>t, <3>1 DEF QueueTypeOK, adapterVars
      <3> QED
        BY <1>h, <3>1, <3>2
    <2>2. CASE ~IsFull(Target(p))
      BY <1>7, <1>d, <2>2 DEF PutNoWait
    <2> QED
      BY <2>1, <2>2
  <1>8. ASSUME NEW p \in Publishers, DropOldest(p) PROVE RoomInv'
    <2>1. CASE queues[Target(p)] = <<>>
      BY <1>8, <1>g, <2>1 DEF DropOldest
    <2>2. CASE queues[Target(p)] # <<>>
      <3>1. /\ Busy(p) /\ phase' = [phase EXCEPT ![p] = "again"]
            /\ queues' = [queues EXCEPT ![Target(p)] = Tail(@)] /\ overrun' = overrun \cup {Target(p)}
            /\ UNCHANGED <<todo, outrun, subscribers, uses, published, adapterVars>>
        BY <1>8, <2>2 DEF DropOldest
      <3>2. Target(p) \in Adapters
        BY <1>b, <3>1
      <3>3. QueueTypeOK'
        BY <1>t, <1>s, <2>2, <3>1, <3>2 DEF QueueTypeOK, adapterVars
      <3>4. /\ \A q \in Adapters : queues'[q] = queues[q] \/ Len(queues'[q]) < QueueLimit
            /\ Len(queues'[Target(p)]) < QueueLimit
        BY <1>t, <1>s, <2>2, <3>1, <3>2 DEF QueueTypeOK
      <3> QED
        BY <1>h, <3>1, <3>3, <3>4
    <2> QED
      BY <2>1, <2>2
  <1>9. ASSUME NEW p \in Publishers, PutAgain(p) PROVE RoomInv'
    <2>1. CASE IsFull(Target(p))
      BY <1>9, <1>g, <2>1 DEF PutAgain
    <2>2. CASE ~IsFull(Target(p))
      BY <1>9, <1>d, <2>2 DEF PutAgain
    <2> QED
      BY <2>1, <2>2
  <1>10. CASE UNCHANGED queueVars
    <2>1. QueueTypeOK'
      BY <1>10, <1>t DEF queueVars, QueueTypeOK
    <2> QED
      BY <1>10, <1>f, <2>1 DEF queueVars, publisherVars
  <1> QED
    BY <1>1, <1>2, <1>3, <1>4, <1>5, <1>6, <1>7, <1>8, <1>9, <1>10 DEF QueueNext

(* Table, queues, publishers and adapters keep their types, for any number *)
(* of them and any sizes (broadcast_queue.py:149).                         *)
THEOREM QueueTypeCorrect == QueueSpec => []QueueTypeOK
  <1>1. RoomInv => QueueTypeOK
    BY DEF RoomInv
  <1> QED
    BY RoomInit, RoomStep, <1>1, PTL DEF QueueSpec

(* After the oldest chunk was dropped there is room for the newest unless  *)
(* another publisher took it, for any number of publishers and queues      *)
(* (broadcast_queue.py:166).                                               *)
THEOREM RoomCorrect == QueueSpec => []RoomAfterDrop
  <1>1. RoomInv => RoomAfterDrop
    BY DEF RoomInv
  <1> QED
    BY RoomInit, RoomStep, <1>1, PTL DEF QueueSpec

(***************************************************************************)
(* The order of what each listener has been given and will be given.       *)
(***************************************************************************)
Sorted(s) == \A i, j \in 1 .. Len(s) : i < j /\ s[i].by = s[j].by => s[i].n < s[j].n
Upto(s, p, m) == \A i \in 1 .. Len(s) : s[i].by = p => s[i].n <= m
Awaits(p, q) == \E i \in 1 .. Len(todo[p]) : todo[p][i] = q
Due(p, q) == IF Awaits(p, q) THEN published[p] - 1 ELSE published[p]
Taken(a) == given[a] \o chunkList[a]

(* What the queue q may hold, and what it holds, is in order. *)
ChunksInOrder == \A q \in Adapters : /\ Sorted(queues[q])
                                     /\ \A p \in Publishers : Upto(queues[q], p, Due(p, q))
OnceEach == \A p \in Publishers : \A i, j \in 1 .. Len(todo[p]) : todo[p][i] = todo[p][j] => i = j

(* What a listener has taken comes before what its queue holds and will hold. *)
TakenOK(a) ==
    /\ uses[a] = Nothing => given[a] = <<>> /\ chunkList[a] = <<>>
    /\ Sorted(Taken(a))
    /\ \A p \in Publishers : Upto(Taken(a), p, published[p] * ChunkLength)
    /\ uses[a] \in Adapters =>
         /\ \A p \in Publishers : Upto(Taken(a), p, Due(p, uses[a]) * ChunkLength)
         /\ \A j \in 1 .. Len(queues[uses[a]]) :
               Upto(Taken(a), queues[uses[a]][j].by, (queues[uses[a]][j].n - 1) * ChunkLength)
TakenInOrder == \A a \in Adapters : TakenOK(a)

StreamInv == RoomInv /\ OnceEach /\ ChunksInOrder /\ TakenInOrder

LEMMA Product ==
    ASSUME NEW m \in Nat, NEW n \in Nat, m <= n
    PROVE  m * ChunkLength \in Nat /\ n * ChunkLength \in Nat /\ m * ChunkLength <= n * ChunkLength
  <1>1. ChunkLength \in Nat /\ n - m \in Nat
    BY QueueAssumption
  <1>2. n * ChunkLength = m * ChunkLength + (n - m) * ChunkLength /\ (n - m) * ChunkLength \in Nat
    BY <1>1
  <1> QED
    BY <1>1, <1>2

LEMMA DueTyped ==
    ASSUME RoomInv, NEW p \in Publishers, NEW q
    PROVE  Due(p, q) \in Nat /\ Due(p, q) <= published[p] /\ published[p] \in Nat
  <1>1. published[p] \in Nat /\ todo[p] \in Seq(Adapters)
    BY QueueAssumption DEF RoomInv, QueueTypeOK
  <1>2. Awaits(p, q) => published[p] # 0
    BY <1>1 DEF Awaits, RoomInv, Started, Busy
  <1> QED
    BY <1>1, <1>2 DEF Due

LEMMA TakenTyped ==
    ASSUME RoomInv, NEW a \in Adapters
    PROVE  Taken(a) \in Seq(Sample) /\ chunkList[a] \in Seq(Sample) /\ given[a] \in Seq(Sample)
  BY DEF RoomInv, QueueTypeOK, Taken

LEMMA UptoMore ==
    ASSUME NEW S, NEW s \in Seq(S), \A x \in S : x.n \in Nat, NEW p, NEW m \in Nat, NEW n \in Nat, m <= n, Upto(s, p, m)
    PROVE  Upto(s, p, n)
  <1>1. \A i \in 1 .. Len(s) : s[i].n \in Nat
    OBVIOUS
  <1> QED
    BY <1>1 DEF Upto

LEMMA TailInOrder ==
    ASSUME NEW S, NEW s \in Seq(S), s # <<>>
    PROVE  /\ Sorted(s) => Sorted(Tail(s))
           /\ \A p, m : Upto(s, p, m) => Upto(Tail(s), p, m)
           /\ \A j \in 1 .. Len(Tail(s)) : j + 1 \in 1 .. Len(s) /\ Tail(s)[j] = s[j + 1]
           /\ Head(s) = s[1] /\ 1 \in 1 .. Len(s)
  <1>1. /\ Len(Tail(s)) = Len(s) - 1 /\ Len(s) \in Nat \ {0} /\ Head(s) = s[1]
        /\ \A i \in 1 .. Len(Tail(s)) : Tail(s)[i] = s[i + 1] /\ i + 1 \in 1 .. Len(s)
    OBVIOUS
  <1>2. Sorted(s) => Sorted(Tail(s))
    BY <1>1 DEF Sorted
  <1>3. ASSUME NEW p, NEW m, Upto(s, p, m) PROVE Upto(Tail(s), p, m)
    BY <1>1, <1>3 DEF Upto
  <1> QED
    BY <1>1, <1>2, <1>3

LEMMA StreamInit == QueueInit => StreamInv
  <1> SUFFICES ASSUME QueueInit PROVE StreamInv
    OBVIOUS
  <1>1. RoomInv
    BY RoomInit
  <1>2. \A a \in Adapters : given[a] = <<>> /\ chunkList[a] = <<>> /\ queues[a] = <<>> /\ uses[a] = Nothing
    BY DEF QueueInit
  <1>3. \A p \in Publishers : todo[p] = <<>>
    BY DEF QueueInit
  <1>4. \A a \in Adapters : Taken(a) = <<>>
    BY <1>2 DEF Taken
  <1>5. OnceEach
    BY <1>3 DEF OnceEach
  <1>6. ChunksInOrder
    BY <1>2 DEF ChunksInOrder, Sorted, Upto
  <1>7. TakenInOrder
    BY <1>2, <1>4 DEF TakenInOrder, TakenOK, Sorted, Upto
  <1> QED
    BY <1>1, <1>5, <1>6, <1>7 DEF StreamInv

(* Steps that take chunks from the queues or begin to publish. *)
LEMMA Draining ==
    ASSUME StreamInv, RoomInv',
           \A q \in Adapters : queues'[q] = queues[q] \/ (queues[q] # <<>> /\ queues'[q] = Tail(queues[q])),
           \A p \in Publishers, q \in Adapters : Due(p, q) <= Due(p, q)',
           \A p \in Publishers : published[p] <= published'[p]
    PROVE  /\ ChunksInOrder'
           /\ \A a \in Adapters :
                /\ Taken(a)' = Taken(a)
                /\ uses'[a] = Nothing => uses[a] = Nothing /\ given'[a] = given[a] /\ chunkList'[a] = chunkList[a]
                /\ uses'[a] \in Adapters => uses'[a] = uses[a] \/ uses[a] = Nothing
                => TakenOK(a)'
  <1>d. \A p \in Publishers, q \in Adapters : /\ Due(p, q) \in Nat /\ published[p] \in Nat
                                              /\ Due(p, q)' \in Nat /\ published'[p] \in Nat
    <2>1. \A p \in Publishers, q \in Adapters : Due(p, q) \in Nat /\ published[p] \in Nat
      BY DueTyped DEF StreamInv
    <2>2. ASSUME NEW p \in Publishers, NEW q \in Adapters PROVE Due(p, q)' \in Nat /\ published'[p] \in Nat
      <3>1. published'[p] \in Nat
        BY QueueAssumption DEF RoomInv, QueueTypeOK
      <3>2. Due(p, q)' \in Int
        BY <3>1 DEF Due
      <3>3. Due(p, q) <= Due(p, q)' /\ Due(p, q) \in Nat
        BY <2>1
      <3> QED
        BY <3>1, <3>2, <3>3
    <2> QED
      BY <2>1, <2>2
  <1>n. (\A x \in ChunkOf : x.n \in Nat) /\ (\A x \in Sample : x.n \in Nat)
    BY QueueAssumption DEF ChunkOf, Sample
  <1>q. \A q \in Adapters : queues[q] \in Seq(ChunkOf) /\ queues'[q] \in Seq(ChunkOf)
    BY DEF StreamInv, RoomInv, QueueTypeOK
  <1>1. ChunksInOrder'
    <2> SUFFICES ASSUME NEW q \in Adapters
                 PROVE  Sorted(queues'[q]) /\ \A p \in Publishers : Upto(queues'[q], p, Due(p, q)')
      BY DEF ChunksInOrder, Sorted, Upto
    <2>1. Sorted(queues[q]) /\ \A p \in Publishers : Upto(queues[q], p, Due(p, q))
      BY DEF StreamInv, ChunksInOrder
    <2>2. Sorted(queues'[q]) /\ \A p \in Publishers : Upto(queues'[q], p, Due(p, q))
      BY <1>q, <2>1, TailInOrder
    <2>3. \A p \in Publishers : Upto(queues'[q], p, Due(p, q)')
      BY <1>d, <1>n, <1>q, <2>2, UptoMore
    <2> QED
      BY <2>2, <2>3
  <1>2. ASSUME NEW a \in Adapters, Taken(a)' = Taken(a),
               uses'[a] = Nothing => uses[a] = Nothing /\ given'[a] = given[a] /\ chunkList'[a] = chunkList[a],
               uses'[a] \in Adapters => uses'[a] = uses[a] \/ uses[a] = Nothing
        PROVE  TakenOK(a)'
    <2> SUFFICES /\ uses'[a] = Nothing => given'[a] = <<>> /\ chunkList'[a] = <<>>
                 /\ Sorted(Taken(a)')
                 /\ \A p \in Publishers : Upto(Taken(a)', p, published'[p] * ChunkLength)
                 /\ uses'[a] \in Adapters =>
                      /\ \A p \in Publishers : Upto(Taken(a)', p, Due(p, uses[a])' * ChunkLength)
                      /\ \A j \in 1 .. Len(queues'[uses'[a]]) :
                           Upto(Taken(a)', queues'[uses'[a]][j].by, (queues'[uses'[a]][j].n - 1) * ChunkLength)
      BY DEF TakenOK, Sorted, Upto, Due, Awaits
    <2>t. Taken(a)' = Taken(a) /\ Taken(a) \in Seq(Sample)
      BY <1>2, TakenTyped DEF StreamInv
    <2>1. uses'[a] = Nothing => given'[a] = <<>> /\ chunkList'[a] = <<>>
      BY <1>2 DEF StreamInv, TakenInOrder, TakenOK
    <2>2. Sorted(Taken(a))
      BY DEF StreamInv, TakenInOrder, TakenOK
    <2>3. ASSUME NEW p \in Publishers PROVE Upto(Taken(a), p, published'[p] * ChunkLength)
      <3>1. /\ published[p] * ChunkLength \in Nat /\ published'[p] * ChunkLength \in Nat
            /\ published[p] * ChunkLength <= published'[p] * ChunkLength
        BY <1>d, Product
      <3>2. Upto(Taken(a), p, published[p] * ChunkLength)
        BY DEF StreamInv, TakenInOrder, TakenOK
      <3> QED
        BY <1>n, <2>t, <3>1, <3>2, UptoMore
    <2>4. CASE uses[a] = Nothing
      <3>1. Taken(a) = <<>>
        BY <2>4 DEF StreamInv, TakenInOrder, TakenOK, Taken
      <3> QED
        BY <2>1, <2>2, <2>3, <2>t, <3>1 DEF Upto
    <2>5. ASSUME uses'[a] \in Adapters, uses'[a] = uses[a]
          PROVE  /\ \A p \in Publishers : Upto(Taken(a), p, Due(p, uses[a])' * ChunkLength)
                 /\ \A j \in 1 .. Len(queues'[uses'[a]]) :
                      Upto(Taken(a), queues'[uses'[a]][j].by, (queues'[uses'[a]][j].n - 1) * ChunkLength)
      <3>0. PICK q \in Adapters : uses[a] = q /\ uses'[a] = q
        BY <2>5
      <3>1. /\ \A p \in Publishers : Upto(Taken(a), p, Due(p, q) * ChunkLength)
            /\ \A j \in 1 .. Len(queues[q]) :
                  Upto(Taken(a), queues[q][j].by, (queues[q][j].n - 1) * ChunkLength)
        BY <3>0 DEF StreamInv, TakenInOrder, TakenOK
      <3>2. \A j \in 1 .. Len(queues'[q]) :
                  Upto(Taken(a), queues'[q][j].by, (queues'[q][j].n - 1) * ChunkLength)
        <4>1. CASE queues'[q] = queues[q]
          BY <3>1, <4>1
        <4>2. CASE queues[q] # <<>> /\ queues'[q] = Tail(queues[q])
          <5>1. \A j \in 1 .. Len(queues'[q]) : j + 1 \in 1 .. Len(queues[q]) /\ queues'[q][j] = queues[q][j + 1]
            BY <1>q, <3>0, <4>2, TailInOrder
          <5> QED
            BY <3>1, <5>1
        <4> QED
          BY <3>0, <4>1, <4>2
      <3>3. ASSUME NEW p \in Publishers PROVE Upto(Taken(a), p, Due(p, q)' * ChunkLength)
        <4>1. Due(p, q) \in Nat /\ Due(p, q)' \in Nat /\ Due(p, q) <= Due(p, q)'
          BY <1>d, <3>0
        <4>2. /\ Due(p, q) * ChunkLength \in Nat /\ Due(p, q)' * ChunkLength \in Nat
              /\ Due(p, q) * ChunkLength <= Due(p, q)' * ChunkLength
          BY <4>1, Product
        <4> QED
          BY <1>n, <2>t, <3>1, <4>2, UptoMore
      <3>4. \A p \in Publishers : Due(p, uses[a])' = Due(p, q)'
        BY <3>0 DEF Due, Awaits
      <3> QED
        BY <3>0, <3>2, <3>3, <3>4
    <2> QED
      BY <1>2, <2>1, <2>2, <2>3, <2>4, <2>5, <2>t
  <1> QED
    BY <1>1, <1>2

(* A publication copies the table: each queue is filled once. *)
LEMMA Distinct ==
    ASSUME NEW n \in Nat, NEW t \in [1 .. n -> Adapters], Table(t)
    PROVE  Len(t) = n /\ \A i, j \in 1 .. n : t[i] = t[j] => i = j
  <1> DEFINE T == {t[i] : i \in 1 .. n}
  <1>1. Len(t) = n
    OBVIOUS
  <1>2. Cardinality(T) = n
    BY <1>1 DEF Table
  <1>3. IsFiniteSet(1 .. n) /\ Cardinality(1 .. n) = n
    BY FS_Interval
  <1>4. t \in Surjection(1 .. n, T)
    BY DEF Surjection
  <1>5. t \in Injection(1 .. n, T)
    BY <1>2, <1>3, <1>4, FS_SurjSameCardinalityImpliesInj
  <1> QED
    BY <1>1, <1>5 DEF Injection, IsInjective

LEMMA OneLessToFill ==
    ASSUME RoomInv, OnceEach, NEW p \in Publishers, Busy(p), todo'[p] = Tail(todo[p]), todo' \in [Publishers -> Seq(Adapters)],
           \A r \in Publishers \ {p} : todo'[r] = todo[r]
    PROVE  /\ OnceEach'
           /\ \A q \in Adapters : Awaits(p, q)' <=> Awaits(p, q) /\ q # Target(p)
           /\ \A r \in Publishers \ {p} : \A q \in Adapters : Awaits(r, q)' <=> Awaits(r, q)
           /\ Awaits(p, Target(p))
  <1>1. /\ todo[p] \in Seq(Adapters) /\ todo[p] # <<>> /\ Len(todo[p]) \in Nat \ {0}
        /\ Len(Tail(todo[p])) = Len(todo[p]) - 1 /\ Head(todo[p]) = todo[p][1]
        /\ \A i \in 1 .. Len(Tail(todo[p])) : Tail(todo[p])[i] = todo[p][i + 1] /\ i + 1 \in 1 .. Len(todo[p])
    BY DEF RoomInv, QueueTypeOK, Busy
  <1>2. \A i, j \in 1 .. Len(todo[p]) : todo[p][i] = todo[p][j] => i = j
    BY DEF OnceEach
  <1>3. OnceEach'
    <2>1. \A i, j \in 1 .. Len(todo'[p]) : todo'[p][i] = todo'[p][j] => i = j
      <3> SUFFICES ASSUME NEW i \in 1 .. Len(todo'[p]), NEW j \in 1 .. Len(todo'[p]), todo'[p][i] = todo'[p][j]
                   PROVE  i = j
        OBVIOUS
      <3>1. todo[p][i + 1] = todo[p][j + 1] /\ i + 1 \in 1 .. Len(todo[p]) /\ j + 1 \in 1 .. Len(todo[p])
        BY <1>1
      <3>2. i + 1 = j + 1
        BY <1>2, <3>1
      <3> QED
        BY <3>2
    <2> QED
      BY <2>1 DEF OnceEach
  <1>4. ASSUME NEW q \in Adapters PROVE Awaits(p, q)' <=> Awaits(p, q) /\ q # Target(p)
    <2>1. ASSUME NEW i \in 1 .. Len(todo'[p]), todo'[p][i] = q PROVE Awaits(p, q) /\ q # Target(p)
      <3>1. todo[p][i + 1] = q /\ i + 1 \in 1 .. Len(todo[p]) /\ i + 1 # 1 /\ 1 \in 1 .. Len(todo[p])
        BY <1>1, <2>1
      <3>2. todo[p][1] # q
        BY <1>2, <3>1
      <3> QED
        BY <1>1, <3>1, <3>2 DEF Awaits, Target
    <2>2. ASSUME NEW i \in 1 .. Len(todo[p]), todo[p][i] = q, q # Target(p)
          PROVE  \E j \in 1 .. Len(todo'[p]) : todo'[p][j] = q
      <3>1. i # 1
        BY <1>1, <2>2 DEF Target
      <3>2. i - 1 \in 1 .. Len(Tail(todo[p])) /\ (i - 1) + 1 = i
        BY <1>1, <3>1
      <3>3. Tail(todo[p])[i - 1] = q
        BY <1>1, <2>2, <3>2
      <3> QED
        BY <3>2, <3>3
    <2> QED
      BY <2>1, <2>2 DEF Awaits
  <1>5. \A r \in Publishers \ {p} : \A q \in Adapters : Awaits(r, q)' <=> Awaits(r, q)
    BY DEF Awaits
  <1>6. Awaits(p, Target(p))
    BY <1>1 DEF Awaits, Target
  <1> QED
    BY <1>3, <1>4, <1>5, <1>6

(* The newest chunk comes after all that the queue holds and its listener has taken. *)
LEMMA Delivering ==
    ASSUME StreamInv, RoomInv', NEW p \in Publishers, Busy(p), ~IsFull(Target(p)), Delivers(p),
           UNCHANGED <<uses, published, given, chunkList>>
    PROVE  StreamInv'
  <1>1. PICK z \in Adapters : z = Target(p)
    BY DeliversTyped DEF StreamInv
  <1>2. /\ todo'[p] = Tail(todo[p]) /\ \A r \in Publishers \ {p} : todo'[r] = todo[r]
        /\ queues'[z] = Append(queues[z], Newest(p)) /\ Newest(p) \in ChunkOf
        /\ \A q \in Adapters \ {z} : queues'[q] = queues[q]
    BY <1>1, DeliversTyped DEF StreamInv
  <1>3. todo' \in [Publishers -> Seq(Adapters)]
    BY DEF RoomInv, QueueTypeOK
  <1>4. /\ OnceEach'
        /\ \A q \in Adapters : Awaits(p, q)' <=> Awaits(p, q) /\ q # z
        /\ \A r \in Publishers \ {p} : \A q \in Adapters : Awaits(r, q)' <=> Awaits(r, q)
        /\ Awaits(p, z)
    BY <1>1, <1>2, <1>3, OneLessToFill DEF StreamInv
  <1>5. /\ Due(p, z) = published[p] - 1 /\ Due(p, z)' = published[p]
        /\ \A r \in Publishers, q \in Adapters : r # p \/ q # z => Due(r, q)' = Due(r, q)
    BY <1>4 DEF Due
  <1>6. \A r \in Publishers, q \in Adapters : /\ Due(r, q) \in Nat /\ published[r] \in Nat
                                              /\ Due(r, q)' \in Nat /\ Due(r, q) <= Due(r, q)'
    <2>1. \A r \in Publishers, q \in Adapters : /\ Due(r, q) \in Nat /\ published[r] \in Nat
      BY DueTyped DEF StreamInv
    <2> QED
      BY <1>5, <2>1
  <1>n. (\A x \in ChunkOf : x.n \in Nat) /\ (\A x \in Sample : x.n \in Nat)
    BY QueueAssumption DEF ChunkOf, Sample
  <1>q. \A q \in Adapters : queues[q] \in Seq(ChunkOf) /\ queues'[q] \in Seq(ChunkOf)
    BY DEF StreamInv, RoomInv, QueueTypeOK
  <1> DEFINE m == published[p]
  <1>c. Newest(p).by = p /\ Newest(p).n = m
    BY DEF Newest
  <1>a. /\ Len(queues'[z]) = Len(queues[z]) + 1 /\ Len(queues[z]) \in Nat
        /\ queues'[z][Len(queues[z]) + 1] = Newest(p)
        /\ \A i \in 1 .. Len(queues[z]) : queues'[z][i] = queues[z][i]
        /\ \A i \in 1 .. Len(queues'[z]) : i \in 1 .. Len(queues[z]) \/ i = Len(queues[z]) + 1
    BY <1>2, <1>q
  <1>o. /\ Sorted(queues[z]) /\ \A r \in Publishers : Upto(queues[z], r, Due(r, z))
    BY DEF StreamInv, ChunksInOrder
  <1>7. Sorted(queues'[z])
    <2> SUFFICES ASSUME NEW i \in 1 .. Len(queues'[z]), NEW j \in 1 .. Len(queues'[z]), i < j,
                        queues'[z][i].by = queues'[z][j].by
                 PROVE  queues'[z][i].n < queues'[z][j].n
      BY DEF Sorted
    <2>1. i \in 1 .. Len(queues[z])
      BY <1>a
    <2>2. CASE j \in 1 .. Len(queues[z])
      BY <1>a, <1>o, <2>1, <2>2 DEF Sorted
    <2>3. CASE j = Len(queues[z]) + 1
      <3>1. queues[z][i].by = p /\ queues[z][i] \in ChunkOf
        BY <1>a, <1>c, <1>q, <2>1, <2>3
      <3>2. queues[z][i].n <= published[p] - 1
        BY <1>5, <1>o, <2>1, <3>1 DEF Upto
      <3>3. queues[z][i].n \in Nat /\ published[p] \in Nat
        BY <1>6, <1>n, <3>1
      <3>4. queues'[z][i] = queues[z][i] /\ queues'[z][j].n = published[p]
        BY <1>a, <1>c, <2>1, <2>3
      <3> QED
        BY <3>2, <3>3, <3>4
    <2> QED
      BY <1>a, <2>2, <2>3
  <1>8. ASSUME NEW r \in Publishers PROVE Upto(queues'[z], r, Due(r, z)')
    <2>1. Upto(queues[z], r, Due(r, z)')
      BY <1>6, <1>n, <1>o, <1>q, UptoMore
    <2>2. r = p => m <= Due(r, z)'
      BY <1>5, <1>6
    <2> QED
      BY <1>a, <1>c, <2>1, <2>2 DEF Upto
  <1>9. ChunksInOrder'
    <2> SUFFICES ASSUME NEW q \in Adapters
                 PROVE  Sorted(queues'[q]) /\ \A r \in Publishers : Upto(queues'[q], r, Due(r, q)')
      BY DEF ChunksInOrder, Sorted, Upto
    <2>1. CASE q = z
      BY <1>7, <1>8, <2>1
    <2>2. CASE q # z
      BY <1>2, <1>5, <2>2 DEF StreamInv, ChunksInOrder
    <2> QED
      BY <2>1, <2>2
  <1>10. TakenInOrder'
    <2> SUFFICES ASSUME NEW a \in Adapters
                 PROVE  /\ uses[a] = Nothing => given[a] = <<>> /\ chunkList[a] = <<>>
                        /\ Sorted(Taken(a))
                        /\ \A r \in Publishers : Upto(Taken(a), r, published[r] * ChunkLength)
                        /\ uses[a] \in Adapters =>
                             /\ \A r \in Publishers : Upto(Taken(a), r, Due(r, uses[a])' * ChunkLength)
                             /\ \A j \in 1 .. Len(queues'[uses[a]]) :
                                  Upto(Taken(a), queues'[uses[a]][j].by, (queues'[uses[a]][j].n - 1) * ChunkLength)
      <3>1. \A a \in Adapters : Taken(a)' = Taken(a)
        BY DEF Taken
      <3> QED
        BY <3>1 DEF TakenInOrder, TakenOK, Sorted, Upto, Due, Awaits
    <2>t. Taken(a) \in Seq(Sample)
      BY TakenTyped DEF StreamInv
    <2>1. ASSUME NEW q \in Adapters, uses[a] = q
          PROVE  /\ \A r \in Publishers : Upto(Taken(a), r, Due(r, q)' * ChunkLength)
                 /\ \A j \in 1 .. Len(queues'[q]) :
                      Upto(Taken(a), queues'[q][j].by, (queues'[q][j].n - 1) * ChunkLength)
      <3>1. /\ \A r \in Publishers : Upto(Taken(a), r, Due(r, q) * ChunkLength)
            /\ \A j \in 1 .. Len(queues[q]) :
                  Upto(Taken(a), queues[q][j].by, (queues[q][j].n - 1) * ChunkLength)
        BY <2>1 DEF StreamInv, TakenInOrder, TakenOK
      <3>2. ASSUME NEW r \in Publishers PROVE Upto(Taken(a), r, Due(r, q)' * ChunkLength)
        <4>1. /\ Due(r, q) * ChunkLength \in Nat /\ Due(r, q)' * ChunkLength \in Nat
              /\ Due(r, q) * ChunkLength <= Due(r, q)' * ChunkLength
          BY <1>6, Product
        <4> QED
          BY <1>n, <2>t, <3>1, <4>1, UptoMore
      <3>3. ASSUME NEW j \in 1 .. Len(queues'[q])
            PROVE  Upto(Taken(a), queues'[q][j].by, (queues'[q][j].n - 1) * ChunkLength)
        <4>1. CASE q = z /\ j = Len(queues[z]) + 1
          <5>1. queues'[q][j] = Newest(p)
            BY <1>a, <4>1
          <5>2. Upto(Taken(a), p, (m - 1) * ChunkLength)
            BY <1>5, <3>1, <4>1
          <5> QED
            BY <1>c, <5>1, <5>2
        <4>2. CASE ~(q = z /\ j = Len(queues[z]) + 1)
          <5>1. j \in 1 .. Len(queues[q]) /\ queues'[q][j] = queues[q][j]
            BY <1>2, <1>a, <4>2
          <5> QED
            BY <3>1, <5>1
        <4> QED
          BY <4>1, <4>2
      <3> QED
        BY <3>2, <3>3
    <2>2. \A q \in Adapters, r \in Publishers : uses[a] = q => Due(r, uses[a])' = Due(r, q)'
      BY DEF Due, Awaits
    <2> QED
      BY <2>1, <2>2 DEF StreamInv, TakenInOrder, TakenOK
  <1> QED
    BY <1>4, <1>9, <1>10 DEF StreamInv

(* The samples of the next chunk are put after those that were taken. *)
LEMMA SamplesInOrder ==
    ASSUME NEW s \in Seq(Sample), NEW c \in ChunkOf, Sorted(s), Upto(s, c.by, (c.n - 1) * ChunkLength)
    PROVE  /\ Sorted(s \o Samples(c))
           /\ \A p : \A m \in Nat : Upto(s, p, m) /\ (p = c.by => c.n * ChunkLength <= m)
                                      => Upto(s \o Samples(c), p, m)
  <1> DEFINE w == s \o Samples(c)
  <1>1. /\ Samples(c) \in Seq(Sample) /\ Len(Samples(c)) = ChunkLength /\ ChunkLength \in Nat
        /\ \A i \in 1 .. ChunkLength : /\ Samples(c)[i].by = c.by
                                       /\ Samples(c)[i].n = (c.n - 1) * ChunkLength + i
                                       /\ Samples(c)[i].n > (c.n - 1) * ChunkLength
                                       /\ Samples(c)[i].n <= c.n * ChunkLength
    BY SamplesTyped, QueueAssumption
  <1>2. /\ Len(w) = Len(s) + ChunkLength /\ Len(s) \in Nat
        /\ \A i \in 1 .. Len(s) : w[i] = s[i]
        /\ \A i \in 1 .. Len(w) : i \in 1 .. Len(s) \/ (i - Len(s) \in 1 .. ChunkLength /\ w[i] = Samples(c)[i - Len(s)])
    BY <1>1
  <1>3. /\ (c.n - 1) * ChunkLength \in Nat /\ c.n * ChunkLength \in Nat
    <2>1. c.n \in Nat /\ c.n - 1 \in Nat /\ ChunkLength \in Nat
      BY QueueAssumption DEF ChunkOf
    <2> QED
      BY <2>1
  <1>4. \A i \in 1 .. Len(s) : s[i].n \in Nat
    <2>1. \A x \in Sample : x.n \in Nat
      BY QueueAssumption DEF Sample
    <2> QED
      BY <2>1
  <1> HIDE DEF w
  <1>5. ASSUME NEW i \in 1 .. Len(w), NEW j \in 1 .. Len(w), i < j, w[i].by = w[j].by
        PROVE  w[i].n < w[j].n
    <2>1. CASE j \in 1 .. Len(s)
      <3>1. i \in 1 .. Len(s)
        BY <1>2, <1>5, <2>1
      <3> QED
        BY <1>2, <1>5, <2>1, <3>1 DEF Sorted
    <2>2. CASE j \notin 1 .. Len(s)
      <3>1. j - Len(s) \in 1 .. ChunkLength /\ w[j] = Samples(c)[j - Len(s)]
        BY <1>2, <2>2
      <3>2. w[j].by = c.by /\ w[j].n = (c.n - 1) * ChunkLength + (j - Len(s)) /\ w[j].n > (c.n - 1) * ChunkLength
        BY <1>1, <3>1
      <3>3. CASE i \in 1 .. Len(s)
        <4>1. s[i].by = c.by /\ w[i] = s[i]
          BY <1>2, <1>5, <3>2, <3>3
        <4>2. s[i].n <= (c.n - 1) * ChunkLength /\ s[i].n \in Nat
          BY <1>4, <3>3, <4>1 DEF Upto
        <4>3. w[j].n \in Int
          BY <1>2, <1>3, <3>2
        <4> QED
          BY <1>3, <3>2, <4>1, <4>2, <4>3
      <3>4. CASE i \notin 1 .. Len(s)
        <4>1. i - Len(s) \in 1 .. ChunkLength /\ w[i] = Samples(c)[i - Len(s)]
          BY <1>2, <3>4
        <4>2. w[i].n = (c.n - 1) * ChunkLength + (i - Len(s))
          BY <1>1, <4>1
        <4> QED
          BY <1>2, <1>3, <1>5, <3>2, <4>2
      <3> QED
        BY <3>3, <3>4
    <2> QED
      BY <2>1, <2>2
  <1>6. ASSUME NEW p, NEW m \in Nat, Upto(s, p, m), p = c.by => c.n * ChunkLength <= m, NEW i \in 1 .. Len(w), w[i].by = p
        PROVE  w[i].n <= m
    <2>1. CASE i \in 1 .. Len(s)
      BY <1>2, <1>6, <2>1 DEF Upto
    <2>2. CASE i \notin 1 .. Len(s)
      <3>1. i - Len(s) \in 1 .. ChunkLength /\ w[i] = Samples(c)[i - Len(s)]
        BY <1>2, <2>2
      <3>2. w[i].by = c.by /\ w[i].n <= c.n * ChunkLength /\ w[i].n = (c.n - 1) * ChunkLength + (i - Len(s))
        BY <1>1, <3>1
      <3>3. w[i].n \in Int
        BY <1>2, <1>3, <3>2
      <3> QED
        BY <1>3, <1>6, <3>2, <3>3
    <2> QED
      BY <2>1, <2>2
  <1> QED
    BY <1>5, <1>6 DEF Sorted, Upto, w

LEMMA Grouping ==
    ASSUME NEW s \in Seq(Sample), NEW t \in Seq(Sample), NEW u \in Seq(Sample)
    PROVE  (s \o t) \o u = s \o (t \o u)
  BY ConcatAssociative

LEMMA Beginning ==
    ASSUME NEW u \in Seq(Sample), NEW v \in Seq(Sample)
    PROVE  /\ Len(u) \in Nat /\ Len(u) <= Len(u \o v)
           /\ \A i \in 1 .. Len(u) : (u \o v)[i] = u[i] /\ u[i] \in Sample
  <1> HIDE DEF Sample
  <1> QED
    OBVIOUS

LEMMA Splitting ==
    ASSUME NEW s \in Seq(Sample), NEW n \in Nat, n <= Len(s)
    PROVE  SubSeq(s, 1, n) \o SubSeq(s, n + 1, Len(s)) = s
  <1>1. 1 \in 1 .. Len(s) + 1 /\ n \in 1 - 1 .. Len(s) /\ Len(s) \in n .. Len(s)
    OBVIOUS
  <1>2. SubSeq(s, 1, n) \o SubSeq(s, n + 1, Len(s)) = SubSeq(s, 1, Len(s))
    BY <1>1, ConcatAdjacentSubSeq, Zenon
  <1>3. SubSeq(s, 1, Len(s)) = s
    BY SubSeqFull, Zenon
  <1> QED
    BY <1>2, <1>3

LEMMA Filling ==
    ASSUME StreamInv, RoomInv', NEW a \in Adapters, Fill(a)
    PROVE  StreamInv'
  <1>1. PICK q \in Adapters : q = uses[a]
    BY DEF Fill
  <1> DEFINE c == Head(queues[q])
  <1>2. /\ queues[q] # <<>> /\ queues' = [queues EXCEPT ![q] = Tail(@)] /\ uses[a] = q
        /\ chunkList' = [chunkList EXCEPT ![a] = @ \o Samples(c)]
        /\ UNCHANGED <<uses, published, todo, given>>
    BY <1>1 DEF Fill, publisherVars
  <1>3. /\ queues \in [Adapters -> Seq(ChunkOf)] /\ chunkList \in [Adapters -> Seq(Sample)]
        /\ given[a] \in Seq(Sample) /\ queues[q] \in Seq(ChunkOf) /\ c \in ChunkOf /\ c = queues[q][1]
        /\ 1 \in 1 .. Len(queues[q])
    BY <1>2 DEF StreamInv, RoomInv, QueueTypeOK
  <1>4. /\ queues'[q] = Tail(queues[q]) /\ \A r \in Adapters \ {q} : queues'[r] = queues[r]
        /\ chunkList'[a] = chunkList[a] \o Samples(c)
        /\ \A b \in Adapters \ {a} : chunkList'[b] = chunkList[b]
    BY <1>2, <1>3
  <1> HIDE DEF c
  <1>5. \A r \in Publishers, z \in Adapters : Due(r, z)' = Due(r, z) /\ Due(r, z) \in Nat /\ published[r] \in Nat
                                              /\ Due(r, z) <= published[r]
    <2>1. \A r \in Publishers, z \in Adapters : Due(r, z) \in Nat /\ published[r] \in Nat /\ Due(r, z) <= published[r]
      BY DueTyped DEF StreamInv
    <2> QED
      BY <1>2, <2>1 DEF Due, Awaits
  <1>6. /\ ChunksInOrder'
        /\ \A b \in Adapters :
                /\ Taken(b)' = Taken(b)
                /\ uses'[b] = Nothing => uses[b] = Nothing /\ given'[b] = given[b] /\ chunkList'[b] = chunkList[b]
                /\ uses'[b] \in Adapters => uses'[b] = uses[b] \/ uses[b] = Nothing
                => TakenOK(b)'
    <2>1. \A r \in Adapters : queues'[r] = queues[r] \/ (queues[r] # <<>> /\ queues'[r] = Tail(queues[r]))
      BY <1>2, <1>4
    <2>2. \A r \in Publishers, z \in Adapters : Due(r, z) <= Due(r, z)'
      BY <1>5
    <2>3. \A r \in Publishers : published[r] <= published'[r]
      BY <1>2, <1>5
    <2> QED
      BY <2>1, <2>2, <2>3, Draining
  <1>7. ASSUME NEW b \in Adapters \ {a} PROVE TakenOK(b)'
    <2>1. Taken(b)' = Taken(b) /\ chunkList'[b] = chunkList[b] /\ uses' = uses /\ given' = given
      BY <1>2, <1>4 DEF Taken
    <2> QED
      BY <1>6, <2>1
  <1>8. TakenOK(a)'
    <2>1. Taken(a)' = Taken(a) \o Samples(c) /\ Taken(a) \in Seq(Sample)
      <3>1. Samples(c) \in Seq(Sample) /\ chunkList[a] \in Seq(Sample)
        BY <1>3, SamplesTyped
      <3>2. (given[a] \o chunkList[a]) \o Samples(c) = given[a] \o (chunkList[a] \o Samples(c))
        BY <1>3, <3>1, Grouping
      <3>3. Taken(a)' = given[a] \o (chunkList[a] \o Samples(c))
        BY <1>2, <1>4, Zenon DEF Taken
      <3>4. Taken(a) \in Seq(Sample)
        BY TakenTyped DEF StreamInv
      <3> QED
        BY <3>2, <3>3, <3>4, Zenon DEF Taken
    <2>2. /\ Sorted(Taken(a))
          /\ \A p \in Publishers : Upto(Taken(a), p, published[p] * ChunkLength)
          /\ \A p \in Publishers : Upto(Taken(a), p, Due(p, q) * ChunkLength)
          /\ \A j \in 1 .. Len(queues[q]) :
                   Upto(Taken(a), queues[q][j].by, (queues[q][j].n - 1) * ChunkLength)
      BY <1>2 DEF StreamInv, TakenInOrder, TakenOK
    <2>3. /\ Sorted(Taken(a) \o Samples(c))
          /\ \A p : \A m \in Nat : Upto(Taken(a), p, m) /\ (p = c.by => c.n * ChunkLength <= m)
                                    => Upto(Taken(a) \o Samples(c), p, m)
      <3>1. Upto(Taken(a), c.by, (c.n - 1) * ChunkLength)
        BY <1>3, <2>2
      <3> QED
        BY <1>3, <2>1, <2>2, <3>1, SamplesInOrder
    <2>4. c.n \in Nat /\ c.by \in Publishers
      BY <1>3, QueueAssumption DEF ChunkOf
    <2>5. c.n <= Due(c.by, q)
      BY <1>3, <2>4 DEF StreamInv, ChunksInOrder, Upto
    <2>6. ASSUME NEW p \in Publishers PROVE Upto(Taken(a)', p, Due(p, q)' * ChunkLength)
      <3>1. Due(p, q) * ChunkLength \in Nat
        BY <1>5, Product
      <3>2. p = c.by => c.n * ChunkLength <= Due(p, q) * ChunkLength
        BY <1>5, <2>4, <2>5, Product
      <3> QED
        BY <1>5, <2>1, <2>2, <2>3, <3>1, <3>2
    <2>7. ASSUME NEW p \in Publishers PROVE Upto(Taken(a)', p, published[p] * ChunkLength)
      <3>1. published[p] * ChunkLength \in Nat
        BY <1>5, Product
      <3>2. p = c.by => c.n <= published[p]
        BY <1>5, <2>4, <2>5
      <3>3. p = c.by => c.n * ChunkLength <= published[p] * ChunkLength
        BY <1>5, <2>4, <3>2, Product
      <3> QED
        BY <2>1, <2>2, <2>3, <3>1, <3>3
    <2>8. ASSUME NEW j \in 1 .. Len(queues'[q])
          PROVE  Upto(Taken(a)', queues'[q][j].by, (queues'[q][j].n - 1) * ChunkLength)
      <3> DEFINE d == queues[q][j + 1]
      <3>1. j + 1 \in 1 .. Len(queues[q]) /\ queues'[q][j] = d /\ 1 < j + 1 /\ d \in ChunkOf
        <4>1. j + 1 \in 1 .. Len(queues[q]) /\ queues'[q][j] = d
          BY <1>2, <1>3, <1>4, TailInOrder
        <4> QED
          BY <1>3, <4>1
      <3>2. d.n \in Nat /\ d.n - 1 \in Nat
        BY <3>1, QueueAssumption DEF ChunkOf
      <3>3. d.by = c.by => c.n < d.n
        BY <1>3, <3>1 DEF StreamInv, ChunksInOrder, Sorted
      <3>4. (d.n - 1) * ChunkLength \in Nat
        <4>1. d.n - 1 <= d.n - 1
          BY <3>2
        <4> QED
          BY <3>2, <4>1, Product
      <3>5. d.by = c.by => c.n * ChunkLength <= (d.n - 1) * ChunkLength
        <4>1. ASSUME d.by = c.by PROVE c.n <= d.n - 1
          BY <2>4, <3>2, <3>3, <4>1
        <4> QED
          BY <2>4, <3>2, <4>1, Product
      <3>6. Upto(Taken(a), d.by, (d.n - 1) * ChunkLength)
        BY <2>2, <3>1
      <3> HIDE DEF d
      <3> QED
        BY <2>1, <2>3, <3>1, <3>4, <3>5, <3>6
    <2>9. uses'[a] = q /\ q # Nothing /\ published' = published
      BY <1>2, NothingAssumption
    <2>10. \A p \in Publishers : Due(p, uses[a])' = Due(p, q)'
      BY <2>9 DEF Due, Awaits
    <2>11. Sorted(Taken(a)')
      BY <2>1, <2>3
    <2> SUFFICES  /\ uses'[a] = Nothing => given'[a] = <<>> /\ chunkList'[a] = <<>>
                  /\ Sorted(Taken(a)')
                  /\ \A p \in Publishers : Upto(Taken(a)', p, published'[p] * ChunkLength)
                  /\ uses'[a] \in Adapters =>
                       /\ \A p \in Publishers : Upto(Taken(a)', p, Due(p, uses[a])' * ChunkLength)
                       /\ \A j \in 1 .. Len(queues'[uses'[a]]) :
                            Upto(Taken(a)', queues'[uses'[a]][j].by, (queues'[uses'[a]][j].n - 1) * ChunkLength)
      BY DEF TakenOK, Sorted, Upto, Due, Awaits
    <2> QED
      BY <2>6, <2>7, <2>8, <2>9, <2>10, <2>11
  <1>9. OnceEach'
    BY <1>2 DEF StreamInv, OnceEach
  <1> QED
    BY <1>6, <1>7, <1>8, <1>9 DEF StreamInv, TakenInOrder

LEMMA Serving ==
    ASSUME RoomInv, NEW a \in Adapters, Serve(a)
    PROVE  /\ \A b \in Adapters : Taken(b)' = Taken(b)
           /\ given'[a] = given[a] \o SubSeq(chunkList[a], 1, Wanted)
           /\ given' = [given EXCEPT ![a] = given'[a]]
           /\ SubSeq(chunkList[a], 1, Wanted) \in Seq(Sample)
  <1>1. /\ chunkList[a] \in Seq(Sample) /\ given[a] \in Seq(Sample) /\ Wanted \in Nat \ {0}
        /\ Len(chunkList[a]) >= Wanted
        /\ given \in [Adapters -> Seq(Sample)] /\ chunkList \in [Adapters -> Seq(Sample)]
    BY QueueAssumption DEF RoomInv, QueueTypeOK, Serve
  <1>2. /\ given' = [given EXCEPT ![a] = @ \o SubSeq(chunkList[a], 1, Wanted)]
        /\ chunkList' = [chunkList EXCEPT ![a] = Remaining(@)]
    BY DEF Serve
  <1>3. /\ SubSeq(chunkList[a], 1, Wanted) \in Seq(Sample)
        /\ SubSeq(chunkList[a], Wanted + 1, Len(chunkList[a])) \in Seq(Sample)
    BY <1>1
  <1>4. SubSeq(chunkList[a], 1, Wanted) \o SubSeq(chunkList[a], Wanted + 1, Len(chunkList[a])) = chunkList[a]
    BY <1>1, Splitting
  <1>5. /\ given'[a] = given[a] \o SubSeq(chunkList[a], 1, Wanted)
        /\ chunkList'[a] = SubSeq(chunkList[a], Wanted + 1, Len(chunkList[a]))
        /\ \A b \in Adapters \ {a} : given'[b] = given[b] /\ chunkList'[b] = chunkList[b]
        /\ given' = [given EXCEPT ![a] = given'[a]]
    BY <1>1, <1>2 DEF Remaining
  <1>6. Taken(a)' = Taken(a)
    <2> DEFINE u == SubSeq(chunkList[a], 1, Wanted)
               v == SubSeq(chunkList[a], Wanted + 1, Len(chunkList[a]))
    <2>1. (given[a] \o u) \o v = given[a] \o (u \o v)
      BY <1>1, <1>3, Grouping
    <2>2. Taken(a)' = (given[a] \o u) \o v
      BY <1>5, Zenon DEF Taken
    <2> QED
      BY <1>4, <2>1, <2>2, Zenon DEF Taken
  <1> QED
    BY <1>3, <1>5, <1>6 DEF Taken

(* A step that reads nothing and puts nothing into a queue. *)
LEMMA Losing ==
    ASSUME StreamInv, RoomInv', OnceEach',
           \A q \in Adapters : queues'[q] = queues[q] \/ (queues[q] # <<>> /\ queues'[q] = Tail(queues[q])),
           \A p \in Publishers, q \in Adapters : Due(p, q) <= Due(p, q)',
           \A p \in Publishers : published[p] <= published'[p],
           \A a \in Adapters : Taken(a)' = Taken(a),
           \A a \in Adapters : uses'[a] = Nothing => uses[a] = Nothing /\ given'[a] = given[a] /\ chunkList'[a] = chunkList[a],
           \A a \in Adapters : uses'[a] \in Adapters => uses'[a] = uses[a] \/ uses[a] = Nothing
    PROVE  StreamInv'
  BY Draining DEF StreamInv, TakenInOrder

LEMMA StreamStep == StreamInv /\ [QueueNext]_queueVars => StreamInv'
  <1> SUFFICES ASSUME StreamInv, [QueueNext]_queueVars PROVE StreamInv'
    OBVIOUS
  <1>r. RoomInv /\ RoomInv' /\ OnceEach
    BY RoomStep DEF StreamInv
  <1>t. QueueTypeOK /\ Started
    BY <1>r DEF RoomInv
  <1>d. \A p \in Publishers, q \in Adapters : Due(p, q) \in Nat /\ Due(p, q) <= published[p] /\ published[p] \in Nat
    BY <1>r, DueTyped
  (* The publishers go on to the next call, or are left alone. *)
  <1>f. ASSUME UNCHANGED <<todo, published>>,
               \A q \in Adapters : queues'[q] = queues[q] \/ (queues[q] # <<>> /\ queues'[q] = Tail(queues[q])),
               \A a \in Adapters : Taken(a)' = Taken(a),
               \A a \in Adapters : uses'[a] = Nothing => uses[a] = Nothing /\ given'[a] = given[a] /\ chunkList'[a] = chunkList[a],
               \A a \in Adapters : uses'[a] \in Adapters => uses'[a] = uses[a] \/ uses[a] = Nothing
        PROVE  StreamInv'
    <2>1. OnceEach'
      BY <1>f, <1>r DEF OnceEach
    <2>2. \A p \in Publishers, q \in Adapters : Due(p, q) <= Due(p, q)'
      <3>1. \A p \in Publishers, q \in Adapters : Due(p, q)' = Due(p, q)
        BY <1>f DEF Due, Awaits
      <3> QED
        BY <1>d, <3>1
    <2>3. \A p \in Publishers : published[p] <= published'[p]
      <3>1. \A p \in Publishers : published[p] \in Nat
        BY <1>t, QueueAssumption DEF QueueTypeOK
      <3> QED
        BY <1>f, <3>1
    <2> QED
      BY <1>f, <1>r, <2>1, <2>2, <2>3, Losing
  <1>u. ASSUME UNCHANGED <<todo, published, given, chunkList, queues>>,
               \A a \in Adapters : uses'[a] = Nothing => uses[a] = Nothing,
               \A a \in Adapters : uses'[a] \in Adapters => uses'[a] = uses[a] \/ uses[a] = Nothing
        PROVE  StreamInv'
    <2>1. \A a \in Adapters : Taken(a)' = Taken(a)
      BY <1>u DEF Taken
    <2> QED
      BY <1>f, <1>u, <2>1
  (* A publisher gives up. *)
  <1>g. ASSUME NEW p \in Publishers, Busy(p), GivesUp(p),
               UNCHANGED <<subscribers, uses, published, adapterVars>>
        PROVE  StreamInv'
    <2>1. /\ todo'[p] = Tail(todo[p]) /\ \A r \in Publishers \ {p} : todo'[r] = todo[r]
          /\ UNCHANGED <<queues, uses, published, given, chunkList>>
      BY <1>g, <1>t DEF GivesUp, QueueTypeOK, adapterVars
    <2>2. todo' \in [Publishers -> Seq(Adapters)]
      BY <1>r DEF RoomInv, QueueTypeOK
    <2>3. /\ OnceEach'
          /\ \A q \in Adapters : Awaits(p, q)' <=> Awaits(p, q) /\ q # Target(p)
          /\ \A r \in Publishers \ {p} : \A q \in Adapters : Awaits(r, q)' <=> Awaits(r, q)
      BY <1>g, <1>r, <2>1, <2>2, OneLessToFill
    <2>4. \A r \in Publishers, q \in Adapters : Due(r, q) <= Due(r, q)'
      <3>1. \A r \in Publishers, q \in Adapters : Due(r, q)' = Due(r, q) \/ Due(r, q)' = published[r]
        BY <2>1, <2>3 DEF Due
      <3> QED
        BY <1>d, <3>1
    <2>5. \A a \in Adapters : Taken(a)' = Taken(a)
      BY <2>1 DEF Taken
    <2>6. \A r \in Publishers : published[r] <= published'[r]
      <3>1. \A r \in Publishers : published[r] \in Nat
        BY <1>t, QueueAssumption DEF QueueTypeOK
      <3> QED
        BY <2>1, <3>1
    <2> QED
      BY <1>r, <2>1, <2>3, <2>4, <2>5, <2>6, Losing
  <1>1. ASSUME NEW a \in Adapters, SubscribeNew(a) PROVE StreamInv'
    <2>1. /\ UNCHANGED <<todo, published, given, chunkList, queues>>
          /\ uses' = [uses EXCEPT ![a] = a] /\ uses[a] = Nothing
      BY <1>1 DEF SubscribeNew, publisherVars, adapterVars
    <2>2. uses'[a] = a /\ \A b \in Adapters \ {a} : uses'[b] = uses[b]
      BY <1>t, <2>1 DEF QueueTypeOK
    <2> QED
      BY <1>u, <2>1, <2>2, NothingAssumption
  <1>2. ASSUME NEW a \in Adapters, SubscribeAgain(a) PROVE StreamInv'
    <2>1. /\ UNCHANGED <<todo, published, given, chunkList, queues>>
          /\ uses[a] = Nothing /\ subscribers[NameOf[a]] # Nothing
          /\ uses' = [b \in Adapters |->
                  IF b = a THEN subscribers[NameOf[a]]
                  ELSE IF uses[b] = subscribers[NameOf[a]] THEN Left ELSE uses[b]]
      BY <1>2 DEF SubscribeAgain, publisherVars, adapterVars
    <2>2. Left # Nothing
      BY DEF Left, Nothing
    <2>3. /\ uses'[a] = subscribers[NameOf[a]]
          /\ \A b \in Adapters \ {a} : uses'[b] \in {Left, uses[b]}
      BY <2>1
    <2> QED
      BY <1>u, <2>1, <2>2, <2>3, NothingAssumption
  <1>3. ASSUME NEW a \in Adapters, Unsubscribe(a) PROVE StreamInv'
    BY <1>3, <1>u DEF Unsubscribe, publisherVars, adapterVars
  <1>4. ASSUME NEW a \in Adapters, Fill(a) PROVE StreamInv'
    BY <1>4, <1>r, Filling
  <1>5. ASSUME NEW a \in Adapters, Serve(a) PROVE StreamInv'
    <2>1. \A b \in Adapters : Taken(b)' = Taken(b)
      BY <1>5, <1>r, Serving
    <2>2. UNCHANGED <<todo, published, queues, uses>>
      BY <1>5 DEF Serve, publisherVars
    <2>3. uses[a] # Nothing
      <3>1. ASSUME uses[a] = Nothing PROVE FALSE
        <4>1. chunkList[a] = <<>>
          BY <3>1 DEF StreamInv, TakenInOrder, TakenOK
        <4> QED
          BY <1>5, <4>1, QueueAssumption DEF Serve
      <3> QED
        BY <3>1
    <2>4. \A b \in Adapters \ {a} : given'[b] = given[b] /\ chunkList'[b] = chunkList[b]
      BY <1>5, <1>t DEF Serve, QueueTypeOK
    <2> QED
      BY <1>f, <2>1, <2>2, <2>3, <2>4
  <1>6. ASSUME NEW p \in Publishers, Begins(p) PROVE StreamInv'
    <2>0. PICK n \in 0 .. Cardinality(Names) :
             \E t \in [1 .. n -> Adapters] : Table(t) /\ todo' = [todo EXCEPT ![p] = t]
      BY <1>6 DEF Begins
    <2>1. PICK t \in [1 .. n -> Adapters] : Table(t) /\ todo' = [todo EXCEPT ![p] = t]
      BY <2>0
    <2>2. /\ ~Busy(p) /\ published' = [published EXCEPT ![p] = @ + 1]
          /\ UNCHANGED <<subscribers, queues, uses, phase, outrun, chunkList, given, overrun>>
      BY <1>6 DEF Begins
    <2>3. Len(t) = n /\ \A i, j \in 1 .. n : t[i] = t[j] => i = j
      <3>1. n \in Nat
        OBVIOUS
      <3> QED
        BY <2>1, <3>1, Distinct
    <2>4. /\ todo'[p] = t /\ published'[p] = published[p] + 1
          /\ \A r \in Publishers \ {p} : todo'[r] = todo[r] /\ published'[r] = published[r]
      BY <1>t, <2>1, <2>2 DEF QueueTypeOK
    <2>5. OnceEach'
      BY <1>r, <2>3, <2>4 DEF OnceEach
    <2>6. \A r \in Publishers, q \in Adapters : Due(r, q) <= Due(r, q)'
      <3>1. ASSUME NEW q \in Adapters PROVE Due(p, q)' \in {published[p], published[p] + 1}
        <4>1. published[p] \in Nat
          BY <1>d, <3>1
        <4> QED
          BY <2>4, <4>1 DEF Due
      <3>2. \A r \in Publishers \ {p}, q \in Adapters : Due(r, q)' = Due(r, q)
        BY <2>4 DEF Due, Awaits
      <3> QED
        BY <1>d, <3>1, <3>2
    <2>7. \A r \in Publishers : published[r] <= published'[r]
      <3>1. \A r \in Publishers : published[r] \in Nat
        BY <1>t, QueueAssumption DEF QueueTypeOK
      <3> QED
        BY <2>4, <3>1
    <2>8. \A b \in Adapters : Taken(b)' = Taken(b)
      BY <2>2 DEF Taken
    <2> QED
      BY <1>r, <2>2, <2>5, <2>6, <2>7, <2>8, Losing
  <1>7. ASSUME NEW p \in Publishers, PutNoWait(p) PROVE StreamInv'
    <2>1. CASE IsFull(Target(p))
      BY <1>7, <1>u, <2>1 DEF PutNoWait, adapterVars
    <2>2. CASE ~IsFull(Target(p))
      BY <1>7, <1>r, <2>2, Delivering DEF PutNoWait, adapterVars
    <2> QED
      BY <2>1, <2>2
  <1>8. ASSUME NEW p \in Publishers, DropOldest(p) PROVE StreamInv'
    <2>1. CASE queues[Target(p)] = <<>>
      BY <1>8, <1>g, <2>1 DEF DropOldest
    <2>2. CASE queues[Target(p)] # <<>>
      <3>1. /\ queues' = [queues EXCEPT ![Target(p)] = Tail(@)] /\ Busy(p)
            /\ UNCHANGED <<todo, uses, published, given, chunkList>>
        BY <1>8, <2>2 DEF DropOldest, adapterVars
      <3>2. \A q \in Adapters : queues'[q] = queues[q] \/ (queues[q] # <<>> /\ queues'[q] = Tail(queues[q]))
        BY <1>t, <2>2, <3>1 DEF QueueTypeOK
      <3>3. \A b \in Adapters : Taken(b)' = Taken(b)
        BY <3>1 DEF Taken
      <3> QED
        BY <1>f, <3>1, <3>2, <3>3
    <2> QED
      BY <2>1, <2>2
  <1>9. ASSUME NEW p \in Publishers, PutAgain(p) PROVE StreamInv'
    <2>1. CASE IsFull(Target(p))
      BY <1>9, <1>g, <2>1 DEF PutAgain
    <2>2. CASE ~IsFull(Target(p))
      BY <1>9, <1>r, <2>2, Delivering DEF PutAgain, adapterVars
    <2> QED
      BY <2>1, <2>2
  <1>10. CASE UNCHANGED queueVars
    BY <1>10, <1>u DEF queueVars
  <1> QED
    BY <1>1, <1>2, <1>3, <1>4, <1>5, <1>6, <1>7, <1>8, <1>9, <1>10 DEF QueueNext

(* Every step says something, lets one listener hear, or neither. *)
LEMMA StepRefines == StreamInv /\ [QueueNext]_queueVars => [Stream!LossyNext]_<<published, given>>
  <1> SUFFICES ASSUME StreamInv, [QueueNext]_queueVars
               PROVE  Stream!LossyNext \/ UNCHANGED <<published, given>>
    OBVIOUS
  <1>i. StreamInv' /\ RoomInv
    BY StreamStep DEF StreamInv
  <1>1. ASSUME NEW p \in Publishers, Begins(p) PROVE Stream!LossyNext
    BY <1>1 DEF Begins, Stream!LossyNext, Stream!Say
  <1>2. ASSUME NEW a \in Adapters, Serve(a) PROVE Stream!LossyNext
    <2> DEFINE g == given[a]
               s == SubSeq(chunkList[a], 1, Wanted)
    <2>1. /\ given'[a] = g \o s /\ given' = [given EXCEPT ![a] = given'[a]]
          /\ s \in Seq(Sample) /\ g \in Seq(Sample) /\ published' = published
      BY <1>2, <1>i, Serving, TakenTyped DEF Serve, publisherVars
    <2>t. Taken(a)' \in Seq(Sample) /\ given'[a] \in Seq(Sample) /\ chunkList'[a] \in Seq(Sample)
          /\ Taken(a)' = given'[a] \o chunkList'[a]
      <3>1. given'[a] \in Seq(Sample) /\ chunkList'[a] \in Seq(Sample)
        BY <1>i DEF StreamInv, RoomInv, QueueTypeOK
      <3> QED
        BY <3>1 DEF Taken
    <2>2. /\ Len(given'[a]) \in Nat /\ Len(given'[a]) <= Len(Taken(a)')
          /\ \A i \in 1 .. Len(given'[a]) : Taken(a)'[i] = given'[a][i] /\ given'[a][i] \in Sample
      <3>1. /\ Len(given'[a]) \in Nat /\ Len(given'[a]) <= Len(given'[a] \o chunkList'[a])
            /\ \A i \in 1 .. Len(given'[a]) : /\ (given'[a] \o chunkList'[a])[i] = given'[a][i]
                                              /\ given'[a][i] \in Sample
        BY <2>t, Beginning, Zenon
      <3> QED
        BY <2>t, <3>1, Zenon
    <2>3. Sorted(Taken(a)') /\ \A p \in Publishers : Upto(Taken(a)', p, published[p] * ChunkLength)
      BY <1>i, <2>1 DEF StreamInv, TakenInOrder, TakenOK, Sorted, Upto
    <2>4. Stream!InOrder(given'[a])
      BY <2>2, <2>3 DEF Stream!InOrder, Sorted
    <2>5. Stream!Published(given'[a])
      <3> SUFFICES ASSUME NEW i \in 1 .. Len(given'[a])
                   PROVE  given'[a][i].n <= ChunkLength * published[given'[a][i].by]
        BY <2>1 DEF Stream!Published
      <3> DEFINE p == given'[a][i].by
      <3>1. p \in Publishers /\ Taken(a)'[i].by = p /\ i \in 1 .. Len(Taken(a)')
        BY <2>2 DEF Sample
      <3>2. Taken(a)'[i].n <= published[p] * ChunkLength
        BY <2>3, <3>1 DEF Upto
      <3>3. published[p] \in Nat /\ ChunkLength \in Nat
        BY <1>i, <3>1, QueueAssumption DEF RoomInv, QueueTypeOK
      <3>4. published[p] * ChunkLength = ChunkLength * published[p]
        BY <3>3
      <3> QED
        BY <2>2, <3>2, <3>4
    <2>6. Len(given'[a]) >= Len(given[a]) /\ SubSeq(given'[a], 1, Len(given[a])) = given[a]
      <3> HIDE DEF s
      <3>1. Len(g \o s) >= Len(g)
        BY <2>1
      <3>2. SubSeq(g \o s, 1, Len(g)) = g
        BY <2>1
      <3> QED
        BY <2>1, <3>1, <3>2
    <2>7. Stream!Hear(a)
      BY <2>1, <2>4, <2>5, <2>6 DEF Stream!Hear
    <2> QED
      BY <2>7 DEF Stream!LossyNext
  <1>3. CASE \E a \in Adapters : SubscribeNew(a) \/ SubscribeAgain(a) \/ Unsubscribe(a) \/ Fill(a)
    BY <1>3 DEF SubscribeNew, SubscribeAgain, Unsubscribe, Fill, publisherVars, adapterVars
  <1>4. CASE \E p \in Publishers : PutNoWait(p) \/ DropOldest(p) \/ PutAgain(p)
    BY <1>4 DEF PutNoWait, DropOldest, PutAgain, adapterVars
  <1>5. CASE UNCHANGED queueVars
    BY <1>5 DEF queueVars
  <1> QED
    BY <1>1, <1>2, <1>3, <1>4, <1>5 DEF QueueNext

(* Queues and adapters are a lossy stream: every listener hears, of every  *)
(* publisher, published samples only, in their order and none twice, with  *)
(* any number of publishers, adapters and names and any sizes of queue,    *)
(* chunk and read (broadcast_queue.py:149, broadcast_adapter.py:212).      *)
THEOREM QueueRefines == QueueSpec => ImplementsLossyStream
  <1>1. QueueInit => Stream!LossyInit
    BY DEF QueueInit, Stream!LossyInit
  <1> QED
    BY <1>1, StreamInit, StreamStep, StepRefines, PTL
       DEF QueueSpec, ImplementsLossyStream, Stream!LossySpec, Stream!lossyVars

-----------------------------------------------------------------------------
(* The lines of samples that queues and adapters hand to their listeners.  *)

(***************************************************************************)
(* Nothing is missing from a queue that never ran full.                    *)
(***************************************************************************)
LEMMA Quotient ==
    ASSUME NEW c \in Nat \ {0}, NEW x \in Nat
    PROVE  /\ x \div c \in Nat /\ x % c \in 0 .. c - 1
           /\ x = (x \div c) * c + (x % c)
  OBVIOUS

LEMMA QuotientIs ==
    ASSUME NEW c \in Nat \ {0}, NEW q \in Nat, NEW r \in 0 .. c - 1
    PROVE  (q * c + r) \div c = q /\ ((q * c + r) % c) = r
  <1>1. q * c \in Nat /\ q * c + r \in Nat
    OBVIOUS
  <1> DEFINE x == q * c + r
             p == x \div c
             t == x % c
  <1>2. p \in Nat /\ t \in 0 .. c - 1 /\ q * c + r = p * c + t
    BY <1>1, Quotient
  <1> HIDE DEF p, t
  <1>3. p = q
    <2>1. CASE p > q
      <3>1. p - q - 1 \in Nat /\ p * c = q * c + c + (p - q - 1) * c /\ (p - q - 1) * c \in Nat
        BY <1>2, <2>1
      <3> QED
        BY <1>1, <1>2, <3>1
    <2>2. CASE q > p
      <3>1. q - p - 1 \in Nat /\ q * c = p * c + c + (q - p - 1) * c /\ (q - p - 1) * c \in Nat /\ p * c \in Nat
        BY <1>2, <2>2
      <3> QED
        BY <1>1, <1>2, <3>1
    <2> QED
      BY <1>2, <2>1, <2>2
  <1>4. t = r
    BY <1>1, <1>2, <1>3
  <1> QED
    BY <1>3, <1>4 DEF p, t

LEMMA Pieces ==
    ASSUME NEW S, NEW w \in Seq(S), NEW u \in Seq(S), NEW v \in Seq(S),
           Len(w) = Len(u) + Len(v),
           \A k \in 1 .. Len(u) : w[k] = u[k],
           \A k \in 1 .. Len(v) : w[Len(u) + k] = v[k]
    PROVE  w = u \o v
  <1>1. Len(u) \in Nat /\ Len(v) \in Nat
    OBVIOUS
  <1>2. u \o v \in Seq(S) /\ Len(u \o v) = Len(w)
    BY <1>1
  <1>3. ASSUME NEW k \in 1 .. Len(w) PROVE w[k] = (u \o v)[k]
    <2>1. CASE k <= Len(u)
      BY <1>1, <2>1
    <2>2. CASE k > Len(u)
      <3>1. PICK j \in 1 .. Len(v) : k = Len(u) + j
        <4>1. k - Len(u) \in 1 .. Len(v) /\ k = Len(u) + (k - Len(u))
          BY <1>1, <2>2
        <4> QED
          BY <4>1
      <3>2. w[k] = v[j]
        BY <3>1
      <3>3. (u \o v)[k] = v[j]
        BY <1>1, <2>2, <3>1
      <3> QED
        BY <3>2, <3>3
    <2> QED
      BY <1>1, <2>1, <2>2
  <1> QED
    BY <1>2, <1>3, SeqEqual

LEMMA FlattenTyped ==
    ASSUME NEW s \in Seq(ChunkOf)
    PROVE  /\ Len(s) * ChunkLength \in Nat
           /\ Flatten(s) \in Seq(Sample) /\ Len(Flatten(s)) = Len(s) * ChunkLength
           /\ \A k \in 1 .. Len(s) * ChunkLength :
                /\ 1 + ((k - 1) \div ChunkLength) \in 1 .. Len(s)
                /\ Flatten(s)[k] = Samples(s[1 + ((k - 1) \div ChunkLength)])[1 + ((k - 1) % ChunkLength)]
                /\ Flatten(s)[k] \in Sample
  <1>1. ChunkLength \in Nat \ {0} /\ Len(s) \in Nat /\ Len(s) * ChunkLength \in Nat
    BY QueueAssumption
  <1>2. ASSUME NEW k \in 1 .. Len(s) * ChunkLength
        PROVE  /\ 1 + ((k - 1) \div ChunkLength) \in 1 .. Len(s)
               /\ 1 + ((k - 1) % ChunkLength) \in 1 .. ChunkLength
    <2> DEFINE q == (k - 1) \div ChunkLength
               r == (k - 1) % ChunkLength
    <2>0. k - 1 \in Nat
      BY <1>1
    <2>1. q \in Nat /\ r \in 0 .. ChunkLength - 1 /\ k - 1 = q * ChunkLength + r
      BY <1>1, <2>0, Quotient
    <2> HIDE DEF q, r
    <2>2. q < Len(s)
      <3>1. SUFFICES ASSUME q >= Len(s) PROVE FALSE
        BY <1>1, <2>1
      <3>2. q * ChunkLength >= Len(s) * ChunkLength /\ q * ChunkLength \in Nat
        BY <1>1, <2>1, <3>1, Product
      <3> QED
        BY <1>1, <2>1, <3>2
    <2> QED
      BY <1>1, <2>1, <2>2 DEF q, r
  <1>3. ASSUME NEW k \in 1 .. Len(s) * ChunkLength
        PROVE  Samples(s[1 + ((k - 1) \div ChunkLength)])[1 + ((k - 1) % ChunkLength)] \in Sample
    <2> DEFINE j == 1 + ((k - 1) \div ChunkLength)
               i == 1 + ((k - 1) % ChunkLength)
    <2>1. j \in 1 .. Len(s) /\ i \in 1 .. ChunkLength
      BY <1>2
    <2> HIDE DEF i, j
    <2>2. Samples(s[j]) \in Seq(Sample) /\ Len(Samples(s[j])) = ChunkLength
      BY <2>1, SamplesTyped
    <2>3. Samples(s[j])[i] \in Sample
      BY <2>1, <2>2
    <2> QED
      BY <2>3 DEF i, j
  <1> QED
    BY <1>1, <1>2, <1>3 DEF Flatten

LEMMA FlattenAppend ==
    ASSUME NEW s \in Seq(ChunkOf), NEW c \in ChunkOf
    PROVE  Flatten(Append(s, c)) = Flatten(s) \o Samples(c)
  <1> DEFINE t == Append(s, c)
             n == Len(s) * ChunkLength
             u == Flatten(s)
             v == Samples(c)
             w == Flatten(t)
  <1>1. t \in Seq(ChunkOf) /\ Len(t) = Len(s) + 1 /\ t[Len(s) + 1] = c /\ \A i \in 1 .. Len(s) : t[i] = s[i]
    OBVIOUS
  <1>2. /\ ChunkLength \in Nat \ {0} /\ Len(s) \in Nat /\ n \in Nat
        /\ Len(t) * ChunkLength = n + ChunkLength
    BY <1>1, QueueAssumption
  <1>3. /\ u \in Seq(Sample) /\ Len(u) = n
        /\ \A k \in 1 .. n : /\ 1 + ((k - 1) \div ChunkLength) \in 1 .. Len(s)
                             /\ u[k] = Samples(s[1 + ((k - 1) \div ChunkLength)])[1 + ((k - 1) % ChunkLength)]
    BY FlattenTyped
  <1>4. /\ w \in Seq(Sample) /\ Len(w) = n + ChunkLength
        /\ \A k \in 1 .. n + ChunkLength :
              w[k] = Samples(t[1 + ((k - 1) \div ChunkLength)])[1 + ((k - 1) % ChunkLength)]
    BY <1>1, <1>2, FlattenTyped
  <1>5. v \in Seq(Sample) /\ Len(v) = ChunkLength
    BY SamplesTyped
  <1>6. ASSUME NEW k \in 1 .. n PROVE w[k] = u[k]
    <2>1. t[1 + ((k - 1) \div ChunkLength)] = s[1 + ((k - 1) \div ChunkLength)]
      BY <1>1, <1>3
    <2>2. k \in 1 .. n + ChunkLength
      BY <1>2
    <2> QED
      BY <1>3, <1>4, <2>1, <2>2
  <1>7. ASSUME NEW i \in 1 .. ChunkLength PROVE w[n + i] = v[i]
    <2>1. i - 1 \in 0 .. ChunkLength - 1 /\ (n + i) - 1 = Len(s) * ChunkLength + (i - 1) /\ n + i \in 1 .. n + ChunkLength
      BY <1>2
    <2>2. ((n + i) - 1) \div ChunkLength = Len(s) /\ ((n + i) - 1) % ChunkLength = i - 1
      BY <1>2, <2>1, QuotientIs
    <2>3. 1 + Len(s) = Len(s) + 1 /\ 1 + (i - 1) = i
      BY <1>2
    <2> QED
      BY <1>1, <1>4, <2>1, <2>2, <2>3
  <1> HIDE DEF n, t, u, v, w
  <1>8. w = u \o v
    BY <1>2, <1>3, <1>4, <1>5, <1>6, <1>7, Pieces, ZenonT(40)
  <1> QED
    BY <1>8 DEF t, u, v, w

LEMMA FlattenHead ==
    ASSUME NEW s \in Seq(ChunkOf), s # <<>>
    PROVE  Flatten(s) = Samples(Head(s)) \o Flatten(Tail(s))
  <1> DEFINE t == Tail(s)
             n == Len(t) * ChunkLength
             u == Samples(Head(s))
             v == Flatten(t)
             w == Flatten(s)
  <1>1. /\ t \in Seq(ChunkOf) /\ Len(s) = Len(t) + 1 /\ Head(s) = s[1] /\ Head(s) \in ChunkOf
        /\ \A i \in 1 .. Len(t) : t[i] = s[i + 1]
    OBVIOUS
  <1>2. /\ ChunkLength \in Nat \ {0} /\ Len(t) \in Nat /\ n \in Nat
        /\ Len(s) * ChunkLength = ChunkLength + n
    BY <1>1, QueueAssumption
  <1>3. /\ v \in Seq(Sample) /\ Len(v) = n
        /\ \A k \in 1 .. n : /\ 1 + ((k - 1) \div ChunkLength) \in 1 .. Len(t)
                             /\ v[k] = Samples(t[1 + ((k - 1) \div ChunkLength)])[1 + ((k - 1) % ChunkLength)]
    BY <1>1, FlattenTyped
  <1>4. /\ w \in Seq(Sample) /\ Len(w) = ChunkLength + n
        /\ \A k \in 1 .. ChunkLength + n :
              w[k] = Samples(s[1 + ((k - 1) \div ChunkLength)])[1 + ((k - 1) % ChunkLength)]
    BY <1>1, <1>2, FlattenTyped
  <1>5. u \in Seq(Sample) /\ Len(u) = ChunkLength
    BY <1>1, SamplesTyped
  <1>6. ASSUME NEW k \in 1 .. ChunkLength PROVE w[k] = u[k]
    <2>1. k - 1 \in 0 .. ChunkLength - 1 /\ k - 1 = 0 * ChunkLength + (k - 1) /\ k \in 1 .. ChunkLength + n /\ 0 \in Nat
      BY <1>2
    <2>2. (k - 1) \div ChunkLength = 0 /\ (k - 1) % ChunkLength = k - 1
      BY <1>2, <2>1, QuotientIs
    <2>3. 1 + 0 = 1 /\ 1 + (k - 1) = k
      BY <1>2
    <2> QED
      BY <1>1, <1>4, <2>1, <2>2, <2>3
  <1>7. ASSUME NEW k \in 1 .. n PROVE w[ChunkLength + k] = v[k]
    <2> DEFINE q == (k - 1) \div ChunkLength
               r == (k - 1) % ChunkLength
               x == ChunkLength + k
    <2>0. k - 1 \in Nat
      BY <1>2
    <2>1. q \in Nat /\ r \in 0 .. ChunkLength - 1 /\ k - 1 = q * ChunkLength + r
      BY <1>2, <2>0, Quotient
    <2>q. 1 + q \in 1 .. Len(t) /\ v[k] = Samples(t[1 + q])[1 + r]
      BY <1>3
    <2>w. x \in 1 .. ChunkLength + n /\ w[x] = Samples(s[1 + ((x - 1) \div ChunkLength)])[1 + ((x - 1) % ChunkLength)]
      BY <1>2, <1>4
    <2>x. x - 1 = (k - 1) + ChunkLength
      BY <1>2
    <2> HIDE DEF q, r, x
    <2>2. (k - 1) + ChunkLength = (q + 1) * ChunkLength + r /\ q + 1 \in Nat
      BY <1>2, <2>1
    <2>3. ((q + 1) * ChunkLength + r) \div ChunkLength = q + 1 /\ (((q + 1) * ChunkLength + r) % ChunkLength) = r
      BY <1>2, <2>1, <2>2, QuotientIs
    <2>y. x - 1 = (q + 1) * ChunkLength + r
      BY <2>2, <2>x
    <2>4. t[1 + q] = s[1 + (q + 1)]
      BY <1>1, <2>1, <2>q
    <2> QED
      BY <2>3, <2>4, <2>q, <2>w, <2>y DEF x
  <1> HIDE DEF n, t, u, v, w
  <1>8. w = u \o v
    BY <1>2, <1>3, <1>4, <1>5, <1>6, <1>7, Pieces, ZenonT(40)
  <1> QED
    BY <1>8 DEF t, u, v, w

(***************************************************************************)
(* Every queue has one reader, a queue that was not made is empty, and the *)
(* last sample of a publisher on a line is that of its last chunk due.     *)
(***************************************************************************)
Made(q) == uses[q] # Nothing
InTable(q) == \E s \in Names : subscribers[s] = q
OneReader == \A a, b \in Adapters : uses[a] = uses[b] /\ uses[a] \in Adapters => a = b
TableOK == \A s \in Names : subscribers[s] # Nothing =>
              /\ Made(subscribers[s]) /\ NameOf[subscribers[s]] = s
              /\ \E a \in Adapters : uses[a] = subscribers[s]
MadeOK == /\ \A p \in Publishers, q \in Adapters : Awaits(p, q) => Made(q)
          /\ \A a \in Adapters : uses[a] \in Adapters => Made(uses[a])
          /\ \A q \in Adapters : ~Made(q) => queues[q] = <<>>
Wiring == OneReader /\ TableOK /\ MadeOK

EndsAt(s, p, m) ==
    \A i \in 1 .. Len(s) : s[i].by = p /\ (\A k \in i + 1 .. Len(s) : s[k].by # p) => s[i].n = m
Complete(s, q) ==
    /\ Contiguous(s)
    /\ \A p \in Publishers : InTable(q) \/ Awaits(p, q) => EndsAt(s, p, Due(p, q) * ChunkLength)
GapFree == \A a \in Adapters, q \in Adapters \ overrun : uses[a] = q => Complete(Line(a), q)

GapInv == StreamInv /\ Wiring /\ GapFree

LEMMA NextChunk ==
    ASSUME NEW s \in Seq(Sample), NEW c \in ChunkOf, Contiguous(s), EndsAt(s, c.by, (c.n - 1) * ChunkLength)
    PROVE  /\ Contiguous(s \o Samples(c))
           /\ EndsAt(s \o Samples(c), c.by, c.n * ChunkLength)
           /\ \A p, m : p # c.by /\ EndsAt(s, p, m) => EndsAt(s \o Samples(c), p, m)
  <1> DEFINE w == s \o Samples(c)
             b == (c.n - 1) * ChunkLength
  <1>1. /\ Samples(c) \in Seq(Sample) /\ Len(Samples(c)) = ChunkLength /\ ChunkLength \in Nat \ {0}
        /\ \A i \in 1 .. ChunkLength : /\ Samples(c)[i].by = c.by
                                       /\ Samples(c)[i].n = b + i
    BY SamplesTyped, QueueAssumption
  <1>2. /\ Len(w) = Len(s) + ChunkLength /\ Len(s) \in Nat
        /\ \A i \in 1 .. Len(s) : w[i] = s[i]
        /\ \A i \in 1 .. ChunkLength : w[Len(s) + i] = Samples(c)[i]
    BY <1>1
  <1>3. b \in Nat /\ c.n * ChunkLength = b + ChunkLength
    <2>1. c.n \in Nat /\ c.n - 1 \in Nat /\ ChunkLength \in Nat
      BY QueueAssumption DEF ChunkOf
    <2> QED
      BY <2>1
  <1>4. \A i \in 1 .. Len(s) : s[i].n \in Nat
    <2>1. \A x \in Sample : x.n \in Nat
      BY QueueAssumption DEF Sample
    <2> QED
      BY <2>1
  <1>5. ASSUME NEW i \in 1 .. Len(w), i \notin 1 .. Len(s)
        PROVE  i - Len(s) \in 1 .. ChunkLength /\ w[i].by = c.by /\ w[i].n = b + (i - Len(s))
    <2>1. i - Len(s) \in 1 .. ChunkLength /\ i = Len(s) + (i - Len(s))
      BY <1>1, <1>2, <1>5
    <2>2. w[i] = Samples(c)[i - Len(s)]
      BY <1>2, <2>1
    <2> QED
      BY <1>1, <2>1, <2>2
  <1> HIDE DEF w, b
  <1>6. ASSUME NEW i \in 1 .. Len(w), NEW j \in 1 .. Len(w), Follows(w, i, j)
        PROVE  w[j].n = w[i].n + 1
    <2>1. /\ i < j /\ w[i].by = w[j].by
          /\ \A k \in i + 1 .. j - 1 : w[k].by # w[j].by
      BY <1>6 DEF Follows
    <2>2. CASE j \in 1 .. Len(s)
      <3>1. i \in 1 .. Len(s) /\ \A k \in i + 1 .. j - 1 : k \in 1 .. Len(s)
        BY <1>2, <2>1, <2>2
      <3>2. Follows(s, i, j)
        BY <1>2, <2>1, <2>2, <3>1 DEF Follows
      <3> QED
        BY <1>2, <2>2, <3>1, <3>2 DEF Contiguous
    <2>3. CASE j \notin 1 .. Len(s) /\ i \in 1 .. Len(s)
      <3>1. /\ j - Len(s) \in 1 .. ChunkLength /\ w[j].by = c.by /\ w[j].n = b + (j - Len(s))
        BY <1>5, <2>3
      <3>2. j = Len(s) + 1
        <4>1. SUFFICES ASSUME j # Len(s) + 1 PROVE FALSE
          OBVIOUS
        <4>2. Len(s) + 1 \in 1 .. Len(w) /\ Len(s) + 1 \notin 1 .. Len(s) /\ Len(s) + 1 \in i + 1 .. j - 1
          <5>1. Len(s) \in Nat /\ ChunkLength \in Nat \ {0} /\ Len(w) = Len(s) + ChunkLength
            BY <1>1, <1>2
          <5>2. i \in 1 .. Len(s) /\ j - Len(s) \in 1 .. ChunkLength /\ j \in Int
            BY <2>3, <3>1
          <5> QED
            BY <4>1, <5>1, <5>2
        <4>3. w[Len(s) + 1].by = c.by
          BY <1>5, <4>2
        <4> QED
          BY <2>1, <3>1, <4>2, <4>3
      <3>3. \A k \in i + 1 .. Len(s) : k \in 1 .. Len(s) /\ s[k].by # c.by
        BY <1>2, <2>1, <2>3, <3>1, <3>2
      <3>4. s[i].n = b /\ w[i] = s[i]
        BY <1>2, <2>1, <2>3, <3>1, <3>3 DEF EndsAt, b
      <3> QED
        BY <1>2, <1>3, <3>1, <3>2, <3>4
    <2>4. CASE j \notin 1 .. Len(s) /\ i \notin 1 .. Len(s)
      <3>1. /\ j - Len(s) \in 1 .. ChunkLength /\ w[j].by = c.by /\ w[j].n = b + (j - Len(s))
            /\ i - Len(s) \in 1 .. ChunkLength /\ w[i].by = c.by /\ w[i].n = b + (i - Len(s))
        BY <1>5, <2>4
      <3>2. j = i + 1
        <4>1. SUFFICES ASSUME j # i + 1 PROVE FALSE
          OBVIOUS
        <4>2. i + 1 \in 1 .. Len(w) /\ i + 1 \notin 1 .. Len(s) /\ i + 1 \in i + 1 .. j - 1
          BY <1>2, <2>1, <2>4, <4>1
        <4>3. w[i + 1].by = c.by
          BY <1>5, <4>2
        <4> QED
          BY <2>1, <3>1, <4>2, <4>3
      <3> QED
        BY <1>2, <1>3, <3>1, <3>2
    <2> QED
      BY <2>2, <2>3, <2>4
  <1>7. EndsAt(w, c.by, c.n * ChunkLength)
    <2> SUFFICES ASSUME NEW i \in 1 .. Len(w), w[i].by = c.by, \A k \in i + 1 .. Len(w) : w[k].by # c.by
                 PROVE  w[i].n = c.n * ChunkLength
      BY DEF EndsAt
    <2>1. Len(w) \in 1 .. Len(w) /\ Len(w) \notin 1 .. Len(s)
      BY <1>1, <1>2
    <2>2. w[Len(w)].by = c.by /\ w[Len(w)].n = b + (Len(w) - Len(s))
      BY <1>5, <2>1
    <2>3. i = Len(w)
      BY <1>1, <1>2, <2>1, <2>2
    <2> QED
      BY <1>1, <1>2, <1>3, <2>2, <2>3
  <1>8. ASSUME NEW p, NEW m, p # c.by, EndsAt(s, p, m) PROVE EndsAt(w, p, m)
    <2> SUFFICES ASSUME NEW i \in 1 .. Len(w), w[i].by = p, \A k \in i + 1 .. Len(w) : w[k].by # p
                 PROVE  w[i].n = m
      BY DEF EndsAt
    <2>1. i \in 1 .. Len(s)
      BY <1>5, <1>8
    <2>2. \A k \in i + 1 .. Len(s) : k \in 1 .. Len(s) /\ k \in i + 1 .. Len(w) /\ s[k].by # p
      BY <1>1, <1>2, <2>1
    <2> QED
      BY <1>2, <1>8, <2>1, <2>2 DEF EndsAt
  <1> QED
    BY <1>6, <1>7, <1>8 DEF Contiguous, w

LEMMA RestOfLine ==
    ASSUME NEW s \in Seq(Sample), NEW t \in Seq(Sample)
    PROVE  /\ Contiguous(s \o t) => Contiguous(t)
           /\ \A p, m : EndsAt(s \o t, p, m) => EndsAt(t, p, m)
  <1> DEFINE w == s \o t
  <1>1. /\ Len(w) = Len(s) + Len(t) /\ Len(s) \in Nat /\ Len(t) \in Nat
        /\ \A i \in 1 .. Len(t) : Len(s) + i \in 1 .. Len(w) /\ w[Len(s) + i] = t[i]
    OBVIOUS
  <1> HIDE DEF w
  <1>2. ASSUME Contiguous(w), NEW i \in 1 .. Len(t), NEW j \in 1 .. Len(t), Follows(t, i, j)
        PROVE  t[j].n = t[i].n + 1
    <2> DEFINE x == Len(s) + i
               y == Len(s) + j
    <2>1. /\ x \in 1 .. Len(w) /\ y \in 1 .. Len(w) /\ w[x] = t[i] /\ w[y] = t[j] /\ x < y
          /\ w[x].by = w[y].by
      BY <1>1, <1>2 DEF Follows
    <2>2. ASSUME NEW k \in x + 1 .. y - 1 PROVE w[k].by # w[y].by
      <3>1. /\ k - Len(s) \in i + 1 .. j - 1 /\ k - Len(s) \in 1 .. Len(t) /\ k = Len(s) + (k - Len(s))
        BY <1>1, <2>1
      <3>2. w[k] = t[k - Len(s)]
        BY <1>1, <3>1
      <3> QED
        BY <1>2, <2>1, <3>1, <3>2 DEF Follows
    <2> HIDE DEF x, y
    <2>3. Follows(w, x, y)
      BY <2>1, <2>2 DEF Follows
    <2> QED
      BY <1>2, <2>1, <2>3 DEF Contiguous
  <1>3. ASSUME NEW p, NEW m, EndsAt(w, p, m), NEW i \in 1 .. Len(t), t[i].by = p, \A k \in i + 1 .. Len(t) : t[k].by # p
        PROVE  t[i].n = m
    <2> DEFINE x == Len(s) + i
    <2>1. x \in 1 .. Len(w) /\ w[x] = t[i]
      BY <1>1
    <2>2. ASSUME NEW k \in x + 1 .. Len(w) PROVE w[k].by # p
      <3>1. k - Len(s) \in i + 1 .. Len(t) /\ k - Len(s) \in 1 .. Len(t) /\ k = Len(s) + (k - Len(s))
        BY <1>1, <2>1
      <3> QED
        BY <1>1, <1>3, <3>1
    <2> HIDE DEF x
    <2> QED
      BY <1>3, <2>1, <2>2 DEF EndsAt
  <1> QED
    BY <1>2, <1>3 DEF Contiguous, EndsAt, w

LEMMA GapInit == QueueInit => GapInv
  <1> SUFFICES ASSUME QueueInit PROVE GapInv
    OBVIOUS
  <1>1. /\ \A s \in Names : subscribers[s] = Nothing
        /\ \A a \in Adapters : uses[a] = Nothing /\ queues[a] = <<>>
        /\ \A p \in Publishers : todo[p] = <<>>
    BY DEF QueueInit
  <1>2. \A p \in Publishers, q \in Adapters : ~Awaits(p, q)
    BY <1>1 DEF Awaits
  <1>3. Wiring
    BY <1>1, <1>2, NothingAssumption DEF Wiring, OneReader, TableOK, MadeOK, Made
  <1>4. GapFree
    BY <1>1, NothingAssumption DEF GapFree
  <1> QED
    BY <1>3, <1>4, StreamInit DEF GapInv

LEMMA LineIs ==
    ASSUME RoomInv, NEW a \in Adapters, NEW q \in Adapters, uses[a] = q
    PROVE  /\ Line(a) = Taken(a) \o Flatten(queues[q])
           /\ Taken(a) \in Seq(Sample) /\ Flatten(queues[q]) \in Seq(Sample)
           /\ Line(a) \in Seq(Sample) /\ queues[q] \in Seq(ChunkOf)
  <1>1. queues[q] \in Seq(ChunkOf)
    BY DEF RoomInv, QueueTypeOK
  <1>2. Taken(a) \in Seq(Sample) /\ Flatten(queues[q]) \in Seq(Sample)
    BY <1>1, TakenTyped, FlattenTyped
  <1>3. Line(a) = Taken(a) \o Flatten(queues[q])
    BY Zenon DEF Line, Taken
  <1> QED
    BY <1>1, <1>2, <1>3

LEMMA LineThen ==
    ASSUME NEW a \in Adapters, NEW q \in Adapters, uses'[a] = q
    PROVE  Line(a)' = Taken(a)' \o Flatten(queues'[q])
  <1>1. Line(a)' = (given'[a] \o chunkList'[a]) \o Flatten(queues'[uses'[a]])
    BY DEF Line
  <1> QED
    BY <1>1 DEF Taken

(* The lines of those who neither get nor give anything. *)
LEMMA SameLine ==
    ASSUME GapInv, NEW a \in Adapters, NEW q \in Adapters, uses[a] = q, uses'[a] = q,
           Taken(a)' = Taken(a), queues'[q] = queues[q]
    PROVE  Line(a)' = Line(a)
  <1>1. Line(a)' = Taken(a)' \o Flatten(queues'[q])
    BY LineThen
  <1>2. Line(a) = Taken(a) \o Flatten(queues[q])
    BY LineIs DEF GapInv, StreamInv
  <1> QED
    BY <1>1, <1>2, Zenon

LEMMA StillComplete ==
    ASSUME GapInv, NEW a \in Adapters, NEW q \in Adapters \ overrun, uses[a] = q, Line(a)' = Line(a),
           \A p \in Publishers : InTable(q)' \/ Awaits(p, q)' =>
               (InTable(q) \/ Awaits(p, q)) /\ Due(p, q)' = Due(p, q)
    PROVE  Complete(Line(a), q)'
  <1>1. Complete(Line(a), q)
    BY DEF GapInv, GapFree
  <1>2. Contiguous(Line(a)') /\ \A p \in Publishers : InTable(q)' \/ Awaits(p, q)' => EndsAt(Line(a)', p, Due(p, q)' * ChunkLength)
    BY <1>1 DEF Complete
  <1> QED
    BY <1>2 DEF Complete, Contiguous, Follows, EndsAt

(* Nobody comes or goes. *)
LEMMA WiringKept ==
    ASSUME Wiring, UNCHANGED <<subscribers, uses>>,
           \A p \in Publishers, q \in Adapters : Awaits(p, q)' => Awaits(p, q) \/ InTable(q),
           \A q \in Adapters : queues[q] = <<>> => queues'[q] = <<>> \/ \E p \in Publishers : Awaits(p, q)
    PROVE  Wiring'
  <1>1. OneReader' /\ TableOK'
    BY DEF Wiring, OneReader, TableOK, Made
  <1>2. \A q \in Adapters : InTable(q) => Made(q)
    BY NothingAssumption DEF Wiring, TableOK, InTable
  <1>3. MadeOK'
    BY <1>2 DEF Wiring, MadeOK, Made
  <1> QED
    BY <1>1, <1>3 DEF Wiring

LEMMA GapDelivering ==
    ASSUME GapInv, StreamInv', NEW p \in Publishers, Busy(p), ~IsFull(Target(p)), Delivers(p),
           UNCHANGED <<subscribers, uses, published, given, chunkList, overrun>>
    PROVE  GapInv'
  <1>r. RoomInv /\ RoomInv' /\ StreamInv /\ Wiring /\ GapFree
    BY DEF GapInv, StreamInv
  <1>1. PICK z \in Adapters : z = Target(p)
    BY <1>r, DeliversTyped
  <1>2. /\ todo'[p] = Tail(todo[p]) /\ \A r \in Publishers \ {p} : todo'[r] = todo[r]
        /\ queues'[z] = Append(queues[z], Newest(p)) /\ Newest(p) \in ChunkOf
        /\ \A q \in Adapters \ {z} : queues'[q] = queues[q]
    BY <1>1, <1>r, DeliversTyped
  <1>3. todo' \in [Publishers -> Seq(Adapters)]
    BY <1>r DEF RoomInv, QueueTypeOK
  <1>4. /\ \A q \in Adapters : Awaits(p, q)' <=> Awaits(p, q) /\ q # z
        /\ \A r \in Publishers \ {p} : \A q \in Adapters : Awaits(r, q)' <=> Awaits(r, q)
        /\ Awaits(p, z)
    BY <1>1, <1>2, <1>3, <1>r, OneLessToFill DEF StreamInv
  <1>5. /\ Due(p, z) = published[p] - 1 /\ Due(p, z)' = published[p]
        /\ \A r \in Publishers, q \in Adapters : r # p \/ q # z => Due(r, q)' = Due(r, q)
    BY <1>4 DEF Due
  <1>6. Wiring'
    <2>1. \A q \in Adapters : queues[q] = <<>> => queues'[q] = <<>> \/ \E r \in Publishers : Awaits(r, q)
      BY <1>2, <1>4
    <2>2. \A r \in Publishers, q \in Adapters : Awaits(r, q)' => Awaits(r, q)
      BY <1>4
    <2> QED
      BY <1>r, <2>1, <2>2, WiringKept
  <1>7. \A q : InTable(q)' <=> InTable(q)
    BY DEF InTable
  <1>8. ASSUME NEW a \in Adapters, NEW q \in Adapters \ overrun, uses[a] = q
        PROVE  Complete(Line(a), q)'
    <2>1. Taken(a)' = Taken(a) /\ uses'[a] = q
      BY <1>8 DEF Taken
    <2>2. CASE q # z
      <3>1. Line(a)' = Line(a)
        BY <1>2, <1>8, <2>1, <2>2, SameLine
      <3>2. \A r \in Publishers : InTable(q)' \/ Awaits(r, q)' => (InTable(q) \/ Awaits(r, q)) /\ Due(r, q)' = Due(r, q)
        BY <1>4, <1>5, <1>7, <2>2
      <3> QED
        BY <1>8, <3>1, <3>2, StillComplete
    <2>3. CASE q = z
      <3> DEFINE c == Newest(p)
                 s == Line(a)
      <3>1. /\ s = Taken(a) \o Flatten(queues[q]) /\ Taken(a) \in Seq(Sample) /\ Flatten(queues[q]) \in Seq(Sample)
            /\ queues[q] \in Seq(ChunkOf) /\ s \in Seq(Sample)
        BY <1>8, <1>r, LineIs
      <3>2. Flatten(queues'[q]) = Flatten(queues[q]) \o Samples(c)
        BY <1>2, <2>3, <3>1, FlattenAppend
      <3>3. Line(a)' = Taken(a) \o (Flatten(queues[q]) \o Samples(c))
        BY <2>1, <3>2, LineThen
      <3>4. Samples(c) \in Seq(Sample)
        BY <1>2, SamplesTyped
      <3>a. (Taken(a) \o Flatten(queues[q])) \o Samples(c) = Taken(a) \o (Flatten(queues[q]) \o Samples(c))
        BY <3>1, <3>4, Grouping
      <3>5. Line(a)' = s \o Samples(c)
        BY <3>1, <3>3, <3>a, Zenon
      <3>6. /\ Contiguous(s)
            /\ \A r \in Publishers : InTable(q) \/ Awaits(r, q) => EndsAt(s, r, Due(r, q) * ChunkLength)
        BY <1>8, <1>r DEF GapFree, Complete
      <3>7. c.by = p /\ c.n = published[p]
        BY DEF Newest
      <3> HIDE DEF c, s
      <3>8. EndsAt(s, c.by, (c.n - 1) * ChunkLength)
        BY <1>4, <1>5, <2>3, <3>6, <3>7
      <3>9. /\ Contiguous(s \o Samples(c))
            /\ EndsAt(s \o Samples(c), c.by, c.n * ChunkLength)
            /\ \A r, m : r # c.by /\ EndsAt(s, r, m) => EndsAt(s \o Samples(c), r, m)
        BY <1>2, <3>1, <3>6, <3>8, NextChunk DEF c
      <3>10. \A r \in Publishers : InTable(q)' \/ Awaits(r, q)' => EndsAt(Line(a)', r, Due(r, q)' * ChunkLength)
        BY <1>4, <1>5, <1>7, <2>3, <3>5, <3>6, <3>7, <3>9
      <3>11. Contiguous(Line(a)')
        BY <3>5, <3>9
      <3> QED
        BY <3>10, <3>11 DEF Complete, Contiguous, Follows, EndsAt
    <2> QED
      BY <2>2, <2>3
  <1>9. GapFree'
    BY <1>8 DEF GapFree
  <1> QED
    BY <1>6, <1>9 DEF GapInv

(* A reader comes: its queue is new, or it goes on with that of another.   *)
LEMMA Subscribing ==
    ASSUME GapInv, StreamInv', NEW a \in Adapters, SubscribeNew(a)
    PROVE  GapInv'
  <1>r. RoomInv /\ StreamInv /\ Wiring /\ GapFree /\ QueueTypeOK
    BY DEF GapInv, StreamInv, RoomInv
  <1>1. /\ uses[a] = Nothing /\ subscribers[NameOf[a]] = Nothing /\ NameOf[a] \in Names
        /\ uses'[a] = a /\ \A b \in Adapters \ {a} : uses'[b] = uses[b]
        /\ subscribers'[NameOf[a]] = a /\ \A s \in Names \ {NameOf[a]} : subscribers'[s] = subscribers[s]
        /\ UNCHANGED <<queues, overrun, published, todo, chunkList, given>>
    BY <1>r DEF SubscribeNew, publisherVars, adapterVars, QueueTypeOK, Names
  <1>2. /\ a # Nothing /\ \A b \in Adapters : uses[b] # a /\ \A s \in Names : subscribers[s] # a
    BY <1>1, <1>r, NothingAssumption DEF Wiring, MadeOK, TableOK, Made
  <1>3. queues[a] = <<>> /\ \A p \in Publishers : ~Awaits(p, a)
    BY <1>1, <1>r DEF Wiring, MadeOK, Made
  <1>4. Wiring'
    <2>1. OneReader'
      BY <1>1, <1>2, <1>r DEF Wiring, OneReader
    <2>2. TableOK'
      <3> SUFFICES ASSUME NEW s \in Names, subscribers'[s] # Nothing
                   PROVE  /\ uses'[subscribers'[s]] # Nothing /\ NameOf[subscribers'[s]] = s
                          /\ \E b \in Adapters : uses'[b] = subscribers'[s]
        BY DEF TableOK, Made
      <3>1. CASE s = NameOf[a]
        BY <1>1, <1>2, <3>1
      <3>2. CASE s # NameOf[a]
        <4>1. subscribers'[s] = subscribers[s] /\ subscribers[s] \in Adapters
          BY <1>1, <1>r, <3>2 DEF QueueTypeOK
        <4>2. subscribers[s] # a /\ uses[subscribers[s]] # Nothing /\ NameOf[subscribers[s]] = s
          BY <1>2, <1>r, <4>1, NothingAssumption DEF Wiring, TableOK, Made
        <4>3. PICK b \in Adapters : uses[b] = subscribers[s]
          BY <1>r, <4>1, NothingAssumption DEF Wiring, TableOK
        <4>4. b # a
          BY <1>1, <4>1, <4>3, NothingAssumption
        <4> QED
          BY <1>1, <4>1, <4>2, <4>3, <4>4
      <3> QED
        BY <3>1, <3>2
    <2>3. MadeOK'
      <3>1. \A q \in Adapters : Made(q) => Made(q)'
        BY <1>1, <1>2 DEF Made
      <3>2. \A p \in Publishers, q \in Adapters : Awaits(p, q)' => Awaits(p, q)
        BY <1>1 DEF Awaits
      <3>3. \A b \in Adapters : uses'[b] \in Adapters => Made(uses[b])' \/ uses'[b] = a
        BY <1>1, <1>r, <3>1 DEF Wiring, MadeOK, Made
      <3>4. \A b \in Adapters : uses'[b] \in Adapters => uses'[uses'[b]] # Nothing
        BY <1>1, <1>2, <1>r DEF Wiring, MadeOK, Made
      <3> QED
        BY <1>1, <1>r, <3>1, <3>2, <3>4 DEF Wiring, MadeOK, Made
    <2> QED
      BY <2>1, <2>2, <2>3 DEF Wiring
  <1>5. ASSUME NEW b \in Adapters, NEW q \in Adapters \ overrun, uses'[b] = q
        PROVE  Complete(Line(b), q)'
    <2>t. Taken(b)' = Taken(b)
      BY <1>1 DEF Taken
    <2>1. CASE b = a
      <3>1. q = a
        BY <1>1, <1>5, <2>1
      <3>2. Taken(a) = <<>>
        BY <1>1, <1>r DEF StreamInv, TakenInOrder, TakenOK, Taken
      <3>3. Flatten(queues'[a]) = <<>>
        BY <1>1, <1>3, QueueAssumption DEF Flatten
      <3>4. Line(b)' = <<>>
        BY <1>5, <2>1, <2>t, <3>1, <3>2, <3>3, LineThen
      <3>5. Len(Line(b)') = 0
        BY <3>4
      <3> QED
        BY <3>5 DEF Complete, Contiguous, EndsAt
    <2>2. CASE b # a
      <3>1. uses[b] = q /\ q # a
        BY <1>1, <1>2, <1>5, <2>2
      <3>2. Line(b)' = Line(b)
        BY <1>1, <1>5, <2>t, <3>1, SameLine
      <3>3. InTable(q)' => InTable(q)
        BY <1>1, <3>1 DEF InTable
      <3>4. \A p \in Publishers : (Awaits(p, q)' <=> Awaits(p, q)) /\ Due(p, q)' = Due(p, q)
        BY <1>1 DEF Awaits, Due
      <3> QED
        BY <3>1, <3>2, <3>3, <3>4, StillComplete
    <2> QED
      BY <2>1, <2>2
  <1>6. GapFree'
    BY <1>1, <1>5 DEF GapFree
  <1> QED
    BY <1>4, <1>6 DEF GapInv

LEMMA Succeeding ==
    ASSUME GapInv, StreamInv', NEW a \in Adapters, SubscribeAgain(a)
    PROVE  GapInv'
  <1>r. RoomInv /\ StreamInv /\ Wiring /\ GapFree /\ QueueTypeOK
    BY DEF GapInv, StreamInv, RoomInv
  <1>0. NameOf[a] \in Names /\ subscribers[NameOf[a]] \in Adapters
    BY <1>r DEF SubscribeAgain, Names, QueueTypeOK
  <1>z. PICK z \in Adapters : z = subscribers[NameOf[a]]
    BY <1>0
  <1>1. /\ uses[a] = Nothing /\ uses'[a] = z
        /\ \A b \in Adapters \ {a} : uses'[b] = IF uses[b] = z THEN Left ELSE uses[b]
        /\ UNCHANGED <<subscribers, queues, overrun, published, todo, chunkList, given>>
    BY <1>z, <1>r DEF SubscribeAgain, publisherVars, adapterVars
  <1>2. PICK c \in Adapters : uses[c] = z
    BY <1>0, <1>z, <1>r, NothingAssumption DEF Wiring, TableOK
  <1>3. Made(z) /\ Left # Nothing /\ Left \notin Adapters /\ Nothing \notin Adapters
    BY <1>2, <1>r, NothingAssumption DEF Wiring, MadeOK, Left, Nothing
  <1>m. \A q \in Adapters : Made(q) => Made(q)'
    BY <1>1, <1>3 DEF Made
  <1>4. Wiring'
    <2>1. OneReader'
      <3> SUFFICES ASSUME NEW b \in Adapters, NEW d \in Adapters, uses'[b] = uses'[d], uses'[b] \in Adapters
                   PROVE  b = d
        BY DEF OneReader
      <3>1. \A e \in Adapters \ {a} : uses'[e] \in Adapters => uses'[e] = uses[e] /\ uses[e] # z
        BY <1>1, <1>3
      <3> QED
        BY <1>1, <1>r, <3>1 DEF Wiring, OneReader
    <2>2. TableOK'
      <3> SUFFICES ASSUME NEW s \in Names, subscribers[s] # Nothing
                   PROVE  /\ uses'[subscribers[s]] # Nothing /\ NameOf[subscribers[s]] = s
                          /\ \E b \in Adapters : uses'[b] = subscribers[s]
        BY <1>1 DEF TableOK, Made
      <3>1. subscribers[s] \in Adapters
        BY <1>r DEF QueueTypeOK
      <3>2. uses'[subscribers[s]] # Nothing /\ NameOf[subscribers[s]] = s
        BY <1>m, <1>r, <3>1 DEF Wiring, TableOK, Made
      <3>3. PICK b \in Adapters : uses[b] = subscribers[s]
        BY <1>r DEF Wiring, TableOK
      <3>4. subscribers[s] = z => uses'[a] = subscribers[s]
        BY <1>1
      <3>5. subscribers[s] # z => uses'[b] = subscribers[s]
        BY <1>1, <1>3, <3>1, <3>3
      <3> QED
        BY <3>2, <3>4, <3>5
    <2>3. MadeOK'
      <3>2. \A p \in Publishers, q \in Adapters : Awaits(p, q)' => Awaits(p, q)
        BY <1>1 DEF Awaits
      <3>4. ASSUME NEW b \in Adapters, uses'[b] \in Adapters PROVE uses'[uses'[b]] # Nothing
        <4>1. uses'[b] = z \/ uses'[b] = uses[b]
          BY <1>1, <1>3, <3>4
        <4> QED
          BY <1>3, <1>m, <1>r, <3>4, <4>1 DEF Wiring, MadeOK, Made
      <3>5. \A p \in Publishers, q \in Adapters : Awaits(p, q)' => Made(q)'
        BY <1>m, <1>r, <3>2 DEF Wiring, MadeOK
      <3>6. \A q \in Adapters : ~Made(q)' => queues'[q] = <<>>
        BY <1>1, <1>m, <1>r DEF Wiring, MadeOK
      <3>7. \A b \in Adapters : uses'[b] \in Adapters => Made(uses[b])'
        BY <3>4 DEF Made
      <3> QED
        BY <3>5, <3>6, <3>7 DEF MadeOK
    <2> QED
      BY <2>1, <2>2, <2>3 DEF Wiring
  <1>5. ASSUME NEW b \in Adapters, NEW q \in Adapters \ overrun, uses'[b] = q
        PROVE  Complete(Line(b), q)'
    <2>t. Taken(b)' = Taken(b)
      BY <1>1 DEF Taken
    <2>i. InTable(q)' <=> InTable(q)
      BY <1>1 DEF InTable
    <2>w. \A p \in Publishers : (Awaits(p, q)' <=> Awaits(p, q)) /\ Due(p, q)' = Due(p, q)
      BY <1>1 DEF Awaits, Due
    <2>1. CASE b = a
      <3> DEFINE f == Flatten(queues[z])
                 l == Line(c)
                 t == Taken(c)
      <3>1. q = z
        BY <1>1, <1>5, <2>1
      <3>2. Taken(a) = <<>>
        BY <1>1, <1>r DEF StreamInv, TakenInOrder, TakenOK, Taken
      <3>3. l = t \o f /\ t \in Seq(Sample) /\ f \in Seq(Sample)
        BY <1>2, <1>r, LineIs
      <3>4. Line(b)' = <<>> \o f
        <4>1. Line(b)' = Taken(b)' \o Flatten(queues'[z])
          BY <1>1, <2>1, LineThen
        <4>2. Taken(b)' = <<>> /\ queues' = queues
          BY <1>1, <2>1, <2>t, <3>2
        <4> QED
          BY <4>1, <4>2
      <3> HIDE DEF f
      <3>5. Line(b)' = f
        BY <3>3, <3>4
      <3>6. /\ Contiguous(l)
            /\ \A p \in Publishers : InTable(q) \/ Awaits(p, q) => EndsAt(l, p, Due(p, q) * ChunkLength)
        BY <1>2, <1>5, <1>r, <3>1 DEF GapFree, Complete
      <3> HIDE DEF l, t
      <3>7. Contiguous(f) /\ \A p, m : EndsAt(l, p, m) => EndsAt(f, p, m)
        BY <3>3, <3>6, RestOfLine
      <3>8. /\ Contiguous(Line(b)')
            /\ \A p \in Publishers : InTable(q)' \/ Awaits(p, q)' => EndsAt(Line(b)', p, Due(p, q)' * ChunkLength)
        BY <2>i, <2>w, <3>5, <3>6, <3>7
      <3> QED
        BY <3>8 DEF Complete, Contiguous, Follows, EndsAt
    <2>2. CASE b # a
      <3>1. uses[b] = q
        BY <1>1, <1>3, <1>5, <2>2
      <3>2. Line(b)' = Line(b)
        BY <1>1, <1>5, <2>t, <3>1, SameLine
      <3> QED
        BY <2>i, <2>w, <3>1, <3>2, StillComplete
    <2> QED
      BY <2>1, <2>2
  <1>6. GapFree'
    BY <1>1, <1>5 DEF GapFree
  <1> QED
    BY <1>4, <1>6 DEF GapInv

(* Samples go from the queue to the adapter: the line stays what it was.   *)
LEMMA Reading ==
    ASSUME GapInv, StreamInv', NEW a \in Adapters, Fill(a)
    PROVE  GapInv'
  <1>r. RoomInv /\ StreamInv /\ Wiring /\ GapFree /\ QueueTypeOK
    BY DEF GapInv, StreamInv, RoomInv
  <1>z. PICK z \in Adapters : z = uses[a]
    BY DEF Fill
  <1> DEFINE c == Head(queues[z])
  <1>1. /\ queues[z] # <<>> /\ uses[a] = z
        /\ queues'[z] = Tail(queues[z]) /\ \A q \in Adapters \ {z} : queues'[q] = queues[q]
        /\ chunkList'[a] = chunkList[a] \o Samples(c) /\ \A b \in Adapters \ {a} : chunkList'[b] = chunkList[b]
        /\ UNCHANGED <<subscribers, uses, overrun, published, todo, given>>
    BY <1>z, <1>r DEF Fill, publisherVars, QueueTypeOK
  <1>2. /\ queues[z] \in Seq(ChunkOf) /\ c \in ChunkOf /\ chunkList[a] \in Seq(Sample) /\ given[a] \in Seq(Sample)
        /\ Samples(c) \in Seq(Sample) /\ Tail(queues[z]) \in Seq(ChunkOf)
    BY <1>1, <1>r, SamplesTyped DEF QueueTypeOK
  <1> HIDE DEF c
  <1>3. \A p, q : (Awaits(p, q)' <=> Awaits(p, q)) /\ Due(p, q)' = Due(p, q) /\ (InTable(q)' <=> InTable(q))
    BY <1>1 DEF Awaits, Due, InTable
  <1>4. Wiring'
    <2>1. \A q \in Adapters : queues[q] = <<>> => queues'[q] = <<>>
      BY <1>1
    <2> QED
      BY <1>1, <1>3, <1>r, <2>1, WiringKept
  <1>5. ASSUME NEW b \in Adapters, NEW q \in Adapters \ overrun, uses[b] = q
        PROVE  Complete(Line(b), q)'
    <2>1. uses'[b] = q
      BY <1>1, <1>5
    <2>2. Line(b)' = Line(b)
      <3>1. CASE b = a
        <4> DEFINE t == Taken(a)
                   u == Samples(c)
                   v == Flatten(Tail(queues[z]))
        <4>1. Line(b)' = Taken(a)' \o v
          BY <1>1, <1>5, <2>1, <3>1, LineThen, SMTT(40)
        <4>2. Taken(a)' = given[a] \o (chunkList[a] \o u)
          BY <1>1, Zenon DEF Taken
        <4>3. (given[a] \o chunkList[a]) \o u = given[a] \o (chunkList[a] \o u)
          BY <1>2, Grouping
        <4>4. Taken(a)' = t \o u
          BY <4>2, <4>3, Zenon DEF Taken
        <4>5. t \in Seq(Sample) /\ v \in Seq(Sample)
          BY <1>2, <1>r, TakenTyped, FlattenTyped
        <4>6. (t \o u) \o v = t \o (u \o v)
          BY <1>2, <4>5, Grouping, SMTT(40)
        <4>7. Flatten(queues[z]) = u \o v
          BY <1>1, <1>2, FlattenHead DEF c
        <4>8. Line(b) = t \o Flatten(queues[z])
          BY <1>1, <1>r, <3>1, LineIs
        <4> QED
          BY <4>1, <4>4, <4>6, <4>7, <4>8, Zenon
      <3>2. CASE b # a
        <4>1. q # z
          BY <1>1, <1>5, <1>r, <3>2 DEF Wiring, OneReader
        <4>2. Taken(b)' = Taken(b)
          BY <1>1, <3>2 DEF Taken
        <4> QED
          BY <1>1, <1>5, <2>1, <4>1, <4>2, SameLine
      <3> QED
        BY <3>1, <3>2
    <2> QED
      BY <1>3, <1>5, <2>2, StillComplete
  <1>6. GapFree'
    BY <1>1, <1>5 DEF GapFree
  <1> QED
    BY <1>4, <1>6 DEF GapInv

LEMMA GapStep == GapInv /\ [QueueNext]_queueVars => GapInv'
  <1> SUFFICES ASSUME GapInv, [QueueNext]_queueVars PROVE GapInv'
    OBVIOUS
  <1>r. RoomInv /\ RoomInv' /\ StreamInv /\ StreamInv' /\ Wiring /\ GapFree /\ QueueTypeOK
    BY StreamStep DEF GapInv, StreamInv, RoomInv
  (* No line changes but those of the queues that have lost a chunk. *)
  <1>f. ASSUME UNCHANGED uses, overrun \subseteq overrun', Wiring',
               \A a \in Adapters : Taken(a)' = Taken(a),
               \A q \in Adapters \ overrun' : queues'[q] = queues[q],
               \A p \in Publishers, q \in Adapters \ overrun' : InTable(q)' \/ Awaits(p, q)' =>
                   (InTable(q) \/ Awaits(p, q)) /\ Due(p, q)' = Due(p, q)
        PROVE  GapInv'
    <2>1. ASSUME NEW a \in Adapters, NEW q \in Adapters \ overrun', uses'[a] = q
          PROVE  Complete(Line(a), q)'
      <3>1. uses[a] = q /\ q \notin overrun
        BY <1>f, <2>1
      <3>2. Line(a)' = Line(a)
        BY <1>f, <2>1, <3>1, SameLine
      <3> QED
        BY <1>f, <2>1, <3>1, <3>2, StillComplete
    <2>2. GapFree'
      BY <2>1 DEF GapFree
    <2> QED
      BY <1>f, <1>r, <2>2 DEF GapInv
  (* The adapters stay as they are. *)
  <1>u. UNCHANGED <<given, chunkList>> => \A a \in Adapters : Taken(a)' = Taken(a)
    BY DEF Taken
  (* A publisher goes on without filling a queue. *)
  <1>g. ASSUME NEW p \in Publishers, Busy(p), UNCHANGED <<subscribers, uses, published, given, chunkList>>,
               todo' = todo \/ (todo' = [todo EXCEPT ![p] = Tail(@)] /\ overrun' = overrun \cup {Target(p)}),
               overrun \subseteq overrun', \A q \in Adapters \ overrun' : queues'[q] = queues[q],
               \A q \in Adapters : queues[q] = <<>> => queues'[q] = <<>>
        PROVE  GapInv'
    <2>1. \A r \in Publishers, q \in Adapters : Awaits(r, q)' => Awaits(r, q)
      <3>1. CASE todo' = todo
        BY <3>1 DEF Awaits
      <3>2. CASE todo' = [todo EXCEPT ![p] = Tail(@)]
        <4>1. todo'[p] = Tail(todo[p]) /\ \A r \in Publishers \ {p} : todo'[r] = todo[r]
          BY <1>r, <3>2 DEF QueueTypeOK
        <4>2. todo' \in [Publishers -> Seq(Adapters)]
          BY <1>r DEF RoomInv, QueueTypeOK
        <4> QED
          BY <1>g, <1>r, <4>1, <4>2, OneLessToFill DEF StreamInv
      <3> QED
        BY <1>g, <3>1, <3>2
    <2>2. \A r \in Publishers, q \in Adapters \ overrun' : Awaits(r, q) => Awaits(r, q)'
      <3>1. CASE todo' = todo
        BY <3>1 DEF Awaits
      <3>2. CASE todo' = [todo EXCEPT ![p] = Tail(@)] /\ overrun' = overrun \cup {Target(p)}
        <4>1. todo'[p] = Tail(todo[p]) /\ \A r \in Publishers \ {p} : todo'[r] = todo[r]
          BY <1>r, <3>2 DEF QueueTypeOK
        <4>2. todo' \in [Publishers -> Seq(Adapters)]
          BY <1>r DEF RoomInv, QueueTypeOK
        <4>3. /\ \A q \in Adapters : Awaits(p, q)' <=> Awaits(p, q) /\ q # Target(p)
              /\ \A r \in Publishers \ {p} : \A q \in Adapters : Awaits(r, q)' <=> Awaits(r, q)
          BY <1>g, <1>r, <4>1, <4>2, OneLessToFill DEF StreamInv
        <4> QED
          BY <3>2, <4>3
      <3> QED
        BY <1>g, <3>1, <3>2
    <2>3. Wiring'
      BY <1>g, <1>r, <2>1, WiringKept
    <2>4. \A q : InTable(q)' <=> InTable(q)
      BY <1>g DEF InTable
    <2>5. \A r \in Publishers, q \in Adapters \ overrun' : Due(r, q)' = Due(r, q)
      BY <1>g, <2>1, <2>2 DEF Due
    <2> QED
      BY <1>f, <1>g, <1>u, <2>1, <2>3, <2>4, <2>5
  <1>1. ASSUME NEW a \in Adapters, SubscribeNew(a) PROVE GapInv'
    BY <1>1, <1>r, Subscribing
  <1>2. ASSUME NEW a \in Adapters, SubscribeAgain(a) PROVE GapInv'
    BY <1>2, <1>r, Succeeding
  <1>3. ASSUME NEW a \in Adapters, Unsubscribe(a) PROVE GapInv'
    <2>1. /\ \A s \in Names : subscribers'[s] # Nothing => subscribers'[s] = subscribers[s]
          /\ UNCHANGED <<queues, uses, overrun, published, todo, chunkList, given>>
      BY <1>3, <1>r DEF Unsubscribe, publisherVars, adapterVars, QueueTypeOK
    <2>2. \A p, q : (Awaits(p, q)' <=> Awaits(p, q)) /\ Due(p, q)' = Due(p, q)
      BY <2>1 DEF Awaits, Due
    <2>3. \A q \in Adapters : InTable(q)' => InTable(q)
      BY <2>1, NothingAssumption DEF InTable
    <2>4. Wiring'
      BY <1>r, <2>1, <2>2 DEF Wiring, OneReader, TableOK, MadeOK, Made
    <2> QED
      BY <1>f, <1>u, <2>1, <2>2, <2>3, <2>4
  <1>4. ASSUME NEW a \in Adapters, Fill(a) PROVE GapInv'
    BY <1>4, <1>r, Reading
  <1>5. ASSUME NEW a \in Adapters, Serve(a) PROVE GapInv'
    <2>1. UNCHANGED <<subscribers, queues, uses, overrun, published, todo>>
      BY <1>5 DEF Serve, publisherVars
    <2>2. \A b \in Adapters : Taken(b)' = Taken(b)
      BY <1>5, <1>r, Serving
    <2>3. \A p, q : (Awaits(p, q)' <=> Awaits(p, q)) /\ Due(p, q)' = Due(p, q) /\ (InTable(q)' <=> InTable(q))
      BY <2>1 DEF Awaits, Due, InTable
    <2>4. Wiring'
      BY <1>r, <2>1, <2>3, WiringKept
    <2> QED
      BY <1>f, <2>1, <2>2, <2>3, <2>4
  <1>6. ASSUME NEW p \in Publishers, Begins(p) PROVE GapInv'
    <2>1. /\ UNCHANGED <<subscribers, queues, uses, given, chunkList, overrun>>
          /\ published'[p] = published[p] + 1 /\ \A r \in Publishers \ {p} : published'[r] = published[r]
          /\ \A q : ~Awaits(p, q)
      BY <1>6, <1>r DEF Begins, QueueTypeOK, Busy, Awaits
    <2>n. PICK n \in 0 .. Cardinality(Names) :
             \E t \in [1 .. n -> Adapters] : Table(t) /\ todo' = [todo EXCEPT ![p] = t]
      BY <1>6 DEF Begins
    <2>2. PICK t \in [1 .. n -> Adapters] : Table(t) /\ todo' = [todo EXCEPT ![p] = t]
      BY <2>n
    <2>3. todo'[p] = t /\ \A r \in Publishers \ {p} : todo'[r] = todo[r]
      BY <1>r, <2>2 DEF QueueTypeOK
    <2>4. \A q \in Adapters : Awaits(p, q)' <=> InTable(q)
      <3>1. \A q \in Adapters : Awaits(p, q)' <=> q \in {t[i] : i \in 1 .. Len(t)}
        BY <2>3 DEF Awaits
      <3>2. {t[i] : i \in 1 .. Len(t)} = {subscribers[s] : s \in Names} \ {Nothing}
        BY <2>2 DEF Table
      <3> QED
        BY <3>1, <3>2, NothingAssumption DEF InTable
    <2>5. \A r \in Publishers \ {p}, q \in Adapters : (Awaits(r, q)' <=> Awaits(r, q)) /\ Due(r, q)' = Due(r, q)
      BY <2>1, <2>3 DEF Awaits, Due
    <2>6. \A q \in Adapters : InTable(q) => Due(p, q)' = Due(p, q)
      <3>1. published[p] \in Nat
        BY <1>r, QueueAssumption DEF QueueTypeOK
      <3> QED
        BY <2>1, <2>4, <3>1 DEF Due
    <2>7. \A q : InTable(q)' <=> InTable(q)
      BY <2>1 DEF InTable
    <2>8. Wiring'
      BY <1>r, <2>1, <2>4, <2>5, WiringKept
    <2> QED
      BY <1>f, <1>u, <2>1, <2>4, <2>5, <2>6, <2>7, <2>8
  <1>7. ASSUME NEW p \in Publishers, PutNoWait(p) PROVE GapInv'
    <2>1. CASE IsFull(Target(p))
      BY <1>7, <1>g, <2>1 DEF PutNoWait, adapterVars
    <2>2. CASE ~IsFull(Target(p))
      BY <1>7, <1>r, <2>2, GapDelivering DEF PutNoWait, adapterVars
    <2> QED
      BY <2>1, <2>2
  <1>8. ASSUME NEW p \in Publishers, DropOldest(p) PROVE GapInv'
    <2>1. CASE queues[Target(p)] = <<>>
      BY <1>8, <1>g, <2>1 DEF DropOldest, GivesUp, adapterVars
    <2>2. CASE queues[Target(p)] # <<>>
      <3>1. /\ queues' = [queues EXCEPT ![Target(p)] = Tail(@)] /\ overrun' = overrun \cup {Target(p)}
            /\ Busy(p) /\ UNCHANGED <<subscribers, uses, published, todo, given, chunkList>>
        BY <1>8, <2>2 DEF DropOldest, adapterVars
      <3>2. \A q \in Adapters \ overrun' : queues'[q] = queues[q]
        BY <1>r, <3>1 DEF QueueTypeOK
      <3>3. \A q \in Adapters : queues[q] = <<>> => queues'[q] = <<>>
        BY <1>r, <2>2, <3>1 DEF QueueTypeOK
      <3> QED
        BY <1>g, <3>1, <3>2, <3>3
    <2> QED
      BY <2>1, <2>2
  <1>9. ASSUME NEW p \in Publishers, PutAgain(p) PROVE GapInv'
    <2>1. CASE IsFull(Target(p))
      BY <1>9, <1>g, <2>1 DEF PutAgain, GivesUp, adapterVars
    <2>2. CASE ~IsFull(Target(p))
      BY <1>9, <1>r, <2>2, GapDelivering DEF PutAgain, adapterVars
    <2> QED
      BY <2>1, <2>2
  <1>10. CASE UNCHANGED queueVars
    <2>1. UNCHANGED <<subscribers, queues, uses, overrun, published, todo, given, chunkList>>
      BY <1>10 DEF queueVars
    <2>2. \A p, q : (Awaits(p, q)' <=> Awaits(p, q)) /\ Due(p, q)' = Due(p, q) /\ (InTable(q)' <=> InTable(q))
      BY <2>1 DEF Awaits, Due, InTable
    <2>3. Wiring'
      BY <1>r, <2>1, <2>2, WiringKept
    <2> QED
      BY <1>f, <1>u, <2>1, <2>2, <2>3
  <1> QED
    BY <1>1, <1>2, <1>3, <1>4, <1>5, <1>6, <1>7, <1>8, <1>9, <1>10 DEF QueueNext

(* An adapter whose queue never ran full misses no sample of a publisher,  *)
(* with any number of publishers, adapters and names, any sizes of queue,  *)
(* chunk and read, and whoever comes or goes (broadcast_adapter.py:226).   *)
THEOREM NothingMissing == QueueSpec => []NoGapUnlessOverrun
  <1>1. GapInv => NoGapUnlessOverrun
    BY DEF GapInv, GapFree, Complete, NoGapUnlessOverrun
  <1> QED
    BY GapInit, GapStep, <1>1, PTL DEF QueueSpec

-----------------------------------------------------------------------------
(* The capture loops of a receiver.                                        *)

Loop == [at : {"ended", "begun", "testing", "opening", "opened", "reading"}, handle : Handles \cup {None}]
Caller == [at : {"idle", "opening", "opened", "assigned", "armed", "joining", "tearing"},
           handle : Handles \cup {None}]
AliveLoops == {l \in Loops : Alive(l)}

(* Who holds a handle. *)
HandsFree ==
    /\ caller.at # "opened" => caller.handle = None
    /\ \A l \in Loops : loops[l].at \in {"ended", "opening"} => loops[l].handle = None
    /\ \A l \in Loops : loops[l].at = "reading" => loops[l].handle # None
Phases ==
    /\ enabled => caller.at \in {"idle", "armed"}
    /\ caller.at = "armed" => enabled
(* No stop is due: all loops that live are some that a stop gave up waiting for. *)
Settled == caller.at \notin {"idle", "joining"} \/ (caller.at = "idle" /\ ~enabled)
Accounted ==
    /\ Cardinality(AliveLoops \ {latest}) <= givenUp
    /\ Settled => Cardinality(AliveLoops) <= givenUp
    /\ caller.at = "idle" /\ ~enabled /\ givenUp = 0 => handle = None

SdrInv == SdrTypeOK /\ HandsFree /\ Phases /\ Accounted

LEMMA HandleLeft ==
    ASSUME SdrTypeOK, caller.handle = None \/ \E l \in Loops : loops[l].handle = None
    PROVE  NewHandle \in Handles
  <1> DEFINE H == {loops[l].handle : l \in Loops}
             N == Cardinality(Loops)
  <1>1. IsFiniteSet(Loops) /\ N \in Nat
    BY SdrAssumption, FS_CardinalityType
  <1>2. IsFiniteSet(H) /\ Cardinality(H) <= N /\ Cardinality(H) \in Nat
    <2> DEFINE f == [l \in Loops |-> loops[l].handle]
    <2>1. f \in Surjection(Loops, H)
      BY DEF Surjection
    <2>2. IsFiniteSet(H) /\ Cardinality(H) <= N
      BY <1>1, <2>1, FS_Surjection
    <2> QED
      BY <2>2, FS_CardinalityType
  <1>3. IsFiniteSet(H \ {None}) /\ Cardinality(H \ {None}) \in Nat /\ Cardinality(H \ {None}) <= N
        /\ ((\E l \in Loops : loops[l].handle = None) => Cardinality(H \ {None}) <= N - 1)
    <2>1. IsFiniteSet(H \ {None}) /\ Cardinality(H \ {None}) = IF None \in H THEN Cardinality(H) - 1 ELSE Cardinality(H)
      BY <1>2, FS_RemoveElement
    <2>2. Cardinality(H \ {None}) \in Nat
      BY <2>1, FS_CardinalityType
    <2>3. (\E l \in Loops : loops[l].handle = None) => None \in H
      OBVIOUS
    <2> HIDE DEF H
    <2> QED
      BY <1>1, <1>2, <2>1, <2>2, <2>3
  <1> DEFINE R == H \ {None}
             A == R \cup {handle}
             B == A \cup {caller.handle}
  <1>4. IsFiniteSet(A) /\ Cardinality(A) \in Nat /\ Cardinality(A) <= Cardinality(R) + 1
    <2>1. IsFiniteSet(A) /\ Cardinality(A) = IF handle \in R THEN Cardinality(R) ELSE Cardinality(R) + 1
      BY <1>3, FS_AddElement
    <2> HIDE DEF R
    <2> QED
      BY <1>3, <2>1 DEF R
  <1>5. IsFiniteSet(Referred) /\ Cardinality(Referred) <= N + 1
    <2>1. CASE caller.handle = None
      <3>1. Referred \subseteq A
        BY <2>1 DEF Referred
      <3>2. IsFiniteSet(Referred) /\ Cardinality(Referred) <= Cardinality(A)
        BY <1>4, <3>1, FS_Subset
      <3>3. Cardinality(Referred) \in Nat
        BY <3>2, FS_CardinalityType
      <3> HIDE DEF A, R, N
      <3> QED
        BY <1>1, <1>3, <1>4, <3>2, <3>3 DEF R
    <2>2. CASE \E l \in Loops : loops[l].handle = None
      <3>1. Referred \subseteq B
        BY DEF Referred
      <3>2. IsFiniteSet(B) /\ Cardinality(B) = IF caller.handle \in A THEN Cardinality(A) ELSE Cardinality(A) + 1
        <4> HIDE DEF A
        <4> QED
          BY <1>4, FS_AddElement
      <3>3. IsFiniteSet(Referred) /\ Cardinality(Referred) <= Cardinality(B)
        BY <3>1, <3>2, FS_Subset
      <3>4. Cardinality(Referred) \in Nat /\ Cardinality(B) \in Nat
        BY <3>2, <3>3, FS_CardinalityType
      <3>5. Cardinality(R) <= N - 1 /\ Cardinality(R) \in Nat
        BY <1>3, <2>2
      <3> HIDE DEF A, B, R, N
      <3> QED
        BY <1>1, <1>4, <3>2, <3>3, <3>4, <3>5
    <2> QED
      BY <2>1, <2>2
  <1>6. Cardinality(Handles) = N + 2 /\ IsFiniteSet(Handles)
    <2>1. 1 \in Int /\ N + 2 \in Int /\ ~(1 > N + 2) /\ (N + 2) - 1 + 1 = N + 2
      BY <1>1
    <2> QED
      BY <2>1, FS_Interval DEF Handles
  <1>7. Handles \ Referred # {}
    <2>1. ASSUME Handles \subseteq Referred PROVE FALSE
      <3>1. Cardinality(Handles) <= Cardinality(Referred)
        BY <1>5, <2>1, FS_Subset
      <3>2. Cardinality(Referred) \in Nat
        BY <1>5, FS_CardinalityType
      <3> HIDE DEF N
      <3> QED
        BY <1>1, <1>5, <1>6, <3>1, <3>2
    <2> QED
      BY <2>1
  <1> QED
    BY <1>7 DEF NewHandle

LEMMA LoopTyped ==
    ASSUME SdrTypeOK, NEW l \in Loops, NEW place, NEW h \in Handles \cup {None}, LoopTo(l, place, h),
           place \in {"ended", "begun", "testing", "opening", "opened", "reading"}
    PROVE  /\ loops' \in [Loops -> Loop]
           /\ loops'[l] = [at |-> place, handle |-> h]
           /\ \A k \in Loops \ {l} : loops'[k] = loops[k]
  BY DEF SdrTypeOK, Loop, LoopTo

LEMMA SdrInitial == SdrInit => SdrInv
  <1> SUFFICES ASSUME SdrInit PROVE SdrInv
    OBVIOUS
  <1>1. SdrTypeOK
    <2>1. 0 \in 0 .. MaxSdrEvents
      BY SdrAssumption
    <2>2. loops \in [Loops -> [at : {"ended", "begun", "testing", "opening", "opened", "reading"},
                              handle : Handles \cup {None}]]
      BY DEF SdrInit
    <2>3. enabled \in BOOLEAN /\ attached \in BOOLEAN
      BY Zenon DEF SdrInit
    <2> QED
      BY <2>1, <2>2, <2>3 DEF SdrInit, SdrTypeOK
  <1>2. AliveLoops = {} /\ AliveLoops \ {latest} = {}
    BY DEF SdrInit, AliveLoops, Alive
  <1>3. Cardinality({}) = 0
    BY FS_EmptySet
  <1> QED
    BY <1>1, <1>2, <1>3 DEF SdrInit, SdrInv, HandsFree, Phases, Accounted

LEMMA Counting ==
    /\ IsFiniteSet(AliveLoops) /\ Cardinality(AliveLoops) \in Nat
    /\ Cardinality(AliveLoops \ {latest}) \in Nat
    /\ Cardinality(AliveLoops \ {latest}) <= Cardinality(AliveLoops)
    /\ Cardinality(AliveLoops) <= Cardinality(AliveLoops \ {latest}) + 1
    /\ \A T \in SUBSET AliveLoops : IsFiniteSet(T) /\ Cardinality(T) \in Nat /\ Cardinality(T) <= Cardinality(AliveLoops)
    /\ \A T \in SUBSET (AliveLoops \ {latest}) : Cardinality(T) <= Cardinality(AliveLoops \ {latest})
  <1>1. AliveLoops \in SUBSET Loops /\ IsFiniteSet(Loops)
    BY SdrAssumption DEF AliveLoops
  <1>2. IsFiniteSet(AliveLoops) /\ Cardinality(AliveLoops) \in Nat
    BY <1>1, FS_Subset, FS_CardinalityType
  <1>3. /\ IsFiniteSet(AliveLoops \ {latest})
        /\ Cardinality(AliveLoops \ {latest}) = IF latest \in AliveLoops THEN Cardinality(AliveLoops) - 1 ELSE Cardinality(AliveLoops)
    BY <1>2, FS_RemoveElement
  <1>4. Cardinality(AliveLoops \ {latest}) \in Nat
    BY <1>3, FS_CardinalityType
  <1>5. \A T \in SUBSET AliveLoops : IsFiniteSet(T) /\ Cardinality(T) \in Nat /\ Cardinality(T) <= Cardinality(AliveLoops)
    BY <1>2, FS_Subset, FS_CardinalityType
  <1>6. \A T \in SUBSET (AliveLoops \ {latest}) : Cardinality(T) <= Cardinality(AliveLoops \ {latest})
    BY <1>3, FS_Subset
  <1> QED
    BY <1>2, <1>3, <1>4, <1>5, <1>6

LEMMA SdrStep == SdrInv /\ [SdrNext]_sdrVars => SdrInv'
  <1> SUFFICES ASSUME SdrInv, [SdrNext]_sdrVars PROVE SdrInv'
    OBVIOUS
  <1>t. /\ SdrTypeOK /\ HandsFree /\ Phases /\ Accounted
        /\ loops \in [Loops -> Loop] /\ caller \in Caller /\ givenUp \in Nat
    BY DEF SdrInv, SdrTypeOK, Loop, Caller
  <1>n. None \in Handles \cup {None} /\ handle \in Handles \cup {None}
        /\ caller.handle \in Handles \cup {None} /\ \A l \in Loops : loops[l].handle \in Handles \cup {None}
    BY <1>t DEF SdrTypeOK, Caller, Loop
  <1>c. ASSUME NEW place, NEW h, CallerTo(place, h) PROVE caller'.at = place /\ caller'.handle = h
    BY <1>c DEF CallerTo
  (* The loops are left alone. *)
  <1>f. ASSUME UNCHANGED <<loops, latest>>
        PROVE  AliveLoops' = AliveLoops /\ (AliveLoops \ {latest})' = AliveLoops \ {latest}
    BY <1>f DEF AliveLoops, Alive
  (* A loop takes a step, and may end. *)
  <1>l. ASSUME NEW l \in Loops, Alive(l), NEW place \in {"ended", "testing", "opening", "opened", "reading"},
               NEW h \in Handles \cup {None}, LoopTo(l, place, h), place \in {"ended", "opening"} => h = None,
               place = "reading" => h # None,
               UNCHANGED <<enabled, caller, latest, givenUp>>, SdrTypeOK'
        PROVE  SdrInv'
    <2>1. /\ loops' \in [Loops -> Loop]
          /\ loops'[l] = [at |-> place, handle |-> h]
          /\ \A k \in Loops \ {l} : loops'[k] = loops[k]
      BY <1>l, <1>t, LoopTyped
    <2>2. HandsFree' /\ Phases'
      BY <1>l, <1>t, <2>1 DEF HandsFree, Phases
    <2>3. AliveLoops' \subseteq AliveLoops /\ l \in AliveLoops
      BY <1>l, <2>1 DEF AliveLoops, Alive
    <2>4. /\ Cardinality(AliveLoops') <= Cardinality(AliveLoops) /\ Cardinality(AliveLoops') \in Nat
          /\ Cardinality(AliveLoops' \ {latest}) <= Cardinality(AliveLoops \ {latest})
          /\ Cardinality(AliveLoops' \ {latest}) \in Nat /\ Cardinality(AliveLoops) \in Nat
          /\ Cardinality(AliveLoops \ {latest}) \in Nat
      <3>1. AliveLoops' \in SUBSET AliveLoops /\ AliveLoops' \ {latest} \in SUBSET (AliveLoops \ {latest})
            /\ AliveLoops' \ {latest} \in SUBSET AliveLoops
        BY <2>3
      <3> QED
        BY <3>1, Counting
    <2>5. Settled' <=> Settled
      BY <1>l DEF Settled
    <2>6. ~(caller.at = "idle" /\ ~enabled /\ givenUp = 0)
      <3>1. ASSUME caller.at = "idle", ~enabled, givenUp = 0 PROVE FALSE
        <4>1. Cardinality(AliveLoops) <= 0 /\ Cardinality(AliveLoops) \in Nat /\ IsFiniteSet(AliveLoops)
          BY <1>t, <3>1, Counting DEF Accounted, Settled
        <4>2. AliveLoops = {}
          BY <4>1, FS_EmptySet
        <4> QED
          BY <2>3, <4>2
      <3> QED
        BY <3>1
    <2>7. Accounted'
      BY <1>l, <1>t, <2>4, <2>5, <2>6 DEF Accounted
    <2> QED
      BY <1>l, <2>2, <2>7 DEF SdrInv
  <1>1. CASE Start
    <2>1. caller'.at = "opening" /\ caller'.handle = None /\ Settled
      BY <1>1, <1>c DEF Start, Settled
    <2>2. SdrTypeOK'
      BY <1>1, <1>t, SdrAssumption DEF Start, SdrTypeOK, SdrHappens, CallerTo
    <2> QED
      BY <1>1, <1>f, <1>t, <2>1, <2>2 DEF Start, SdrInv, HandsFree, Phases, Accounted
  <1>2. CASE StartOpens
    <2>1. NewHandle \in Handles
      BY <1>2, <1>t, HandleLeft DEF StartOpens, HandsFree
    <2>2. caller'.at = "opened" /\ caller'.handle = NewHandle /\ Settled
      BY <1>2, <1>c DEF StartOpens, Settled
    <2>3. SdrTypeOK'
      BY <1>2, <1>t, <2>1 DEF StartOpens, SdrTypeOK, CallerTo
    <2> QED
      BY <1>2, <1>f, <1>t, <2>2, <2>3 DEF StartOpens, SdrInv, HandsFree, Phases, Accounted
  <1>3. CASE StartGivesUp
    <2>1. caller'.at = "opened" /\ caller'.handle = None /\ Settled
      BY <1>3, <1>c DEF StartGivesUp, Settled
    <2>2. SdrTypeOK'
      BY <1>3, <1>t DEF StartGivesUp, SdrTypeOK, CallerTo
    <2> QED
      BY <1>3, <1>f, <1>t, <2>1, <2>2 DEF StartGivesUp, SdrInv, HandsFree, Phases, Accounted
  <1>4. CASE Assign
    <2>1. caller'.at = "assigned" /\ caller'.handle = None /\ Settled
      BY <1>4, <1>c DEF Assign, Settled
    <2>2. SdrTypeOK'
      BY <1>4, <1>n, <1>t DEF Assign, SdrTypeOK, CallerTo
    <2> QED
      BY <1>4, <1>f, <1>t, <2>1, <2>2 DEF Assign, SdrInv, HandsFree, Phases, Accounted
  <1>5. CASE Arm
    <2>1. caller'.at = "armed" /\ caller'.handle = None /\ Settled
      BY <1>5, <1>c DEF Arm, Settled
    <2>2. SdrTypeOK'
      BY <1>5, <1>t DEF Arm, SdrTypeOK, CallerTo
    <2> QED
      BY <1>5, <1>f, <1>t, <2>1, <2>2 DEF Arm, SdrInv, HandsFree, Phases, Accounted
  <1>6. CASE Spawn
    <2>1. PICK l \in Loops : ~Alive(l) /\ latest' = l /\ LoopTo(l, "begun", None)
      BY <1>6 DEF Spawn
    <2>2. /\ loops' \in [Loops -> Loop]
          /\ loops'[l] = [at |-> "begun", handle |-> None]
          /\ \A k \in Loops \ {l} : loops'[k] = loops[k]
      BY <1>n, <1>t, <2>1, LoopTyped
    <2>3. caller'.at = "idle" /\ caller'.handle = None /\ Settled /\ enabled
      BY <1>6, <1>c, <1>t DEF Spawn, Settled, Phases
    <2>4. SdrTypeOK'
      BY <1>6, <1>t, <2>1, <2>2 DEF Spawn, SdrTypeOK, CallerTo, Loop
    <2>5. (AliveLoops \ {latest})' = AliveLoops
      BY <2>1, <2>2 DEF AliveLoops, Alive
    <2>6. Accounted'
      BY <1>6, <1>t, <2>3, <2>5 DEF Spawn, Accounted, Settled
    <2>7. HandsFree'
      BY <1>t, <2>2, <2>3 DEF HandsFree
    <2> QED
      BY <1>6, <2>3, <2>4, <2>6, <2>7 DEF Spawn, SdrInv, Phases
  <1>7. CASE Stop
    <2>1. caller'.at = "joining" /\ caller'.handle = None
      BY <1>7, <1>c DEF Stop
    <2>3. sdrEvents' \in 0 .. MaxSdrEvents
      BY <1>7, <1>t, SdrAssumption DEF Stop, SdrTypeOK, SdrHappens
    <2>4. enabled' \in BOOLEAN /\ caller' \in Caller
      BY <1>7, <1>n DEF Stop, CallerTo, Caller
    <2>2. SdrTypeOK'
      BY <1>7, <1>t, <2>3, <2>4 DEF Stop, SdrTypeOK, Caller
    <2> QED
      BY <1>7, <1>f, <1>t, <2>1, <2>2 DEF Stop, SdrInv, HandsFree, Phases, Accounted, Settled
  <1>8. CASE Join
    <2>1. caller'.at = "tearing" /\ caller'.handle = None
      BY <1>8, <1>c DEF Join
    <2>2. SdrTypeOK'
      BY <1>8, <1>t DEF Join, SdrTypeOK, CallerTo
    <2>3. AliveLoops \ {latest} = AliveLoops
      BY <1>8 DEF Join, AliveLoops
    <2> QED
      BY <1>8, <1>f, <1>t, <2>1, <2>2, <2>3 DEF Join, SdrInv, HandsFree, Phases, Accounted
  <1>9. CASE JoinTimesOut
    <2>1. caller'.at = "tearing" /\ caller'.handle = None
      BY <1>9, <1>c DEF JoinTimesOut
    <2>2. SdrTypeOK'
      BY <1>9, <1>t DEF JoinTimesOut, SdrTypeOK, CallerTo
    <2>3. Cardinality(AliveLoops) <= givenUp' /\ Cardinality(AliveLoops \ {latest}) <= givenUp'
      BY <1>9, <1>t, Counting DEF JoinTimesOut, Accounted
    <2> QED
      BY <1>9, <1>f, <1>t, <2>1, <2>2, <2>3 DEF JoinTimesOut, SdrInv, HandsFree, Phases, Accounted
  <1>10. CASE TearDown
    <2>1. caller'.at = "idle" /\ caller'.handle = None /\ Settled /\ ~enabled /\ handle' = None
      BY <1>10, <1>c, <1>t DEF TearDown, Settled, Phases
    <2>2. SdrTypeOK'
      BY <1>10, <1>n, <1>t DEF TearDown, SdrTypeOK, CallerTo
    <2> QED
      BY <1>10, <1>f, <1>t, <2>1, <2>2 DEF TearDown, SdrInv, HandsFree, Phases, Accounted
  <1>11. ASSUME NEW l \in Loops, Begun(l) PROVE SdrInv'
    <2>1. /\ Alive(l) /\ LoopTo(l, "testing", handle)
          /\ UNCHANGED <<enabled, handle, caller, latest, closed, attached, givenUp, sdrEvents>>
      BY <1>11 DEF Begun, Alive
    <2>2. SdrTypeOK'
      BY <1>n, <1>t, <2>1, LoopTyped DEF SdrTypeOK, Loop
    <2> QED
      BY <1>l, <1>n, <2>1, <2>2
  <1>12. ASSUME NEW l \in Loops, Test(l) PROVE SdrInv'
    <2>1. Alive(l) /\ UNCHANGED <<enabled, handle, caller, latest, closed, attached, givenUp, sdrEvents>>
      BY <1>12 DEF Test, Alive
    <2>2. \E place \in {"ended", "opening", "reading"}, h \in Handles \cup {None} :
             LoopTo(l, place, h) /\ (place \in {"ended", "opening"} => h = None) /\ (place = "reading" => h # None)
      <3>1. CASE ~enabled
        BY <1>12, <1>n, <3>1 DEF Test
      <3>2. CASE enabled /\ loops[l].handle = None
        BY <1>12, <1>n, <3>2 DEF Test
      <3>3. CASE enabled /\ loops[l].handle # None
        BY <1>12, <1>n, <3>3 DEF Test
      <3> QED
        BY <3>1, <3>2, <3>3
    <2>3. SdrTypeOK'
      BY <1>t, <2>1, <2>2, LoopTyped, ZenonT(40) DEF SdrTypeOK, Loop
    <2> QED
      BY <1>l, <2>1, <2>2, <2>3
  <1>13. ASSUME NEW l \in Loops, LoopOpens(l) PROVE SdrInv'
    <2>1. /\ Alive(l) /\ loops[l].handle = None
          /\ UNCHANGED <<enabled, handle, caller, latest, attached, givenUp, sdrEvents>>
      BY <1>13, <1>t DEF LoopOpens, Alive, HandsFree
    <2>2. NewHandle \in Handles
      BY <1>t, <2>1, HandleLeft
    <2>3. \E place \in {"opened", "testing"}, h \in Handles \cup {None} : LoopTo(l, place, h)
      BY <1>13, <2>2 DEF LoopOpens
    <2>4. closed' \subseteq Handles
      BY <1>13, <1>t DEF LoopOpens, SdrTypeOK
    <2>5. SdrTypeOK'
      BY <1>t, <2>1, <2>3, <2>4, LoopTyped DEF SdrTypeOK, Loop
    <2> QED
      BY <1>l, <2>1, <2>3, <2>5
  <1>14. ASSUME NEW l \in Loops, Adopt(l) PROVE SdrInv'
    <2>1. /\ Alive(l) /\ LoopTo(l, "testing", loops[l].handle) /\ handle' = loops[l].handle
          /\ UNCHANGED <<enabled, caller, latest, closed, attached, givenUp, sdrEvents>>
      BY <1>14 DEF Adopt, Alive
    <2>2. SdrTypeOK'
      BY <1>n, <1>t, <2>1, LoopTyped DEF SdrTypeOK, Loop
    <2> QED
      BY <1>l, <1>n, <2>1, <2>2
  <1>15. ASSUME NEW l \in Loops, ReadStream(l) PROVE SdrInv'
    <2>1. Alive(l) /\ UNCHANGED <<enabled, caller, latest, attached, givenUp, sdrEvents>>
      BY <1>15 DEF ReadStream, Alive
    <2>2. /\ \E h \in Handles \cup {None} : LoopTo(l, "testing", h)
          /\ handle' \in Handles \cup {None}
      BY <1>15, <1>n DEF ReadStream
    <2>3. closed' \subseteq Handles
      <3>1. CASE CanRead(l)
        BY <1>15, <1>t, <3>1 DEF ReadStream, SdrTypeOK
      <3>2. CASE ~CanRead(l)
        <4>1. loops[l].handle # None
          BY <1>15, <1>t DEF ReadStream, HandsFree
        <4> QED
          BY <1>15, <1>t, <1>n, <3>2, <4>1 DEF ReadStream, SdrTypeOK
      <3> QED
        BY <3>1, <3>2
    <2>4. SdrTypeOK'
      BY <1>t, <2>1, <2>2, <2>3, LoopTyped DEF SdrTypeOK, Loop
    <2> QED
      BY <1>l, <2>1, <2>2, <2>4
  <1>16. CASE Detach \/ Attach
    <2>1. sdrEvents' \in 0 .. MaxSdrEvents
      BY <1>16, <1>t, SdrAssumption DEF Detach, Attach, SdrTypeOK, SdrHappens
    <2>2. attached' \in BOOLEAN
      BY <1>16, Zenon DEF Detach, Attach
    <2>3. UNCHANGED <<enabled, handle, caller, latest, loops, closed, givenUp>>
      BY <1>16 DEF Detach, Attach
    <2>4. SdrTypeOK'
      BY <1>t, <2>1, <2>2, <2>3 DEF SdrTypeOK
    <2> QED
      BY <1>f, <1>t, <2>3, <2>4 DEF SdrInv, HandsFree, Phases, Accounted, Settled
  <1>17. CASE UNCHANGED sdrVars
    <2>1. SdrTypeOK'
      BY <1>17, <1>t DEF sdrVars, SdrTypeOK
    <2> QED
      BY <1>17, <1>f, <1>t, <2>1 DEF sdrVars, SdrInv, HandsFree, Phases, Accounted, Settled
  <1> QED
    BY <1>1, <1>2, <1>3, <1>4, <1>5, <1>6, <1>7, <1>8, <1>9, <1>10, <1>11, <1>12, <1>13,
       <1>14, <1>15, <1>16, <1>17 DEF SdrNext, CallerStep, LoopStep

(* Handles, loops and the command thread keep their types, for any number  *)
(* of loops (drivers.py:446).                                              *)
THEOREM SdrTypeCorrect == SdrSpec => []SdrTypeOK
  <1>1. SdrInv => SdrTypeOK
    BY DEF SdrInv
  <1> QED
    BY SdrInitial, SdrStep, <1>1, PTL DEF SdrSpec

(* There is at most one capture loop beside those that a stop gave up      *)
(* waiting for; if there are none, a stopped receiver has its device closed *)
(* (drivers.py:487).                                                       *)
THEOREM LoopsCounted == SdrSpec => []LoopsAccountedFor
  <1>1. SdrInv => LoopsAccountedFor
    <2> SUFFICES ASSUME SdrInv PROVE LoopsAccountedFor
      OBVIOUS
    <2>1. Cardinality(AliveLoops) <= 1 + givenUp
      BY Counting DEF SdrInv, SdrTypeOK, Accounted
    <2>2. ASSUME givenUp = 0, ~enabled, caller.at = "idle"
          PROVE  OpenHandles = {} /\ \A l \in Loops : ~Alive(l)
      <3>1. Cardinality(AliveLoops) <= 0 /\ Cardinality(AliveLoops) \in Nat /\ IsFiniteSet(AliveLoops)
        BY <2>2, Counting DEF SdrInv, Accounted, Settled
      <3>2. AliveLoops = {}
        BY <3>1, FS_EmptySet
      <3>3. \A l \in Loops : ~Alive(l) /\ loops[l].handle = None
        BY <3>2 DEF AliveLoops, Alive, SdrInv, HandsFree
      <3>4. handle = None /\ caller.handle = None
        BY <2>2 DEF SdrInv, Accounted, HandsFree
      <3> QED
        BY <3>3, <3>4 DEF OpenHandles, Referred
    <2> QED
      BY <2>1, <2>2 DEF LoopsAccountedFor, AliveLoops
  <1> QED
    BY SdrInitial, SdrStep, <1>1, PTL DEF SdrSpec

-----------------------------------------------------------------------------
(* The ring between a capture loop and those who take its samples.         *)

(* What a visit to the ring is about to move. *)
Piece == [at : {"outside", "found", "copied"}, pos : Index,
          count : 0 .. RingSize, samples : Seq(1 .. MaxSampled)]
PiecesInv == /\ producer \in [Producers -> Piece]
             /\ \A p \in Producers : Len(producer[p].samples) = producer[p].count

(* What lies between the read and the write position is what was accepted  *)
(* and not read yet.                                                       *)
Holds == /\ Len(waiting) = FillLevel
         /\ \A k \in 1 .. FillLevel : cells[Later(readPos, k - 1)] = waiting[k]

(* A producer inside has its piece where the free cells begin, a consumer  *)
(* where the samples do.                                                   *)
Writes(p) == /\ producer[p].pos = writePos
             /\ producer[p].count \in 1 .. FreeSpace
             /\ producer[p].at = "copied" =>
                  \A k \in 1 .. producer[p].count :
                     cells[Later(writePos, k - 1)] = producer[p].samples[k]
Reads(c) == /\ consumer[c].pos = readPos
            /\ consumer[c].count \in 1 .. FillLevel
            /\ consumer[c].at = "copied" =>
                 /\ Len(consumer[c].samples) = consumer[c].count
                 /\ \A k \in 1 .. consumer[c].count : consumer[c].samples[k] = waiting[k]
Alone == /\ \A p, q \in Producers : IsInside(producer[p]) /\ IsInside(producer[q]) => p = q
         /\ \A c, d \in Consumers : IsInside(consumer[c]) /\ IsInside(consumer[d]) => c = d
Sound == /\ exact /\ Alone /\ Holds
         /\ \A p \in Producers : IsInside(producer[p]) => Writes(p)
         /\ \A c \in Consumers : IsInside(consumer[c]) => Reads(c)

RingInv == RingTypeOK /\ PiecesInv /\ (crowded \/ Sound)

-----------------------------------------------------------------------------
(* Sequences.                                                              *)
LEMMA Joined ==
    ASSUME NEW S, NEW s \in Seq(S), NEW t \in Seq(S)
    PROVE  /\ Len(s \o t) = Len(s) + Len(t)
           /\ \A k \in 1 .. Len(s) : (s \o t)[k] = s[k]
           /\ \A j \in 1 .. Len(t) : (s \o t)[Len(s) + j] = t[j]
  <1>1. Len(s) \in Nat /\ Len(t) \in Nat
    OBVIOUS
  <1> QED BY <1>1

LEMMA Rest ==
    ASSUME NEW S, NEW s \in Seq(S), NEW n \in 0 .. Len(s)
    PROVE  /\ Len(SubSeq(s, n + 1, Len(s))) = Len(s) - n
           /\ \A k \in 1 .. Len(s) - n : SubSeq(s, n + 1, Len(s))[k] = s[n + k]
  <1>1. Len(s) \in Nat
    OBVIOUS
  <1> QED BY <1>1

(* Positions.                                                              *)
LEMMA LaterIs ==
    ASSUME NEW i \in Index, NEW n \in 0 .. RingSize
    PROVE  /\ Later(i, n) = IF i + n < RingSize THEN i + n ELSE i + n - RingSize
           /\ Later(i, n) \in Index
  <1>1. RingSize \in Nat \ {0} /\ i \in 0 .. RingSize - 1
    BY RingAssumption DEF Index
  <1>2. CASE i + n < RingSize
    BY <1>1, <1>2 DEF Later, Index
  <1>3. CASE i + n >= RingSize
    BY <1>1, <1>3 DEF Later, Index
  <1> QED BY <1>1, <1>2, <1>3

LEMMA LaterApart ==
    ASSUME NEW i \in Index, NEW m \in 0 .. RingSize - 1, NEW n \in 0 .. RingSize - 1,
           Later(i, m) = Later(i, n)
    PROVE  m = n
  <1>1. RingSize \in Nat \ {0} /\ i \in 0 .. RingSize - 1
    BY RingAssumption DEF Index
  <1>2. m \in 0 .. RingSize /\ n \in 0 .. RingSize /\ m \in Int /\ n \in Int
    BY <1>1
  <1>3. Later(i, m) = IF i + m < RingSize THEN i + m ELSE i + m - RingSize
    BY <1>2, LaterIs
  <1>4. Later(i, n) = IF i + n < RingSize THEN i + n ELSE i + n - RingSize
    BY <1>2, LaterIs
  <1>5. (IF i + m < RingSize THEN i + m ELSE i + m - RingSize)
          = (IF i + n < RingSize THEN i + n ELSE i + n - RingSize)
    BY <1>3, <1>4
  <1> QED BY <1>1, <1>2, <1>5

LEMMA LaterTwice ==
    ASSUME NEW i \in Index, NEW m \in 0 .. RingSize, NEW n \in 0 .. RingSize, m + n <= RingSize
    PROVE  Later(Later(i, m), n) = Later(i, m + n)
  <1>1. RingSize \in Nat \ {0} /\ i \in 0 .. RingSize - 1
    BY RingAssumption DEF Index
  <1>2. m + n \in 0 .. RingSize
    BY <1>1
  <1>3. /\ Later(i, m) = IF i + m < RingSize THEN i + m ELSE i + m - RingSize
        /\ Later(i, m) \in Index
    BY LaterIs
  <1>4. Later(i, m + n) = IF i + (m + n) < RingSize THEN i + (m + n) ELSE i + (m + n) - RingSize
    BY <1>2, LaterIs
  <1> DEFINE j == Later(i, m)
  <1>5. Later(j, n) = IF j + n < RingSize THEN j + n ELSE j + n - RingSize
    BY <1>3, LaterIs
  <1>6. j = IF i + m < RingSize THEN i + m ELSE i + m - RingSize
    BY <1>3
  <1> HIDE DEF j
  <1>7. Later(j, n) = Later(i, m + n)
    BY <1>1, <1>4, <1>5, <1>6
  <1> QED BY <1>7 DEF j

(* How full the ring is, and what that says of the positions. *)
LEMMA Levels ==
    ASSUME writePos \in Index, readPos \in Index
    PROVE  /\ FillLevel \in 0 .. RingSize - 1
           /\ FreeSpace \in 0 .. RingSize - 1
           /\ FillLevel + FreeSpace = RingSize - 1
           /\ writePos = Later(readPos, FillLevel)
  <1>1. RingSize \in Nat \ {0} /\ writePos \in 0 .. RingSize - 1 /\ readPos \in 0 .. RingSize - 1
    BY RingAssumption DEF Index
  <1>2. FillLevel \in 0 .. RingSize - 1
    BY <1>1 DEF FillLevel
  <1>3. FreeSpace \in 0 .. RingSize - 1 /\ FillLevel + FreeSpace = RingSize - 1
    BY <1>1, <1>2 DEF FreeSpace
  <1>4. Later(readPos, FillLevel) = IF readPos + FillLevel < RingSize THEN readPos + FillLevel
                                    ELSE readPos + FillLevel - RingSize
    BY <1>1, <1>2, LaterIs
  <1>5. writePos = Later(readPos, FillLevel)
    BY <1>1, <1>2, <1>4 DEF FillLevel
  <1> QED BY <1>2, <1>3, <1>5

LEMMA LevelAfterWrite ==
    ASSUME writePos \in Index, readPos \in Index, NEW n \in 1 .. FreeSpace,
           writePos' = Later(writePos, n), readPos' = readPos
    PROVE  FillLevel' = FillLevel + n /\ FreeSpace' = FreeSpace - n
  <1>1. RingSize \in Nat \ {0} /\ writePos \in 0 .. RingSize - 1 /\ readPos \in 0 .. RingSize - 1
    BY RingAssumption DEF Index
  <1>2. FreeSpace \in 0 .. RingSize - 1
    BY Levels
  <1>3. writePos' = IF writePos + n < RingSize THEN writePos + n ELSE writePos + n - RingSize
    BY <1>1, <1>2, LaterIs
  <1>4. n \in 1 .. RingSize - FillLevel - 1
    BY DEF FreeSpace
  <1>5. FillLevel' = FillLevel + n
    BY <1>1, <1>3, <1>4 DEF FillLevel
  <1> QED BY <1>1, <1>2, <1>5, Levels DEF FreeSpace

LEMMA LevelAfterRead ==
    ASSUME writePos \in Index, readPos \in Index, NEW n \in 1 .. FillLevel,
           readPos' = Later(readPos, n), writePos' = writePos
    PROVE  FillLevel' = FillLevel - n /\ FreeSpace' = FreeSpace + n
  <1>1. RingSize \in Nat \ {0} /\ writePos \in 0 .. RingSize - 1 /\ readPos \in 0 .. RingSize - 1
    BY RingAssumption DEF Index
  <1>2. FillLevel \in 0 .. RingSize - 1
    BY Levels
  <1>3. readPos' = IF readPos + n < RingSize THEN readPos + n ELSE readPos + n - RingSize
    BY <1>1, <1>2, LaterIs
  <1>5. FillLevel' = FillLevel - n
    BY <1>1, <1>3 DEF FillLevel
  <1> QED BY <1>1, <1>2, <1>5, Levels DEF FreeSpace

-----------------------------------------------------------------------------
LEMMA RingInitOK == RingInit => RingInv
  <1> SUFFICES ASSUME RingInit PROVE RingInv
    OBVIOUS
  <1>1. RingSize \in Nat \ {0} /\ 0 \in Index /\ MaxSampled \in Nat
    BY RingAssumption DEF Index
  <1>2. <<>> \in Seq(1 .. MaxSampled) /\ <<>> \in Seq(Nat)
    OBVIOUS
  <1>3. Outside \in Piece /\ Outside \in Visits
    BY <1>1, <1>2 DEF Outside, Piece, Visits
  <1>7. Len(Outside.samples) = Outside.count
    BY DEF Outside
  <1>4. RingTypeOK /\ PiecesInv
    BY <1>1, <1>2, <1>3, <1>7 DEF RingInit, RingTypeOK, PiecesInv
  <1>5. FillLevel = 0
    BY <1>1 DEF RingInit, FillLevel
  <1>6. Sound
    BY <1>1, <1>5 DEF RingInit, Sound, Alone, Holds, IsInside, Outside
  <1> QED BY <1>4, <1>6 DEF RingInv

-----------------------------------------------------------------------------
(* The producer.                                                           *)
LEMMA BeginWriteOK ==
    ASSUME RingInv, NEW p \in Producers, BeginWrite(p)
    PROVE  RingInv'
  <1> DEFINE n == IF Batch <= FreeSpace THEN Batch ELSE FreeSpace
             w == [at |-> "found", pos |-> writePos, count |-> n,
                   samples |-> [i \in 1 .. n |-> sampled + i]]
  <1>1. /\ RingSize \in Nat \ {0} /\ Batch \in Nat \ {0} /\ MaxSampled \in Nat
        /\ writePos \in Index /\ readPos \in Index /\ sampled \in 0 .. MaxSampled
        /\ producer \in [Producers -> Piece]
    BY RingAssumption DEF RingInv, RingTypeOK, PiecesInv
  <1>2. FreeSpace \in 0 .. RingSize - 1 /\ FillLevel \in 0 .. RingSize - 1
    BY <1>1, Levels
  <1>3. n \in 0 .. RingSize /\ n <= Batch /\ n <= FreeSpace
    BY <1>1, <1>2
  <1>4. sampled' = sampled + Batch /\ sampled' \in 0 .. MaxSampled
    BY <1>1 DEF BeginWrite
  <1>5. UNCHANGED <<cells, writePos, readPos, consumer, waiting, exact>>
    BY DEF BeginWrite
  <1>6. FillLevel' = FillLevel /\ FreeSpace' = FreeSpace
    BY <1>5 DEF FillLevel, FreeSpace
  <1>7. CASE n = 0
    <2>1. UNCHANGED <<producer, crowded>>
      BY <1>7 DEF BeginWrite
    <2>2. Sound => Sound'
      BY <2>1, <1>5, <1>6 DEF Sound, Alone, Holds, Writes, Reads
    <2> QED BY <2>1, <2>2, <1>4, <1>5 DEF RingInv, RingTypeOK, PiecesInv
  <1>8. CASE n # 0
    <2>1. producer' = [producer EXCEPT ![p] = w]
      BY <1>8 DEF BeginWrite
    <2>2. crowded' = (crowded \/ \E q \in Producers : IsInside(producer[q]))
      BY <1>8 DEF BeginWrite
    <2>3. w.samples \in Seq(1 .. MaxSampled) /\ Len(w.samples) = n
      <3>1. \A i \in 1 .. n : sampled + i \in 1 .. MaxSampled
        BY <1>1, <1>3, <1>4
      <3>2. n \in Nat
        BY <1>1, <1>3
      <3> HIDE DEF n
      <3> QED BY <3>1, <3>2
    <2>4. w \in Piece /\ w.at = "found" /\ w.pos = writePos /\ w.count = n
      BY <2>3, <1>1, <1>3 DEF Piece
    <2> HIDE DEF w
    <2>5. producer' \in [Producers -> Piece] /\ producer' \in [Producers -> Visits]
      <3>1. \A x \in Piece : x \in Visits
        <4>1. Seq(1 .. MaxSampled) \subseteq Seq(Nat)
          BY <1>1
        <4> QED BY <4>1 DEF Piece, Visits
      <3>2. producer' \in [Producers -> Piece]
        BY <2>1, <2>4, <1>1
      <3> QED BY <3>1, <3>2
    <2>6. crowded' \/ Sound'
      <3> SUFFICES ASSUME ~crowded' PROVE Sound'
        OBVIOUS
      <3>1. Sound /\ \A q \in Producers : ~IsInside(producer[q])
        BY <2>2 DEF RingInv
      <3>2. \A q \in Producers : IsInside(producer[q])' => q = p
        BY <3>1, <2>1, <1>1 DEF IsInside
      <3>3. producer'[p] = w
        BY <2>1, <1>1
      <3>4. Writes(p)'
        BY <3>3, <2>3, <2>4, <1>2, <1>3, <1>5, <1>6, <1>8 DEF Writes
      <3>5. Holds' /\ exact'
        BY <3>1, <1>5, <1>6 DEF Holds, Sound
      <3>6. \A c \in Consumers : IsInside(consumer[c])' => Reads(c)'
        BY <3>1, <1>5, <1>6 DEF Sound, Reads
      <3>7. Alone'
        BY <3>1, <3>2, <1>5 DEF Sound, Alone
      <3> QED BY <3>2, <3>4, <3>5, <3>6, <3>7 DEF Sound
    <2>7. RingTypeOK'
      BY <2>2, <2>5, <1>4, <1>5 DEF RingInv, RingTypeOK
    <2>8. PiecesInv'
      BY <2>1, <2>3, <2>4, <2>5, <1>1 DEF RingInv, PiecesInv
    <2> QED BY <2>6, <2>7, <2>8 DEF RingInv
  <1> QED BY <1>7, <1>8

LEMMA CopyInOK ==
    ASSUME RingInv, NEW p \in Producers, CopyIn(p)
    PROVE  RingInv'
  <1> DEFINE w == producer[p]
             Cell(i) == CHOOSE k \in 1 .. w.count : i = Later(w.pos, k - 1)
  <1>1. /\ RingSize \in Nat \ {0} /\ MaxSampled \in Nat
        /\ writePos \in Index /\ readPos \in Index /\ w \in Piece
        /\ producer \in [Producers -> Piece] /\ producer \in [Producers -> Visits]
        /\ Len(w.samples) = w.count
        /\ cells \in [Index -> 0 .. MaxSampled]
    BY RingAssumption DEF RingInv, RingTypeOK, PiecesInv
  <1>2. /\ UNCHANGED <<writePos, readPos, consumer, sampled, waiting, exact, crowded>>
        /\ w.at = "found"
        /\ producer' = [producer EXCEPT ![p].at = "copied"]
        /\ cells' = [i \in Index |-> IF \E k \in 1 .. w.count : i = Later(w.pos, k - 1)
                                       THEN w.samples[Cell(i)] ELSE cells[i]]
    BY DEF CopyIn
  <1>3. FillLevel' = FillLevel /\ FreeSpace' = FreeSpace
    BY <1>2 DEF FillLevel, FreeSpace
  <1>4. producer' \in [Producers -> Piece] /\ producer' \in [Producers -> Visits]
    BY <1>1, <1>2 DEF Piece, Visits
  <1>5. /\ producer'[p].at = "copied" /\ producer'[p].pos = w.pos
        /\ producer'[p].count = w.count /\ producer'[p].samples = w.samples
        /\ \A q \in Producers : q # p => producer'[q] = producer[q]
    BY <1>1, <1>2 DEF Piece
  <1>6. crowded \/ Sound'
    <2> SUFFICES ASSUME ~crowded PROVE Sound'
      OBVIOUS
    <2>1. Sound /\ IsInside(w) /\ Writes(p)
      BY <1>1, <1>2 DEF RingInv, Sound, IsInside
    <2>2. /\ w.pos = writePos /\ w.count \in 1 .. FreeSpace
      BY <2>1 DEF Writes
    <2>3. /\ FillLevel \in 0 .. RingSize - 1 /\ FreeSpace \in 0 .. RingSize - 1
          /\ FillLevel + FreeSpace = RingSize - 1 /\ writePos = Later(readPos, FillLevel)
      BY <1>1, Levels
    <2>4. ASSUME NEW k \in 1 .. w.count
          PROVE  Later(writePos, k - 1) \in Index /\ cells'[Later(writePos, k - 1)] = w.samples[k]
      <3>1. k - 1 \in 0 .. RingSize - 1 /\ k - 1 \in 0 .. RingSize
        BY <2>2, <2>3, <1>1
      <3>2. Later(writePos, k - 1) \in Index
        BY <3>1, <1>1, LaterIs
      <3> DEFINE i == Later(writePos, k - 1)
      <3>3. Cell(i) \in 1 .. w.count /\ i = Later(w.pos, Cell(i) - 1)
        BY <2>2
      <3> DEFINE j == Cell(i)
      <3>4. j \in 1 .. w.count /\ Later(writePos, k - 1) = Later(writePos, j - 1)
        BY <3>3, <2>2
      <3> HIDE DEF j
      <3>5. j - 1 \in 0 .. RingSize - 1
        BY <3>4, <2>2, <2>3, <1>1
      <3>6. k - 1 = j - 1
        BY <3>1, <3>4, <3>5, <1>1, LaterApart
      <3>7. j = k
        BY <3>4, <3>6, <2>2, <2>3, <1>1
      <3>8. cells'[i] = w.samples[Cell(i)]
        BY <3>2, <1>2, <2>2
      <3> QED BY <3>2, <3>7, <3>8 DEF j
    <2>5. ASSUME NEW k \in 1 .. FillLevel
          PROVE  cells'[Later(readPos, k - 1)] = cells[Later(readPos, k - 1)]
      <3>1. k - 1 \in 0 .. RingSize - 1 /\ k - 1 \in 0 .. RingSize
        BY <2>3, <1>1
      <3>2. Later(readPos, k - 1) \in Index
        BY <3>1, <1>1, LaterIs
      <3>3. ASSUME NEW j \in 1 .. w.count, Later(readPos, k - 1) = Later(w.pos, j - 1)
            PROVE  FALSE
        <4>1. /\ j - 1 \in 0 .. RingSize /\ FillLevel \in 0 .. RingSize
              /\ FillLevel + (j - 1) \in 0 .. RingSize - 1 /\ FillLevel + (j - 1) <= RingSize
          BY <2>2, <2>3, <1>1
        <4>2. Later(writePos, j - 1) = Later(readPos, FillLevel + (j - 1))
          BY <4>1, <2>3, <1>1, LaterTwice
        <4>3. k - 1 = FillLevel + (j - 1)
          BY <4>1, <4>2, <3>1, <3>3, <2>2, <1>1, LaterApart
        <4> QED BY <4>3, <2>2, <2>3, <1>1
      <3> QED BY <3>2, <3>3, <1>2
    <2>6. Holds'
      BY <2>1, <2>5, <1>2, <1>3 DEF Sound, Holds
    <2>7. Writes(p)'
      <3>1. producer'[p].pos = writePos' /\ producer'[p].count \in 1 .. FreeSpace'
        BY <2>2, <1>2, <1>3, <1>5
      <3>2. \A k \in 1 .. producer'[p].count :
               cells'[Later(writePos', k - 1)] = producer'[p].samples[k]
        <4>1. writePos' = writePos /\ producer'[p].count = w.count /\ producer'[p].samples = w.samples
          BY <1>2, <1>5
        <4> HIDE DEF w
        <4> QED BY <4>1, <2>4
      <3> QED BY <3>1, <3>2 DEF Writes, Later
    <2>8. \A q \in Producers : IsInside(producer[q])' => q = p
      BY <2>1, <1>5 DEF Sound, Alone, IsInside
    <2>9. Alone'
      BY <2>1, <2>8, <1>2 DEF Sound, Alone
    <2>10. \A c \in Consumers : IsInside(consumer[c])' => Reads(c)'
      BY <2>1, <1>2, <1>3 DEF Sound, Reads
    <2> QED BY <2>1, <2>6, <2>7, <2>8, <2>9, <2>10, <1>2 DEF Sound
  <1>7. cells' \in [Index -> 0 .. MaxSampled]
    <2>1. w.samples \in Seq(1 .. MaxSampled) /\ w.count \in Nat
      BY <1>1 DEF Piece
    <2>2. \A k \in 1 .. w.count : w.samples[k] \in 0 .. MaxSampled
      BY <1>1, <2>1
    <2> HIDE DEF w
    <2>3. \A i \in Index : (\E k \in 1 .. w.count : i = Later(w.pos, k - 1))
                             => Cell(i) \in 1 .. w.count
      OBVIOUS
    <2> HIDE DEF Cell
    <2> QED BY <1>1, <1>2, <2>2, <2>3
  <1>8. RingTypeOK'
    BY <1>2, <1>4, <1>7 DEF RingInv, RingTypeOK
  <1>9. PiecesInv'
    BY <1>1, <1>4, <1>5 DEF RingInv, PiecesInv
  <1> QED BY <1>2, <1>6, <1>8, <1>9 DEF RingInv

LEMMA EndWriteOK ==
    ASSUME RingInv, NEW p \in Producers, EndWrite(p)
    PROVE  RingInv'
  <1> DEFINE w == producer[p]
  <1>1. /\ RingSize \in Nat \ {0} /\ MaxSampled \in Nat
        /\ writePos \in Index /\ readPos \in Index /\ w \in Piece
        /\ producer \in [Producers -> Piece] /\ producer \in [Producers -> Visits]
        /\ waiting \in Seq(1 .. MaxSampled) /\ Len(w.samples) = w.count
    BY RingAssumption DEF RingInv, RingTypeOK, PiecesInv
  <1>2. /\ UNCHANGED <<cells, readPos, consumer, sampled, exact, crowded>>
        /\ w.at = "copied"
        /\ writePos' = Later(w.pos, w.count)
        /\ waiting' = waiting \o w.samples
        /\ producer' = [producer EXCEPT ![p] = Outside]
    BY DEF EndWrite
  <1>3. Outside \in Piece /\ Outside \in Visits /\ ~IsInside(Outside) /\ Outside.count = Len(Outside.samples)
    <2>1. 0 \in Index /\ 0 \in 0 .. RingSize /\ <<>> \in Seq(1 .. MaxSampled) /\ <<>> \in Seq(Nat)
      BY <1>1 DEF Index
    <2> QED BY <2>1 DEF Outside, Piece, Visits, IsInside
  <1>4. /\ w.pos \in Index /\ w.count \in 0 .. RingSize /\ w.samples \in Seq(1 .. MaxSampled)
    BY <1>1 DEF Piece
  <1> HIDE DEF w
  <1>5. writePos' \in Index /\ waiting' \in Seq(1 .. MaxSampled)
    BY <1>1, <1>2, <1>4, LaterIs
  <1>6. /\ producer' \in [Producers -> Piece] /\ producer' \in [Producers -> Visits]
        /\ producer'[p] = Outside /\ \A q \in Producers : q # p => producer'[q] = producer[q]
    BY <1>1, <1>2, <1>3
  <1>7. crowded \/ Sound'
    <2> SUFFICES ASSUME ~crowded PROVE Sound'
      OBVIOUS
    <2>1. Sound /\ IsInside(producer[p]) /\ Writes(p)
      BY <1>1, <1>2 DEF RingInv, Sound, IsInside, w
    <2>2. /\ w.pos = writePos /\ w.count \in 1 .. FreeSpace
          /\ \A k \in 1 .. w.count : cells[Later(writePos, k - 1)] = w.samples[k]
      BY <2>1, <1>2 DEF Writes, w
    <2>3. /\ FillLevel \in 0 .. RingSize - 1 /\ FreeSpace \in 0 .. RingSize - 1
          /\ FillLevel + FreeSpace = RingSize - 1 /\ writePos = Later(readPos, FillLevel)
      BY <1>1, Levels
    <2>4. FillLevel' = FillLevel + w.count
      BY <2>2, <1>1, <1>2, LevelAfterWrite
    <2>5. Len(waiting) = FillLevel /\ \A k \in 1 .. FillLevel : cells[Later(readPos, k - 1)] = waiting[k]
      BY <2>1 DEF Sound, Holds
    <2>12. /\ Len(waiting') = Len(waiting) + Len(w.samples)
           /\ \A k \in 1 .. Len(waiting) : waiting'[k] = waiting[k]
           /\ \A j \in 1 .. Len(w.samples) : waiting'[Len(waiting) + j] = w.samples[j]
      <3>1. waiting \in Seq(1 .. MaxSampled) /\ w.samples \in Seq(1 .. MaxSampled)
        BY <1>1, <1>4
      <3>2. waiting' = waiting \o w.samples
        BY <1>2
      <3> QED BY <3>1, <3>2, Joined
    <2>6. Len(waiting') = FillLevel + w.count
      BY <2>5, <2>12, <1>1
    <2>7. ASSUME NEW k \in 1 .. FillLevel + w.count
          PROVE  cells[Later(readPos, k - 1)] = waiting'[k]
      <3>1. CASE k <= FillLevel
        <4>1. waiting'[k] = waiting[k]
          BY <3>1, <2>3, <2>5, <2>12
        <4> QED BY <3>1, <4>1, <2>3, <2>5
      <3>2. CASE k > FillLevel
        <4> DEFINE j == k - FillLevel
        <4>1. j \in 1 .. w.count /\ k = FillLevel + j
          BY <3>2, <2>2, <2>3, <1>1
        <4>2. waiting'[k] = w.samples[j]
          BY <4>1, <2>5, <2>12, <1>1
        <4> HIDE DEF j
        <4>3. /\ FillLevel \in 0 .. RingSize /\ j - 1 \in 0 .. RingSize
              /\ FillLevel + (j - 1) <= RingSize /\ FillLevel + (j - 1) = k - 1
          BY <4>1, <2>2, <2>3, <1>1
        <4>4. Later(writePos, j - 1) = Later(readPos, k - 1)
          BY <4>3, <2>3, <1>1, LaterTwice
        <4> QED BY <4>1, <4>2, <4>4, <2>2
      <3> QED BY <3>1, <3>2, <2>2, <2>3, <1>1
    <2>8. Holds'
      <3>1. cells' = cells /\ readPos' = readPos
        BY <1>2
      <3> QED BY <3>1, <2>4, <2>6, <2>7 DEF Holds, Later
    <2>9. \A q \in Producers : ~IsInside(producer[q])'
      BY <2>1, <1>3, <1>6 DEF Sound, Alone, IsInside
    <2>10. ASSUME NEW c \in Consumers, IsInside(consumer[c])' PROVE Reads(c)'
      <3>1. consumer' = consumer /\ readPos' = readPos /\ Reads(c)
        BY <2>1, <2>10, <1>2 DEF Sound, IsInside
      <3>2. consumer[c].pos = readPos' /\ consumer[c].count \in 1 .. FillLevel'
        BY <3>1, <2>2, <2>3, <2>4, <1>1 DEF Reads
      <3>3. ASSUME consumer[c].at = "copied"
            PROVE  /\ Len(consumer[c].samples) = consumer[c].count
                   /\ \A k \in 1 .. consumer[c].count : consumer[c].samples[k] = waiting'[k]
        <4>1. /\ Len(consumer[c].samples) = consumer[c].count
              /\ consumer[c].count \in 1 .. FillLevel
              /\ \A k \in 1 .. consumer[c].count : consumer[c].samples[k] = waiting[k]
          BY <3>1, <3>3 DEF Reads
        <4>2. \A k \in 1 .. FillLevel : waiting'[k] = waiting[k]
          BY <2>5, <2>12
        <4>3. \A k \in 1 .. consumer[c].count : k \in 1 .. FillLevel
          BY <4>1, <2>3
        <4> QED BY <4>1, <4>2, <4>3
      <3> QED BY <3>1, <3>2, <3>3 DEF Reads
    <2>11. Alone'
      BY <2>1, <2>9, <1>2 DEF Sound, Alone
    <2> QED BY <2>1, <2>8, <2>9, <2>10, <2>11, <1>2 DEF Sound
  <1>8. RingTypeOK'
    BY <1>2, <1>5, <1>6 DEF RingInv, RingTypeOK
  <1>9. PiecesInv'
    BY <1>3, <1>6 DEF RingInv, PiecesInv
  <1> QED BY <1>2, <1>7, <1>8, <1>9 DEF RingInv

-----------------------------------------------------------------------------
(* The consumer.                                                           *)
LEMMA BeginReadOK ==
    ASSUME RingInv, NEW c \in Consumers, NEW n \in 1 .. Batch, BeginRead(c, n)
    PROVE  RingInv'
  <1> DEFINE m == IF n <= FillLevel THEN n ELSE FillLevel
             r == [at |-> "found", pos |-> readPos, count |-> m, samples |-> <<>>]
  <1>1. /\ RingSize \in Nat \ {0} /\ Batch \in Nat \ {0}
        /\ writePos \in Index /\ readPos \in Index /\ consumer \in [Consumers -> Visits]
    BY RingAssumption DEF RingInv, RingTypeOK
  <1>2. FillLevel \in 0 .. RingSize - 1 /\ FillLevel > 0
    BY <1>1, Levels DEF BeginRead
  <1>3. m \in 1 .. FillLevel /\ m \in 0 .. RingSize
    BY <1>1, <1>2
  <1>4. /\ UNCHANGED <<cells, writePos, readPos, producer, sampled, waiting, exact>>
        /\ consumer' = [consumer EXCEPT ![c] = r]
        /\ crowded' = (crowded \/ \E d \in Consumers : IsInside(consumer[d]))
    BY DEF BeginRead
  <1>5. FillLevel' = FillLevel /\ FreeSpace' = FreeSpace
    BY <1>4 DEF FillLevel, FreeSpace
  <1>6. r \in Visits /\ r.at = "found" /\ r.pos = readPos /\ r.count = m
    BY <1>1, <1>3 DEF Visits
  <1> HIDE DEF r
  <1>7. /\ consumer' \in [Consumers -> Visits] /\ consumer'[c] = r
        /\ \A d \in Consumers : d # c => consumer'[d] = consumer[d]
    BY <1>1, <1>4, <1>6
  <1>8. crowded' \/ Sound'
    <2> SUFFICES ASSUME ~crowded' PROVE Sound'
      OBVIOUS
    <2>1. Sound /\ \A d \in Consumers : ~IsInside(consumer[d])
      BY <1>4 DEF RingInv
    <2>2. \A d \in Consumers : IsInside(consumer[d])' => d = c
      BY <2>1, <1>7 DEF IsInside
    <2>3. Reads(c)'
      BY <1>3, <1>4, <1>5, <1>6, <1>7 DEF Reads
    <2>4. Holds' /\ exact'
      BY <2>1, <1>4, <1>5 DEF Sound, Holds
    <2>5. \A p \in Producers : IsInside(producer[p])' => Writes(p)'
      BY <2>1, <1>4, <1>5 DEF Sound, Writes
    <2>6. Alone'
      BY <2>1, <2>2, <1>4 DEF Sound, Alone
    <2> QED BY <2>2, <2>3, <2>4, <2>5, <2>6 DEF Sound
  <1>9. RingTypeOK' /\ PiecesInv'
    BY <1>4, <1>7 DEF RingInv, RingTypeOK, PiecesInv
  <1> QED BY <1>8, <1>9 DEF RingInv

LEMMA CopyOutOK ==
    ASSUME RingInv, NEW c \in Consumers, CopyOut(c)
    PROVE  RingInv'
  <1> DEFINE r == consumer[c]
             copy == [k \in 1 .. r.count |-> cells[Later(r.pos, k - 1)]]
  <1>1. /\ RingSize \in Nat \ {0} /\ MaxSampled \in Nat
        /\ writePos \in Index /\ readPos \in Index /\ consumer \in [Consumers -> Visits]
        /\ cells \in [Index -> 0 .. MaxSampled]
    BY RingAssumption DEF RingInv, RingTypeOK
  <1>2. /\ UNCHANGED <<cells, writePos, readPos, producer, sampled, waiting, exact, crowded>>
        /\ r.at = "found"
        /\ consumer' = [consumer EXCEPT ![c].at = "copied", ![c].samples = copy]
    BY DEF CopyOut
  <1>3. FillLevel' = FillLevel /\ FreeSpace' = FreeSpace
    BY <1>2 DEF FillLevel, FreeSpace
  <1>4. r.pos \in Index /\ r.count \in 0 .. RingSize
    BY <1>1 DEF Visits
  <1>5. copy \in Seq(Nat) /\ Len(copy) = r.count
    <2> HIDE DEF r
    <2>1. ASSUME NEW k \in 1 .. r.count PROVE cells[Later(r.pos, k - 1)] \in Nat
      <3>1. k - 1 \in 0 .. RingSize
        BY <1>1, <1>4
      <3>2. Later(r.pos, k - 1) \in Index
        BY <3>1, <1>4, LaterIs
      <3> QED BY <3>2, <1>1
    <2>2. r.count \in Nat
      BY <1>1, <1>4
    <2> QED BY <2>1, <2>2
  <1> HIDE DEF copy
  <1>6. /\ consumer' \in [Consumers -> Visits]
        /\ consumer'[c].at = "copied" /\ consumer'[c].pos = r.pos
        /\ consumer'[c].count = r.count /\ consumer'[c].samples = copy
        /\ \A d \in Consumers : d # c => consumer'[d] = consumer[d]
    BY <1>1, <1>2, <1>5 DEF Visits
  <1>7. crowded \/ Sound'
    <2> SUFFICES ASSUME ~crowded PROVE Sound'
      OBVIOUS
    <2>1. Sound /\ IsInside(r) /\ Reads(c)
      BY <1>1, <1>2 DEF RingInv, Sound, IsInside
    <2>2. r.pos = readPos /\ r.count \in 1 .. FillLevel
      BY <2>1 DEF Reads
    <2>3. FillLevel \in 0 .. RingSize - 1
      BY <1>1, Levels
    <2>4. \A k \in 1 .. r.count : copy[k] = waiting[k]
      BY <2>1, <2>2, <2>3, <1>1 DEF Sound, Holds, copy
    <2>5. Reads(c)'
      BY <2>2, <2>4, <1>2, <1>3, <1>5, <1>6 DEF Reads
    <2>6. \A d \in Consumers : IsInside(consumer[d])' => d = c
      BY <2>1, <1>6 DEF Sound, Alone, IsInside
    <2>7. Holds' /\ exact'
      BY <2>1, <1>2, <1>3 DEF Sound, Holds
    <2>8. \A p \in Producers : IsInside(producer[p])' => Writes(p)'
      BY <2>1, <1>2, <1>3 DEF Sound, Writes
    <2>9. Alone'
      BY <2>1, <2>6, <1>2 DEF Sound, Alone
    <2> QED BY <2>5, <2>6, <2>7, <2>8, <2>9 DEF Sound
  <1>8. RingTypeOK' /\ PiecesInv'
    BY <1>2, <1>6 DEF RingInv, RingTypeOK, PiecesInv
  <1> QED BY <1>2, <1>7, <1>8 DEF RingInv

(* A sequence that agrees with the first elements of another is a prefix.  *)
LEMMA PrefixByPoints ==
    ASSUME NEW p \in Seq(Nat), NEW q \in Seq(Nat), Len(p) <= Len(q),
           \A k \in 1 .. Len(p) : p[k] = q[k]
    PROVE  IsPrefix(p, q)
  <1> DEFINE n == Len(p)
  <1>1. n \in Nat /\ Len(q) \in Nat /\ n <= Len(q)
    OBVIOUS
  <1>2. \A k \in 1 .. n : p[k] \in Nat /\ q[k] \in Nat
    BY <1>1
  <1> HIDE DEF n
  <1>3. /\ SubSeq(p, 1, n) \in Seq(Nat) /\ Len(SubSeq(p, 1, n)) = IF 1 <= n THEN n - 1 + 1 ELSE 0
        /\ \A k \in 1 .. n - 1 + 1 : SubSeq(p, 1, n)[k] = p[1 + k - 1]
    BY <1>1, <1>2, SubSeqProperties
  <1>4. /\ SubSeq(q, 1, n) \in Seq(Nat) /\ Len(SubSeq(q, 1, n)) = IF 1 <= n THEN n - 1 + 1 ELSE 0
        /\ \A k \in 1 .. n - 1 + 1 : SubSeq(q, 1, n)[k] = q[1 + k - 1]
    BY <1>1, <1>2, SubSeqProperties
  <1>5. Len(SubSeq(p, 1, n)) = n /\ Len(SubSeq(q, 1, n)) = n
    BY <1>1, <1>3, <1>4
  <1>6. \A k \in 1 .. n : p[k] = q[k]
    BY DEF n
  <1>7. ASSUME NEW k \in 1 .. n PROVE SubSeq(p, 1, n)[k] = SubSeq(q, 1, n)[k]
    <2>1. k \in 1 .. n - 1 + 1 /\ 1 + k - 1 = k
      BY <1>1
    <2> QED BY <2>1, <1>3, <1>4, <1>6
  <1>8. SubSeq(p, 1, n) = SubSeq(q, 1, n)
    BY <1>3, <1>4, <1>5, <1>7, SeqEqual
  <1> QED BY <1>1, <1>8 DEF IsPrefix, n

LEMMA EndReadOK ==
    ASSUME RingInv, NEW c \in Consumers, EndRead(c)
    PROVE  RingInv'
  <1> DEFINE r == consumer[c]
  <1>1. /\ RingSize \in Nat \ {0} /\ MaxSampled \in Nat
        /\ writePos \in Index /\ readPos \in Index /\ consumer \in [Consumers -> Visits]
        /\ waiting \in Seq(1 .. MaxSampled) /\ exact \in BOOLEAN
    BY RingAssumption DEF RingInv, RingTypeOK
  <1>2. /\ UNCHANGED <<cells, writePos, producer, sampled, crowded>>
        /\ r.at = "copied"
        /\ readPos' = Later(r.pos, r.count)
        /\ exact' = (exact /\ IsPrefix(r.samples, waiting))
        /\ waiting' = IF IsPrefix(r.samples, waiting)
                       THEN SubSeq(waiting, r.count + 1, Len(waiting)) ELSE waiting
        /\ consumer' = [consumer EXCEPT ![c] = Outside]
    BY DEF EndRead
  <1>3. Outside \in Visits /\ ~IsInside(Outside)
    <2>1. 0 \in Index /\ 0 \in 0 .. RingSize /\ <<>> \in Seq(Nat)
      BY <1>1 DEF Index
    <2> QED BY <2>1 DEF Outside, Visits, IsInside
  <1>4. r.pos \in Index /\ r.count \in 0 .. RingSize /\ r.samples \in Seq(Nat)
    BY <1>1 DEF Visits
  <1> HIDE DEF r
  <1>5. readPos' \in Index
    BY <1>2, <1>4, LaterIs
  <1>6. waiting' \in Seq(1 .. MaxSampled)
    <2>1. r.count + 1 \in 1 .. RingSize + 1 /\ Len(waiting) \in Nat
      BY <1>1, <1>4
    <2>2. SubSeq(waiting, r.count + 1, Len(waiting)) \in Seq(1 .. MaxSampled)
      BY <2>1, <1>1
    <2> QED BY <2>2, <1>1, <1>2
  <1>7. /\ consumer' \in [Consumers -> Visits] /\ consumer'[c] = Outside
        /\ \A d \in Consumers : d # c => consumer'[d] = consumer[d]
    BY <1>1, <1>2, <1>3
  <1>8. exact' \in BOOLEAN
    BY <1>2
  <1>9. crowded \/ Sound'
    <2> SUFFICES ASSUME ~crowded PROVE Sound'
      OBVIOUS
    <2>1. Sound /\ IsInside(consumer[c]) /\ Reads(c)
      BY <1>1, <1>2 DEF RingInv, Sound, IsInside, r
    <2>2. /\ r.pos = readPos /\ r.count \in 1 .. FillLevel /\ Len(r.samples) = r.count
          /\ \A k \in 1 .. r.count : r.samples[k] = waiting[k]
      BY <2>1, <1>2 DEF Reads, r
    <2>3. /\ FillLevel \in 0 .. RingSize - 1 /\ FreeSpace \in 0 .. RingSize - 1
          /\ FillLevel + FreeSpace = RingSize - 1 /\ writePos = Later(readPos, FillLevel)
      BY <1>1, Levels
    <2>4. FillLevel' = FillLevel - r.count /\ FreeSpace' = FreeSpace + r.count
      BY <2>2, <1>1, <1>2, LevelAfterRead
    <2>5. Len(waiting) = FillLevel /\ \A k \in 1 .. FillLevel : cells[Later(readPos, k - 1)] = waiting[k]
      BY <2>1 DEF Sound, Holds
    <2>6. IsPrefix(r.samples, waiting)
      <3>1. Len(r.samples) <= Len(waiting)
        BY <2>2, <2>3, <2>5
      <3>2. \A k \in 1 .. Len(r.samples) : r.samples[k] = waiting[k]
        BY <2>2
      <3>3. waiting \in Seq(Nat)
        BY <1>1
      <3> QED BY <3>1, <3>2, <3>3, <1>4, PrefixByPoints
    <2>7. exact' /\ waiting' = SubSeq(waiting, r.count + 1, Len(waiting))
      BY <2>1, <2>6, <1>2 DEF Sound
    <2>8. /\ Len(waiting') = FillLevel - r.count
          /\ \A k \in 1 .. FillLevel - r.count : waiting'[k] = waiting[r.count + k]
      <3>1. r.count \in 0 .. Len(waiting)
        BY <2>2, <2>3, <2>5
      <3> QED BY <3>1, <2>5, <2>7, <1>1, Rest
    <2>9. ASSUME NEW k \in 1 .. FillLevel - r.count
          PROVE  cells[Later(readPos', k - 1)] = waiting'[k]
      <3>1. /\ r.count \in 0 .. RingSize /\ k - 1 \in 0 .. RingSize
            /\ r.count + (k - 1) <= RingSize /\ r.count + (k - 1) = (r.count + k) - 1
            /\ r.count + k \in 1 .. FillLevel
        <4>1. /\ RingSize \in Nat /\ FillLevel \in Nat /\ FillLevel <= RingSize - 1
              /\ r.count \in Nat /\ 1 <= r.count /\ r.count <= FillLevel
              /\ k \in Nat /\ 1 <= k /\ k <= FillLevel - r.count
          BY <2>2, <2>3, RingAssumption
        <4> QED
          BY <4>1
      <3>2. Later(readPos', k - 1) = Later(readPos, (r.count + k) - 1)
        BY <3>1, <2>2, <1>1, <1>2, LaterTwice
      <3> QED BY <3>1, <3>2, <2>5, <2>8
    <2>10. Holds'
      <3>1. cells' = cells
        BY <1>2
      <3> QED BY <3>1, <2>4, <2>8, <2>9 DEF Holds, Later
    <2>11. \A d \in Consumers : ~IsInside(consumer[d])'
      BY <2>1, <1>3, <1>7 DEF Sound, Alone, IsInside
    <2>12. ASSUME NEW p \in Producers, IsInside(producer[p])' PROVE Writes(p)'
      <3>1. producer' = producer /\ writePos' = writePos /\ cells' = cells /\ Writes(p)
        BY <2>1, <2>12, <1>2 DEF Sound, IsInside
      <3>2. producer[p].count \in 1 .. FreeSpace'
        <4>1. producer[p].count \in 1 .. FreeSpace
          BY <3>1 DEF Writes
        <4>2. FreeSpace \in Nat /\ r.count \in Nat
          BY <2>2, <2>3
        <4> QED
          BY <4>1, <4>2, <2>4
      <3> QED BY <3>1, <3>2 DEF Writes, Later
    <2>13. Alone'
      BY <2>1, <2>11, <1>2 DEF Sound, Alone
    <2> QED BY <2>7, <2>10, <2>11, <2>12, <2>13 DEF Sound
  <1>10. RingTypeOK' /\ PiecesInv'
    BY <1>2, <1>5, <1>6, <1>7, <1>8 DEF RingInv, RingTypeOK, PiecesInv
  <1> QED BY <1>2, <1>9, <1>10 DEF RingInv

LEMMA RingNextOK == RingInv /\ [RingNext]_ringVars => RingInv'
  <1> SUFFICES ASSUME RingInv, [RingNext]_ringVars PROVE RingInv'
    OBVIOUS
  <1>1. ASSUME NEW p \in Producers, BeginWrite(p) \/ CopyIn(p) \/ EndWrite(p) PROVE RingInv'
    BY <1>1, BeginWriteOK, CopyInOK, EndWriteOK
  <1>2. ASSUME NEW c \in Consumers, NEW n \in 1 .. Batch, BeginRead(c, n) PROVE RingInv'
    BY <1>2, BeginReadOK
  <1>3. ASSUME NEW c \in Consumers, CopyOut(c) \/ EndRead(c) PROVE RingInv'
    BY <1>3, CopyOutOK, EndReadOK
  <1>4. CASE UNCHANGED ringVars
    BY <1>4 DEF ringVars, RingInv, RingTypeOK, PiecesInv, Sound, Alone, Holds, Writes, Reads,
                FillLevel, FreeSpace, Later, IsInside
  <1> QED BY <1>1, <1>2, <1>3, <1>4 DEF RingNext

(* Positions, cells and the pieces that are moved are well typed, however  *)
(* many threads are inside the ring (ring_buffer.py:82).                   *)
THEOREM RingTypeCorrect == RingSpec => []RingTypeOK
  <1>1. RingInv => RingTypeOK
    BY DEF RingInv
  <1> QED BY RingInitOK, RingNextOK, <1>1, PTL DEF RingSpec

(* With one producer and one consumer inside at a time, samples are taken  *)
(* as they were accepted, each once and in their order, for every size of  *)
(* the ring and of a read and wherever it wraps (ring_buffer.py:169).      *)
THEOREM RingCorrect == RingSpec => []TakenAsAccepted
  <1>1. RingInv => TakenAsAccepted
    BY DEF RingInv, Sound, TakenAsAccepted
  <1> QED BY RingInitOK, RingNextOK, <1>1, PTL DEF RingSpec

-----------------------------------------------------------------------------
(* The streams of the sources.                                             *)

(* A command that starts, stops, deletes or adds a source has one.         *)
ThenInv == order.at \in {"adding", "removing", "applying", "making"} => order.of \in Stations
AutoInv == AutoTypeOK /\ ThenInv

LoopStates == [at : {"off", "testing", "discovering", "adding", "checking", "removing", "sleeping"},
               knows : [Stations -> Nat], todo : SUBSET Stations, adds : Stations \cup {NoStation}]
Orders == [at : {"idle", "adding", "removing", "applying", "making", "clearing", "joining"},
           of : Stations \cup {NoStation}, then : {"down", "absent", "new"} \cup {NoStation}]

LEMMA AutoInitOK == AutoInit => AutoInv
  BY AutoAssumption DEF AutoInit, AutoInv, AutoTypeOK, ThenInv, Off, NoOrder, State, NoAdapter

LEMMA MovesOK ==
    ASSUME AutoTypeOK, NEW m \in Monitors, NEW place, MonitorTo(m, place),
           place \in {"off", "testing", "discovering", "adding", "checking", "removing", "sleeping"}
    PROVE  monitor' \in [Monitors -> LoopStates]
  <1>1. monitor \in [Monitors -> LoopStates]
    BY DEF AutoTypeOK, LoopStates
  <1>2. [monitor[m] EXCEPT !.at = place] \in LoopStates
    BY <1>1 DEF LoopStates
  <1>3. monitor' = [monitor EXCEPT ![m] = [monitor[m] EXCEPT !.at = place]]
    BY DEF MonitorTo
  <1> QED
    BY <1>1, <1>2, <1>3

LEMMA AddsOK ==
    ASSUME AutoTypeOK, NEW s, NEW adapter \in Nat, AddStreamer(s, adapter)
    PROVE  /\ streams' \in [Stations -> Nat]
           /\ autoEvents' \in 0 .. MaxAutoEvents
  BY AutoAssumption DEF AutoTypeOK, AddStreamer, AutoHappens

LEMMA AdaptersOK ==
    ASSUME AutoTypeOK, NEW s \in Stations
    PROVE  Adapter(s) \in Nat
  BY DEF AutoTypeOK, Adapter, NoAdapter

LEMMA OrdersOK ==
    ASSUME AutoTypeOK, NEW place \in {"adding", "removing", "making", "clearing"},
           NEW s \in Stations \cup {NoStation},
           NEW then \in {"down", "absent", "new"} \cup {NoStation},
           place \in {"adding", "removing", "making"} => s \in Stations, Order(place, s, then)
    PROVE  order' \in Orders /\ ThenInv' /\ autoEvents' \in 0 .. MaxAutoEvents
  BY AutoAssumption DEF AutoTypeOK, Order, AutoHappens, Orders, ThenInv

LEMMA AutoNextOK == AutoInv /\ [AutoNext]_autoVars => AutoInv'
  <1> SUFFICES ASSUME AutoInv, [AutoNext]_autoVars PROVE AutoInv'
    OBVIOUS
  <1> USE DEF AutoInv
  <1>1. ASSUME NEW m \in Monitors, MonitorStep(m) PROVE AutoInv'
    <2>1. CASE TestOff(m)
      <3> DEFINE new == IF off THEN Off
                        ELSE [at |-> "discovering", knows |-> [s \in Stations |-> Adapter(s)],
                              todo |-> {s \in Stations : Adapter(s) # NoAdapter},
                              adds |-> NoStation]
      <3>2. new \in LoopStates
        BY AdaptersOK DEF LoopStates, Off, NoAdapter
      <3>3. monitor' = [monitor EXCEPT ![m] = new]
        BY <2>1 DEF TestOff
      <3> HIDE DEF new
      <3>1. monitor' \in [Monitors -> LoopStates]
        BY <3>2, <3>3 DEF AutoTypeOK, LoopStates
      <3> QED BY <2>1, <3>1 DEF TestOff, AutoTypeOK, ThenInv, LoopStates
    <2>2. CASE LookAt(m)
      <3>0. monitor \in [Monitors -> LoopStates] /\ monitor[m] \in LoopStates
        BY DEF AutoTypeOK, LoopStates
      <3>2. PICK s \in monitor[m].todo, runs \in BOOLEAN :
              LET adds == streams[s] = NoAdapter /\ runs IN
              monitor' = [monitor EXCEPT ![m].todo = @ \ {s},
                 ![m].at = IF adds THEN "adding" ELSE "discovering",
                 ![m].adds = IF adds THEN s ELSE NoStation]
        BY <2>2 DEF LookAt
      <3>3. s \in Stations
        BY <3>0 DEF LoopStates
      <3> DEFINE to == IF streams[s] = NoAdapter /\ runs THEN "adding" ELSE "discovering"
      <3> DEFINE x == IF streams[s] = NoAdapter /\ runs THEN s ELSE NoStation
      <3>4. to \in {"adding", "discovering"} /\ x \in Stations \cup {NoStation}
        BY <3>3
      <3>5. monitor' = [monitor EXCEPT ![m].todo = @ \ {s}, ![m].at = to, ![m].adds = x]
        BY <3>2
      <3> HIDE DEF to, x
      <3>1. monitor' \in [Monitors -> LoopStates]
        BY <3>0, <3>4, <3>5 DEF LoopStates
      <3> QED BY <2>2, <3>1 DEF LookAt, AutoTypeOK, ThenInv, LoopStates
    <2>3. CASE MonitorAdds(m)
      <3>0. monitor \in [Monitors -> LoopStates]
        BY DEF AutoTypeOK, LoopStates
      <3>2. monitor' = [monitor EXCEPT ![m].at = "discovering", ![m].adds = NoStation]
        BY <2>3 DEF MonitorAdds
      <3>1. monitor' \in [Monitors -> LoopStates]
        BY <3>0, <3>2, ZenonT(40) DEF LoopStates
      <3>3. streams' \in [Stations -> Nat] /\ autoEvents' \in 0 .. MaxAutoEvents
        <4>1. CASE streams[monitor[m].adds] # NoAdapter
          BY <2>3, <4>1 DEF MonitorAdds, AddStreamer, AutoTypeOK
        <4>2. CASE monitor[m].adds \in Stations
          <5>1. monitor[m].knows[monitor[m].adds] \in Nat
            BY <3>0, <4>2 DEF LoopStates
          <5> QED BY <2>3, <5>1, AddsOK DEF MonitorAdds
        <4>3. CASE monitor[m].adds \notin Stations /\ streams[monitor[m].adds] = NoAdapter
          <5>1. \A x : [streams EXCEPT ![monitor[m].adds] = x] = streams
            BY <4>3 DEF AutoTypeOK
          <5> QED BY <2>3, <5>1, AutoAssumption
              DEF MonitorAdds, AddStreamer, AutoTypeOK, AutoHappens
        <4> QED BY <4>1, <4>2, <4>3
      <3> QED BY <2>3, <3>1, <3>3 DEF MonitorAdds, AutoTypeOK, ThenInv, LoopStates
    <2>4. CASE Discovered(m)
      BY <2>4, MovesOK DEF Discovered, AutoTypeOK, ThenInv, LoopStates
    <2>5. CASE CheckStreamers(m)
      <3>1. monitor' \in [Monitors -> LoopStates]
        BY <2>5, MovesOK DEF CheckStreamers
      <3>2. holder' \in Monitors \cup {NoThread}
        BY <2>5 DEF CheckStreamers, AutoTypeOK
      <3> QED BY <2>5, <3>1, <3>2 DEF CheckStreamers, AutoTypeOK, ThenInv, LoopStates
    <2>6. CASE Wake(m)
      BY <2>6, MovesOK DEF Wake, AutoTypeOK, ThenInv, LoopStates
    <2> QED BY <1>1, <2>1, <2>2, <2>3, <2>4, <2>5, <2>6 DEF MonitorStep
  <1>2. CASE OrderStep
    <2>1. CASE OrderAdds
      <3>1. Adapter(order.of) \in Nat
        BY <2>1, AdaptersOK DEF OrderAdds, ThenInv
      <3> QED BY <2>1, <3>1, AddsOK DEF OrderAdds, AutoTypeOK, ThenInv, NoOrder
    <2>2. CASE OrderRemoves
      BY <2>2 DEF OrderRemoves, AutoTypeOK, ThenInv, NoAdapter
    <2>3. CASE StopsAdapter
      <3>1. station' \in [Stations -> State]
        BY <2>3 DEF StopsAdapter, AutoTypeOK, State
      <3> QED BY <2>3, <3>1 DEF StopsAdapter, AutoTypeOK, ThenInv, NoOrder
    <2>6. CASE TakesOut
      <3>1. station' \in [Stations -> State]
        BY <2>6 DEF TakesOut, AutoTypeOK, State
      <3>2. order' \in Orders /\ ThenInv'
        BY <2>6 DEF TakesOut, AutoTypeOK, ThenInv, NoOrder, Orders
      <3>3. overtaken' \subseteq Stations
        BY <2>6 DEF TakesOut, AutoTypeOK, ThenInv
      <3> QED BY <2>6, <3>1, <3>2, <3>3 DEF TakesOut, AutoTypeOK, Orders
    <2>7. CASE Makes
      <3>1. station' \in [Stations -> State]
        BY <2>7 DEF Makes, AutoTypeOK, State
      <3>2. made' \in [Stations -> Nat]
        <4>1. made \in [Stations -> Nat] /\ made' = [made EXCEPT ![order.of] = @ + 1]
          BY <2>7 DEF Makes, AutoTypeOK
        <4>2. order.of \in Stations /\ made[order.of] + 1 \in Nat
          BY <2>7, <4>1 DEF Makes, ThenInv
        <4> QED BY <4>1, <4>2
      <3> QED BY <2>7, <3>1, <3>2 DEF Makes, AutoTypeOK, ThenInv, NoOrder
    <2>4. CASE ClearStreamers
      BY <2>4 DEF ClearStreamers, AutoTypeOK, ThenInv, NoAdapter
    <2>5. CASE JoinEnds
      BY <2>5 DEF JoinEnds, AutoTypeOK, ThenInv, NoOrder
    <2> QED BY <1>2, <2>1, <2>2, <2>3, <2>4, <2>5, <2>6, <2>7 DEF OrderStep
  <1>3. CASE StreamingStart
    <2>1. monitor' \in [Monitors -> LoopStates]
      BY <1>3, MovesOK DEF StreamingStart
    <2>2. autoEvents' \in 0 .. MaxAutoEvents
      BY <1>3, AutoAssumption DEF StreamingStart, AutoHappens, AutoTypeOK
    <2>3. off' \in BOOLEAN /\ UNCHANGED <<station, made, streams, holder, order, overtaken>>
      BY <1>3 DEF StreamingStart
    <2> QED BY <2>1, <2>2, <2>3 DEF AutoTypeOK, ThenInv, LoopStates
  <1>4. CASE StreamingStop
    <2>1. order' \in Orders /\ ThenInv' /\ autoEvents' \in 0 .. MaxAutoEvents
      BY <1>4, OrdersOK DEF StreamingStop
    <2> QED BY <1>4, <2>1 DEF StreamingStop, AutoTypeOK, Orders
  <1>5. ASSUME NEW s \in Stations,
               \/ SourceStart(s) \/ SourceStop(s) \/ SourceDelete(s) \/ SourceAdd(s)
               \/ StationFails(s) \/ StationRecovers(s)
        PROVE  AutoInv'
    <2>1. CASE SourceStart(s)
      <3>1. order' \in Orders /\ ThenInv' /\ autoEvents' \in 0 .. MaxAutoEvents
        BY <2>1, OrdersOK DEF SourceStart
      <3> QED BY <2>1, <3>1 DEF SourceStart, AutoTypeOK, Orders, State
    <2>2. CASE SourceStop(s)
      <3>1. order' \in Orders /\ ThenInv' /\ autoEvents' \in 0 .. MaxAutoEvents
        BY <2>2, OrdersOK DEF SourceStop, State
      <3> QED BY <2>2, <3>1 DEF SourceStop, AutoTypeOK, Orders
    <2>3. CASE SourceDelete(s)
      <3>1. order' \in Orders /\ ThenInv' /\ autoEvents' \in 0 .. MaxAutoEvents
        BY <2>3, OrdersOK DEF SourceDelete, State
      <3> QED BY <2>3, <3>1 DEF SourceDelete, AutoTypeOK, Orders
    <2>4. CASE SourceAdd(s)
      <3>1. order' \in Orders /\ ThenInv' /\ autoEvents' \in 0 .. MaxAutoEvents
        BY <2>4, OrdersOK DEF SourceAdd, State
      <3> QED BY <2>4, <3>1 DEF SourceAdd, AutoTypeOK, Orders
    <2>5. CASE StationFails(s)
      BY <2>5, AutoAssumption DEF StationFails, AutoHappens, AutoTypeOK, ThenInv, State
    <2>6. CASE StationRecovers(s)
      BY <2>6 DEF StationRecovers, AutoTypeOK, ThenInv, State
    <2> QED BY <1>5, <2>1, <2>2, <2>3, <2>4, <2>5, <2>6
  <1>6. CASE UNCHANGED autoVars
    BY <1>6 DEF autoVars, AutoTypeOK, ThenInv
  <1> QED BY <1>1, <1>2, <1>3, <1>4, <1>5, <1>6 DEF AutoNext

(* Streams, loops, lock and command are well typed, with any number of     *)
(* monitor loops and sources (auto_streaming.py:530).                      *)
THEOREM AutoTypeCorrect == AutoSpec => []AutoTypeOK
  <1>1. AutoInv => AutoTypeOK BY DEF AutoInv
  <1> QED BY AutoInitOK, AutoNextOK, <1>1, PTL DEF AutoSpec

LEMMA StaysJammed ==
    ASSUME AutoTypeOK, HolderWaits, [AutoNext]_autoVars, holder # NoThread
    PROVE  UNCHANGED <<holder, streams>>
  <1>1. ASSUME NEW m \in Monitors, MonitorStep(m) PROVE UNCHANGED <<holder, streams>>
    BY <1>1 DEF MonitorStep, TestOff, LookAt, MonitorAdds, Discovered, CheckStreamers, Wake,
                LockIsFree
  <1>2. CASE OrderStep
    BY <1>2 DEF OrderStep, OrderAdds, OrderRemoves, StopsAdapter, TakesOut, Makes,
                ClearStreamers, JoinEnds, LockIsFree
  <1>3. ASSUME NEW s \in Stations,
               \/ SourceStart(s) \/ SourceStop(s) \/ SourceDelete(s) \/ SourceAdd(s)
               \/ StationFails(s) \/ StationRecovers(s)
        PROVE  UNCHANGED <<holder, streams>>
    BY <1>3 DEF SourceStart, SourceStop, SourceDelete, SourceAdd, StationFails, StationRecovers
  <1> QED BY <1>1, <1>2, <1>3 DEF AutoNext, StreamingStart, StreamingStop, autoVars

(* No step takes a loop that waits in remove_source away from there.       *)
LEMMA StaysThere ==
    ASSUME AutoTypeOK, [AutoNext]_autoVars, NEW h \in Monitors, MonitorAt(h, "removing")
    PROVE  MonitorAt(h, "removing")'
  <1>0. ASSUME NEW m \in Monitors, MonitorStep(m), m = h PROVE FALSE
    BY <1>0 DEF MonitorStep, TestOff, LookAt, MonitorAdds, Discovered, CheckStreamers, Wake,
                MonitorAt
  <1>1. ASSUME NEW m \in Monitors, MonitorStep(m), m # h PROVE monitor'[h] = monitor[h]
    BY <1>1 DEF MonitorStep, TestOff, LookAt, MonitorAdds, Discovered, CheckStreamers, Wake,
                MonitorTo, AutoTypeOK
  <1>2. CASE OrderStep
    BY <1>2 DEF OrderStep, OrderAdds, OrderRemoves, StopsAdapter, TakesOut, Makes,
                ClearStreamers, JoinEnds, MonitorAt
  <1>3. ASSUME NEW s \in Stations,
               \/ SourceStart(s) \/ SourceStop(s) \/ SourceDelete(s) \/ SourceAdd(s)
               \/ StationFails(s) \/ StationRecovers(s)
        PROVE  UNCHANGED monitor
    BY <1>3 DEF SourceStart, SourceStop, SourceDelete, SourceAdd, StationFails, StationRecovers
  <1>4. ASSUME StreamingStart PROVE monitor'[h] = monitor[h]
    BY <1>4 DEF StreamingStart, MonitorTo, MonitorAt, AutoTypeOK
  <1> QED BY <1>0, <1>1, <1>2, <1>3, <1>4 DEF AutoNext, StreamingStop, autoVars, MonitorAt

LEMMA HolderWaitsOn ==
    ASSUME AutoTypeOK, HolderWaits, [AutoNext]_autoVars
    PROVE  HolderWaits'
  <1>1. CASE holder # NoThread
    <2>1. holder \in Monitors /\ MonitorAt(holder, "removing")
      BY <1>1 DEF AutoTypeOK, HolderWaits
    <2>2. holder' = holder
      BY <1>1, StaysJammed
    <2>3. MonitorAt(holder, "removing")'
      BY <2>1, <2>2, StaysThere DEF MonitorAt
    <2> QED BY <2>2, <2>3 DEF HolderWaits
  <1>2. CASE holder = NoThread
    <2> SUFFICES ASSUME holder' # NoThread PROVE MonitorAt(holder, "removing")'
      BY DEF HolderWaits
    <2>1. PICK m \in Monitors : CheckStreamers(m) /\ holder' = m /\ MonitorTo(m, "removing")
      BY <1>2 DEF AutoNext, MonitorStep, TestOff, LookAt, MonitorAdds, Discovered, Wake,
                  CheckStreamers, OrderStep, OrderAdds, OrderRemoves, StopsAdapter, TakesOut,
                  Makes, ClearStreamers,
                  JoinEnds, StreamingStart, StreamingStop, SourceStart, SourceStop, SourceDelete,
                  SourceAdd, StationFails, StationRecovers, autoVars
    <2>2. monitor'[m].at = "removing"
      BY <2>1 DEF MonitorTo, AutoTypeOK
    <2> QED BY <2>1, <2>2 DEF MonitorAt
  <1> QED BY <1>1, <1>2

(* Why the streams of stopped sources stay: the holder of the lock between *)
(* two steps is always a loop that waits for it in remove_source, for any  *)
(* number of loops and sources (auto_streaming.py:561).                    *)
THEOREM HolderDeadlocked == AutoSpec => []HolderWaits
  <1>1. AutoInit => HolderWaits BY DEF AutoInit, HolderWaits
  <1>2. AutoInv => AutoTypeOK BY DEF AutoInv
  <1>3. AutoTypeOK /\ HolderWaits /\ [AutoNext]_autoVars => HolderWaits' BY HolderWaitsOn
  <1> QED BY AutoInitOK, AutoNextOK, <1>1, <1>2, <1>3, PTL DEF AutoSpec

(* Once a loop found a left-over streamer, no step of any loop, command or *)
(* source changes a streamer again (auto_streaming.py:561, :233).          *)
THEOREM StreamsFrozen == AutoSpec => JammedForGood
  <1>1. AutoInv => AutoTypeOK BY DEF AutoInv
  <1>2. AutoTypeOK /\ HolderWaits /\ [AutoNext]_autoVars
          => [holder # NoThread => UNCHANGED <<holder, streams>>]_autoVars
    BY StaysJammed
  <1> QED BY AutoInitOK, AutoNextOK, HolderDeadlocked, <1>1, <1>2, PTL DEF AutoSpec, JammedForGood

=============================================================================
