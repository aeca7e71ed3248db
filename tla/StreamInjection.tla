--------------------------- MODULE StreamInjection ---------------------------
(***************************************************************************)
(* How a broadcast reaches the listeners of a stream: inject_eas_audio     *)
(* (app_core/audio/eas_stream_injector.py) pushes the alert, chunk by      *)
(* chunk and as fast as it can, into the queue that the capture loop of a  *)
(* source (ingest.py) fills with live audio; the streamer of the mount     *)
(* (icecast_output.py) reads that queue through a buffer of its own and    *)
(* writes to the pipe of an encoder process, through a write buffer that   *)
(* is flushed now and then. A gate keeps live audio out while the alert is *)
(* pushed, and a sequence number tells the streamer to throw away what it  *)
(* has buffered. The three threads share nothing else.                     *)
(***************************************************************************)
EXTENDS Naturals, Sequences, FiniteSets

CONSTANTS
    Injections,  \* the alerts to inject: 1 .. n, each by a thread of its own
    Chunks,      \* chunks of an alert
    QueueMax,    \* max_queue_size of _source_broadcast
    BufferMax,   \* maxlen of the streamer's buffer
    PreTarget,   \* chunks to prebuffer
    PreMin,      \* chunks a prebuffering that timed out must have got
    PipeMax,     \* chunks that the encoder's stdin holds, buffer and pipe
    MaxUpsets    \* bound: streamer stops, encoder deaths and test signals

ASSUME StreamAssumption ==
    /\ Injections \subseteq Nat \ {0} /\ Chunks \in Nat \ {0}
    /\ QueueMax \in Nat \ {0} /\ BufferMax \in Nat \ {0}
    /\ PreTarget \in 1 .. BufferMax /\ PreMin \in 1 .. PreTarget
    /\ PipeMax \in Nat \ {0} /\ MaxUpsets \in Nat

Live == [alert |-> 0, k |-> 0]
Chunk == {Live} \cup [alert : Injections, k : 1 .. Chunks]

VARIABLES
    line,      \* the streamer's subscription
    gate,      \* _eas_injection_active
    seqNo,     \* _eas_inject_seq
    held,      \* does the capture loop hold a chunk that passed the gate?
    injector,  \* where each injection is, and the chunk it pushes next
    streamer,  \* where the feed loop is
    seen,      \* _last_eas_inject_seq
    buffer,    \* the streamer's own buffer
    encoder,   \* is the encoder process running?
    pipe,      \* what its stdin holds, flushed or not, and it has not read
    heard,     \* history: chunks of each alert that an encoder read, in order
    spoiled,   \* history: chunks of alerts that were written to an encoder
               \* that died without reading them
    mixed,     \* history: live chunks among those of an alert (up to 2)
    upset,     \* history: see Disturbed
    upsets     \* how many so far

outVars == <<pipe, heard, spoiled>>
strVars == <<line, gate, seqNo, held, injector, streamer, seen, buffer,
             encoder, outVars, mixed, upset, upsets>>

Subscribed == streamer # "off"

StrTypeOK ==
    /\ line \in Seq(Chunk) /\ Len(line) <= QueueMax
    /\ gate \in BOOLEAN /\ held \in BOOLEAN /\ encoder \in BOOLEAN
    /\ seqNo \in Nat /\ seen \in Nat
    /\ injector \in [Injections -> [at : {"ready", "bumped", "flushing", "pushing", "done"},
                                 k : 1 .. Chunks + 1]]
    /\ streamer \in {"off", "prebuffering", "top", "reading", "writing"}
    /\ buffer \in Seq(Chunk) /\ Len(buffer) <= BufferMax
    /\ pipe \in Seq(Chunk) /\ Len(pipe) <= PipeMax
    /\ heard \in [Injections -> Seq(1 .. Chunks)]
    /\ spoiled \subseteq Chunk
    /\ mixed \in 0 .. 2 /\ upset \in BOOLEAN /\ upsets \in 0 .. MaxUpsets

StrInit ==
    /\ line = <<>>
    /\ gate = FALSE /\ held = FALSE /\ encoder = FALSE
    /\ seqNo = 0 /\ seen = 0
    /\ injector = [a \in Injections |-> [at |-> "ready", k |-> 1]]
    /\ streamer = "off"
    /\ buffer = <<>>
    /\ pipe = <<>> /\ spoiled = {}
    /\ heard = [a \in Injections |-> <<>>]
    /\ mixed = 0 /\ upset = FALSE /\ upsets = 0

Upset == upsets < MaxUpsets /\ upsets' = upsets + 1

-----------------------------------------------------------------------------
(* BroadcastQueue.publish for the one subscriber: a full queue loses its   *)
(* oldest chunk.                                                           *)
Full == Len(line) = QueueMax
Publish(c) == line' = IF ~Subscribed THEN line
                      ELSE IF Full THEN Append(Tail(line), c) ELSE Append(line, c)

(* An alert is disturbed when a second one is injected as well, when the   *)
(* queue runs full, and when the streamer is not feeding.                  *)
Feeding == streamer \in {"top", "reading", "writing"}
Pushed(a) == injector[a].at = "pushing" /\ injector[a].k \in 2 .. Chunks

-----------------------------------------------------------------------------
(* _capture_loop: a chunk is read, the gate is looked at, and then the     *)
(* chunk is published. Test signals are published past the gate.           *)

ReadLive_Fault ==
    /\ ~held
    /\ held' = TRUE
    /\ UNCHANGED <<line, gate, seqNo, injector, streamer, seen, buffer, encoder,
                   outVars, mixed, upset, upsets>>

ReadLive ==
    /\ ~held /\ ~gate
    /\ held' = TRUE
    /\ UNCHANGED <<line, gate, seqNo, injector, streamer, seen, buffer, encoder,
                   outVars, mixed, upset, upsets>>

PublishesLive ==
    /\ Publish(Live)
    /\ mixed' = IF mixed < 2 /\ \E a \in Injections : Pushed(a) THEN mixed + 1 ELSE mixed
    /\ UNCHANGED <<gate, seqNo, injector, streamer, seen, buffer, encoder, outVars>>

PublishLive ==
    /\ held /\ held' = FALSE
    /\ PublishesLive
    /\ upset' = (upset \/ Full)
    /\ UNCHANGED upsets

DrainTest ==
    /\ ~held /\ UNCHANGED held
    /\ Upset
    /\ PublishesLive
    /\ upset' = TRUE

-----------------------------------------------------------------------------
(* inject_eas_audio for one source.                                        *)

Bump(a) ==
    /\ injector[a].at = "ready"
    /\ seqNo' = seqNo + 1
    /\ injector' = [injector EXCEPT ![a].at = "bumped"]
    /\ upset' = (upset \/ ~Feeding \/ \E b \in Injections \ {a} : injector[b].at # "ready")
    /\ mixed' = 0
    /\ UNCHANGED <<line, gate, held, streamer, seen, buffer, encoder, outVars, upsets>>

SetGate(a) ==
    /\ injector[a].at = "bumped"
    /\ gate' = TRUE
    /\ injector' = [injector EXCEPT ![a].at = "flushing"]
    /\ UNCHANGED <<line, seqNo, held, streamer, seen, buffer, encoder, outVars,
                   mixed, upset, upsets>>

(* The queue is emptied chunk by chunk until it is found empty.            *)
Flush(a) ==
    /\ injector[a].at = "flushing"
    /\ IF line # <<>>
         THEN line' = Tail(line) /\ UNCHANGED injector
         ELSE injector' = [injector EXCEPT ![a].at = "pushing"] /\ UNCHANGED line
    /\ UNCHANGED <<gate, seqNo, held, streamer, seen, buffer, encoder, outVars,
                   mixed, upset, upsets>>

Push(a) ==
    /\ injector[a].at = "pushing" /\ injector[a].k <= Chunks
    /\ Publish([alert |-> a, k |-> injector[a].k])
    /\ upset' = (upset \/ Full)
    /\ injector' = [injector EXCEPT ![a].k = @ + 1]
    /\ UNCHANGED <<gate, seqNo, held, streamer, seen, buffer, encoder, outVars,
                   mixed, upsets>>

OpenGate_Fault(a) ==
    /\ injector[a].at = "pushing" /\ injector[a].k > Chunks
    /\ gate' = FALSE
    /\ seqNo' = seqNo + 1
    /\ injector' = [injector EXCEPT ![a].at = "done"]
    /\ UNCHANGED <<line, held, streamer, seen, buffer, encoder, outVars,
                   mixed, upset, upsets>>

OpenGate(a) ==
    /\ injector[a].at = "pushing" /\ injector[a].k > Chunks
    /\ gate' = FALSE
    /\ injector' = [injector EXCEPT ![a].at = "done"]
    /\ UNCHANGED <<line, seqNo, held, streamer, seen, buffer, encoder, outVars,
                   mixed, upset, upsets>>

-----------------------------------------------------------------------------
(* The encoder reads what is written to it once that is flushed, which     *)
(* happens when the write buffer is full and every sixteenth chunk; the    *)
(* model leaves open when. What it has not read is lost when it dies.      *)

EncoderReads ==
    /\ encoder /\ pipe # <<>>
    /\ pipe' = Tail(pipe)
    /\ heard' = IF Head(pipe) = Live THEN heard
                ELSE [heard EXCEPT ![Head(pipe).alert] = Append(@, Head(pipe).k)]
    /\ UNCHANGED <<line, gate, seqNo, held, injector, streamer, seen, buffer, encoder,
                   spoiled, mixed, upset, upsets>>

AlertChunks(s) == {s[i] : i \in DOMAIN s} \ {Live}
EncoderEnds ==
    /\ pipe' = <<>>
    /\ spoiled' = spoiled \cup AlertChunks(pipe)
    /\ UNCHANGED heard

EncoderDies ==
    /\ encoder
    /\ Upset
    /\ encoder' = FALSE
    /\ EncoderEnds
    /\ UNCHANGED <<line, gate, seqNo, held, injector, streamer, seen, buffer,
                   mixed, upset>>

-----------------------------------------------------------------------------
(* The streamer. A new one starts with sequence number 0, so that the      *)
(* first pass of its feed loop throws away what was prebuffered if any     *)
(* alert was ever injected.                                                *)

StartStreamer ==
    /\ streamer = "off"
    /\ streamer' = "prebuffering"
    /\ line' = <<>>
    /\ seen' = 0
    /\ buffer' = <<>>
    /\ encoder' = TRUE
    /\ UNCHANGED <<gate, seqNo, held, injector, outVars, mixed, upset, upsets>>

StopStreamer ==
    /\ streamer # "off"
    /\ Upset
    /\ streamer' = "off"
    /\ line' = <<>>
    /\ encoder' = FALSE
    /\ EncoderEnds
    /\ buffer' = <<>>
    /\ upset' = TRUE
    /\ UNCHANGED <<gate, seqNo, held, injector, seen, mixed>>

(* A deque with a maximal length drops at the other end.                   *)
PutLast_Fault(c) == <<c>> \o IF Len(buffer) = BufferMax THEN Tail(buffer) ELSE buffer
PutLast(c) == IF Len(buffer) = BufferMax THEN Append(Tail(buffer), c) ELSE Append(buffer, c)

Prebuffer ==
    /\ streamer = "prebuffering"
    /\ Len(buffer) < PreTarget
    /\ line # <<>>
    /\ line' = Tail(line)
    /\ buffer' = PutLast(Head(line))
    /\ UNCHANGED <<gate, seqNo, held, injector, streamer, seen, encoder, outVars,
                   mixed, upset, upsets>>

(* It has got enough, or the time is up: then with too little it begins    *)
(* with nothing.                                                           *)
PrebufferEnds ==
    /\ streamer = "prebuffering"
    /\ streamer' = "top"
    /\ buffer' = IF Len(buffer) >= PreMin THEN buffer ELSE <<>>
    /\ UNCHANGED <<line, gate, seqNo, held, injector, seen, encoder, outVars,
                   mixed, upset, upsets>>

(* A pass of _feed_loop begins: the encoder is restarted if it has died,   *)
(* and a new sequence number empties the buffer.                           *)
RestartEncoder ==
    /\ streamer = "top" /\ ~encoder
    /\ encoder' = TRUE
    /\ UNCHANGED <<line, gate, seqNo, held, injector, streamer, seen, buffer, outVars,
                   mixed, upset, upsets>>

CheckSeq ==
    /\ streamer = "top" /\ encoder
    /\ streamer' = "reading"
    /\ seen' = seqNo
    /\ buffer' = IF seqNo # seen THEN <<>> ELSE buffer
    /\ UNCHANGED <<line, gate, seqNo, held, injector, encoder, outVars,
                   mixed, upset, upsets>>

(* It waits for a chunk, for some time.                                    *)
Take ==
    /\ streamer = "reading"
    /\ streamer' = "writing"
    /\ \/ line # <<>> /\ line' = Tail(line) /\ buffer' = PutLast(Head(line))
       \/ line = <<>> /\ UNCHANGED <<line, buffer>>
    /\ upset' = (upset \/ (line # <<>> /\ Len(buffer) = BufferMax))
    /\ UNCHANGED <<gate, seqNo, held, injector, seen, encoder, outVars, mixed, upsets>>

(* A write waits for room in the pipe. The death of the encoder is noticed *)
(* by a write that flushes: it raises, and the chunk is put back. A chunk  *)
(* that only fills the write buffer of a dead encoder is lost.             *)
WriteReaches ==
    /\ encoder /\ Len(pipe) < PipeMax
    /\ buffer' = Tail(buffer)
    /\ pipe' = Append(pipe, Head(buffer))
    /\ UNCHANGED <<heard, spoiled>>

WriteIsLost ==
    /\ ~encoder
    /\ buffer' = Tail(buffer)
    /\ spoiled' = spoiled \cup ({Head(buffer)} \ {Live})
    /\ UNCHANGED <<pipe, heard>>

WriteRaises == ~encoder /\ UNCHANGED <<buffer, outVars>>

Write ==
    /\ streamer = "writing"
    /\ streamer' = "top"
    /\ \/ buffer # <<>> /\ (WriteReaches \/ WriteIsLost \/ WriteRaises)
       \/ buffer = <<>> /\ UNCHANGED <<buffer, outVars>>
    /\ UNCHANGED <<line, gate, seqNo, held, injector, seen, encoder, mixed, upset, upsets>>

-----------------------------------------------------------------------------
StrNext ==
    \/ ReadLive \/ PublishLive \/ DrainTest
    \/ \E a \in Injections : Bump(a) \/ SetGate(a) \/ Flush(a) \/ Push(a) \/ OpenGate(a)
    \/ StartStreamer \/ StopStreamer \/ Prebuffer \/ PrebufferEnds
    \/ CheckSeq \/ Take \/ Write
    \/ EncoderReads \/ EncoderDies \/ RestartEncoder

StrSpec == StrInit /\ [][StrNext]_strVars

-----------------------------------------------------------------------------
(* Whatever is flushed, dropped, restarted or injected at the same time,   *)
(* the listeners hear the chunks of an alert in their order and none twice *)
(* (icecast_output.py:670, icecast_output.py:684).                         *)
HeardInOrder ==
    \A a \in Injections : \A i, j \in DOMAIN heard[a] :
        i < j => heard[a][i] < heard[a][j]

Of(a, s) == {s[i].k : i \in {i \in DOMAIN s : s[i].alert = a}}
Pending(a) == Of(a, line) \cup Of(a, buffer) \cup Of(a, pipe)
Heard(a) == {heard[a][i] : i \in DOMAIN heard[a]}
Spoiled(a) == {c.k : c \in {c \in spoiled : c.alert = a}}

(* Of an alert that nothing disturbs, everything that was pushed is heard, *)
(* still on its way, or was written to an encoder that died without        *)
(* reading it, except perhaps the first chunk: the streamer may have read  *)
(* that one before it looked at the sequence number, and throws it away    *)
(* with the live audio. An encoder that is restarted takes nothing with it *)
(* that was not written (icecast_output.py:633, icecast_output.py:645,     *)
(* icecast_output.py:674, icecast_output.py:684).                          *)
OnlyFirstLost ==
    ~upset => \A a \in Injections :
                 2 .. injector[a].k - 1 \subseteq Heard(a) \cup Pending(a) \cup Spoiled(a)

(* At most one live chunk gets in among the chunks of an undisturbed       *)
(* alert: the one whose capture loop had looked at the gate before it was  *)
(* set (ingest.py:342).                                                    *)
OneLiveAmongAlert == ~upset => mixed <= 1

=============================================================================
