----------------------------- MODULE LossyStream -----------------------------
(***************************************************************************)
(* What a broadcast queue promises to those who listen: each hears, of     *)
(* every publisher, some of the samples published so far, in their order   *)
(* and none twice.                                                         *)
(***************************************************************************)
EXTENDS Integers, Sequences

CONSTANTS Sources, Listeners, Length    \* samples of a chunk

VARIABLES
    said,     \* chunks published by each source
    heard     \* samples heard by each listener

lossyVars == <<said, heard>>

(* Samples are numbered per source. *)
InOrder(s) == \A i, j \in 1 .. Len(s) :
                 i < j /\ s[i].by = s[j].by => s[i].n < s[j].n
Published(s) == \A i \in 1 .. Len(s) : s[i].n <= Length * said[s[i].by]

LossyInit == said = [p \in Sources |-> 0] /\ heard = [l \in Listeners |-> <<>>]

Say(p) == said' = [said EXCEPT ![p] = @ + 1] /\ UNCHANGED heard

Hear(l) ==
    /\ heard' = [heard EXCEPT ![l] = heard'[l]]
    /\ Len(heard'[l]) >= Len(heard[l])
    /\ SubSeq(heard'[l], 1, Len(heard[l])) = heard[l]
    /\ InOrder(heard'[l]) /\ Published(heard'[l])
    /\ UNCHANGED said

LossyNext == \/ \E p \in Sources : Say(p)
             \/ \E l \in Listeners : Hear(l)

LossySpec == LossyInit /\ [][LossyNext]_lossyVars

=============================================================================
