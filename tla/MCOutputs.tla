----------------------------- MODULE MCOutputs -----------------------------
(***************************************************************************)
(* The two ways out of the station, relays and streams, which share no     *)
(* state in these models, explored side by side: part says which of them   *)
(* moves, and the other stays in its initial state.                        *)
(***************************************************************************)
EXTENDS MCGPIOBehavior, StreamInjection

CONSTANT Parts    \* the components to explore

VARIABLE part

MCInit ==
    /\ part \in Parts
    /\ Init /\ (part # "relays" => setup = KeyAndBeacon)
    /\ StrInit

MCNext ==
    \/ part = "relays" /\ Next /\ UNCHANGED <<part, strVars>>
    \/ part = "stream" /\ StrNext /\ UNCHANGED <<part, vars>>

MCSpec == MCInit /\ [][MCNext]_<<part, vars, strVars>>

=============================================================================
