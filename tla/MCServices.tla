---------------------------- MODULE MCServices ----------------------------
(***************************************************************************)
(* Small instances of three components that share no state with each other *)
(* in these models, explored side by side: part says which of them moves,  *)
(* and the others stay in their initial states.                            *)
(***************************************************************************)
EXTENDS AlertForwarding, CAPPoller, SourceCommands

CONSTANT Parts    \* the components to explore

VARIABLE part

(* One tornado warning by three ways: the CAP feed, the air, the operator. *)
Tornado(i, v) ==
    [id |-> i, header |-> i, via |-> v, event |-> "TOR", code |-> "TOR",
     places |-> {1}, locations |-> {1}, named |-> TRUE, upgrade |-> FALSE, heard |-> TRUE]
MCAlerts == {Tornado(1, "poller"), Tornado(2, "monitor")}
MCActivations == {Tornado(3, "web")}

(* A warning and its cancellation.                                         *)
Product(i, a, k, s, e) ==
    [id |-> i, event |-> 1, action |-> a, kind |-> k, sent |-> s, text |-> 1,
     polygon |-> FALSE, endpoint |-> e, match |-> "same"]
MCPayloads == {Product(1, "NEW", "ALERT", 1, "noaa"),
               Product(3, "CAN", "UPDATE", 3, "ipaws")}

-----------------------------------------------------------------------------
MCInit ==
    /\ part \in Parts
    /\ FwdInit
    /\ CapInit
    /\ CmdInit /\ (part # "commands" => dbRow = "none")

MCNext ==
    \/ part = "forwarding" /\ FwdNext /\ UNCHANGED <<part, capVars, cmdVars>>
    \/ part = "poller" /\ CapNext /\ UNCHANGED <<part, fwdVars, cmdVars>>
    \/ part = "commands" /\ CmdNext /\ UNCHANGED <<part, fwdVars, capVars>>

mcVars == <<part, fwdVars, capVars, cmdVars>>

MCSpec == MCInit /\ [][MCNext]_mcVars

=============================================================================
